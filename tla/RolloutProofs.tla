--------------------------- MODULE RolloutProofs ---------------------------
(***************************************************************************)
(* What holds of Rollout for any number of replicas, attempts and          *)
(* disturbances.                                                           *)
(***************************************************************************)
EXTENDS Rollout, TLAPS

-----------------------------------------------------------------------------
(* Types.                                                                  *)

Flags == applied \in BOOLEAN /\ attained \in BOOLEAN

Data ==
  /\ step \in WorkloadSteps
  /\ pc \in {"get", "update", "sent", "poll", "done"} /\ try \in 1..Attempts
  /\ copy \in Update /\ answer \in {"none", "nil", "conflict"}
  /\ err \in Errors \cup {"nil"}
  /\ pending \subseteq Update
  /\ spec \in Specs /\ version \in Nat /\ generation \in Nat
  /\ status \in Status /\ pods \in Pods
  /\ disturbed \in Nat /\ template \in Nat

(* Any member of Next is one of these.                                     *)
LEMMA Cases ==
  ASSUME [Next]_vars
  PROVE  \/ Get \/ SendUpdate \/ Scaled \/ Refused \/ PollPasses
         \/ \E u \in pending : Land(u)
         \/ MovePods \/ WriteStatus
         \/ OtherDeploys
         \/ \E n \in 0..MaxReplicas : OtherScales(n)
         \/ Crash \/ ReportNoProgress
         \/ \E e \in Errors : CallFails(e)
         \/ \E u \in pending : Lose(u)
         \/ UNCHANGED vars
BY Zenon DEF Next, Reliable, StepAction, Controller, Others, Finished

(* The histories stay Boolean.                                             *)
LEMMA FlagsStep == Flags /\ [Next]_vars => Flags'
<1> SUFFICES ASSUME Flags, [Next]_vars
             PROVE  Flags'
  OBVIOUS
<1> USE DEF Flags, world
<1>1. CASE Get \/ SendUpdate \/ Scaled \/ Refused \/ PollPasses
  BY <1>1, Zenon DEF Get, SendUpdate, Scaled, Refused, PollPasses
<1>2. ASSUME NEW u \in pending, Land(u)
      PROVE  Flags'
  BY <1>2, Zenon DEF Land, Observe
<1>3. CASE MovePods \/ Crash \/ OtherDeploys
  BY <1>3, Zenon DEF MovePods, Crash, OtherDeploys, Observe
<1>4. CASE WriteStatus \/ ReportNoProgress
  BY <1>4, Zenon DEF WriteStatus, ReportNoProgress
<1>5. ASSUME NEW n \in 0..MaxReplicas, OtherScales(n)
      PROVE  Flags'
  BY <1>5, Zenon DEF OtherScales, Observe
<1>6. ASSUME NEW e \in Errors, CallFails(e)
      PROVE  Flags'
  BY <1>6, Zenon DEF CallFails
<1>7. ASSUME NEW u \in pending, Lose(u)
      PROVE  Flags'
  BY <1>7, Zenon DEF Lose
<1>8. CASE UNCHANGED vars
  BY <1>8, Zenon DEF vars
<1> QED
  BY <1>1, <1>2, <1>3, <1>4, <1>5, <1>6, <1>7, <1>8, Cases

(* A write of the specification keeps the server's types.                  *)
LEMMA ChangeSpecType ==
  ASSUME Data, NEW new \in Specs, ChangeSpec(new)
  PROVE  spec' \in Specs /\ version' \in Nat /\ generation' \in Nat /\ status' \in Status
BY DEF Data, ChangeSpec

(* So do the pods that grow old.                                           *)
LEMMA TurnoverType ==
  ASSUME Data, Turnover
  PROVE  pods' \in Pods
BY DEF Data, Turnover, Pods

(* Every step of kzero, the server and the others keeps the types.         *)
LEMMA DataStep == Data /\ [Next]_vars => Data'
<1> SUFFICES ASSUME Data, [Next]_vars
             PROVE  Data'
  OBVIOUS
<1> USE DEF Data, world, server, kzero
<1>1. CASE Get
  BY <1>1 DEF Get, Object, Update, Specs
<1>2. CASE SendUpdate
  BY <1>2 DEF SendUpdate
<1>3. CASE Scaled
  BY <1>3 DEF Scaled
<1>4. CASE Refused
  BY <1>4, BoundsAssumption DEF Refused, Fail, MayRetry, Errors
<1>5. CASE PollPasses
  BY <1>5 DEF PollPasses
<1>6. ASSUME NEW u \in pending, Land(u)
      PROVE  Data'
  <2>1. Asked(u) \in Specs
    BY StepsAssumption DEF Asked, Specs, Update, WorkloadStep
  <2>2. spec' \in Specs /\ version' \in Nat /\ generation' \in Nat /\ status' \in Status
    BY <1>6, <2>1, ChangeSpecType DEF Land
  <2>3. pods' \in Pods
    BY <1>6, TurnoverType DEF Land
  <2>4. answer' \in {"none", "nil", "conflict"} /\ pending' \subseteq Update
    BY <1>6 DEF Land
  <2> QED
    BY <1>6, <2>2, <2>3, <2>4 DEF Land
<1>7. CASE OtherDeploys
  <2>1. [spec EXCEPT !.template = template + 1] \in Specs
    BY DEF Specs
  <2>2. spec' \in Specs /\ version' \in Nat /\ generation' \in Nat /\ status' \in Status
    BY <1>7, <2>1, ChangeSpecType DEF OtherDeploys
  <2>3. pods' \in Pods
    BY <1>7, TurnoverType DEF OtherDeploys
  <2> QED
    BY <1>7, <2>2, <2>3 DEF OtherDeploys, Disturb
<1>8. ASSUME NEW n \in 0..MaxReplicas, OtherScales(n)
      PROVE  Data'
  <2>1. [spec EXCEPT !.replicas = n] \in Specs
    BY BoundsAssumption DEF Specs
  <2>2. spec' \in Specs /\ version' \in Nat /\ generation' \in Nat /\ status' \in Status
    BY <1>8, <2>1, ChangeSpecType DEF OtherScales
  <2> QED
    BY <1>8, <2>2 DEF OtherScales, Disturb
<1>9. CASE MovePods
  <2>1. ASSUME Create \/ Start \/ Retire
        PROVE  pods' \in Pods
    BY <2>1 DEF Create, Start, Retire, Pods
  <2>2. ASSUME Remove
        PROVE  pods' \in Pods
    <3>1. pods.fresh - 1 \in Nat
      BY <2>2 DEF Remove, Pods, Specs
    <3>2. (IF pods.ready = pods.fresh THEN pods.ready - 1 ELSE pods.ready) \in Nat
      BY <3>1 DEF Pods
    <3> QED
      BY <2>2, <3>1, <3>2 DEF Remove, Pods
  <2>3. pods' \in Pods
    BY <1>9, <2>1, <2>2 DEF MovePods
  <2> QED
    BY <1>9, <2>3 DEF MovePods
<1>10. CASE Crash
  <2>1. pods' \in Pods
    BY <1>10 DEF Crash, Pods
  <2> QED
    BY <1>10, <2>1 DEF Crash, Disturb
<1>11. CASE WriteStatus
  BY <1>11 DEF WriteStatus, Snapshot, Status, Pods
<1>12. CASE ReportNoProgress
  BY <1>12 DEF ReportNoProgress, Disturb, Snapshot, Status, Pods
<1>13. ASSUME NEW e \in Errors, CallFails(e)
       PROVE  Data'
  BY <1>13, BoundsAssumption DEF CallFails, Fail, MayRetry
<1>14. ASSUME NEW u \in pending, Lose(u)
       PROVE  Data'
  BY <1>14 DEF Lose
<1>15. CASE UNCHANGED vars
  BY <1>15 DEF vars
<1> QED
  BY <1>1, <1>2, <1>3, <1>4, <1>5, <1>6, <1>7, <1>8, <1>9, <1>10, <1>11, <1>12,
     <1>13, <1>14, <1>15, Cases

(* Every variable keeps its type, however many replicas, attempts and      *)
(* writes of other clients there are.                                      *)
THEOREM TypeCorrect == Spec => []TypeOK
<1>1. Init => Flags /\ Data
  <2>1. Init => Flags
    BY Zenon DEF Init, Flags
  <2>2. Init => Data
    BY BoundsAssumption DEF Init, Data, Update, Specs, Pods, Status
  <2> QED
    BY <2>1, <2>2
<1>2. Flags /\ Data => TypeOK
  BY DEF Flags, Data, TypeOK
<1> QED
  BY <1>1, <1>2, FlagsStep, DataStep, PTL DEF Spec

(* The same without the flags, as later proofs use it.                     *)
LEMMA DataHolds == Spec => []Data
<1>1. TypeOK => Data
  BY DEF TypeOK, Data
<1> QED
  BY <1>1, TypeCorrect, PTL

-----------------------------------------------------------------------------
(* No deployment is undone.                                                *)

(* Whatever carries the current version carries the current template.      *)
Known(u) == u.version \in 1..version /\ (u.version = version => u.template = spec.template)

VersionInv ==
  /\ version > 0
  /\ DeploymentsSurvive
  /\ pc = "update" => Known(copy)
  /\ \A u \in pending : Known(u)

(* A later version, or the same one with the same template, leaves what is *)
(* known of an update known.                                               *)
LEMMA StillKnown ==
  ASSUME Data, NEW u \in Update, Known(u),
         version' \in Nat,
         version' > version \/ (version' = version /\ spec'.template = spec.template)
  PROVE  /\ u.version \in 1..version'
         /\ u.version = version' => u.template = spec'.template
BY DEF Data, Known, Update

(* A write of the specification that changes the template makes a version. *)
LEMMA ChangeIsNews ==
  ASSUME Data, NEW new \in Specs, ChangeSpec(new)
  PROVE  /\ version' \in Nat /\ version' >= version
         /\ version' > version \/ (version' = version /\ spec'.template = spec.template)
BY DEF Data, ChangeSpec

(* VersionInv survives a step that sends no update, if the template stays  *)
(* with what the other clients want.                                       *)
LEMMA VersionKept ==
  ASSUME Data, VersionInv, pending' \subseteq pending,
         pc' = "update" => pc = "update" /\ copy' = copy,
         version' \in Nat, spec'.template = template',
         version' > version \/ (version' = version /\ spec'.template = spec.template)
  PROVE  VersionInv'
<1>1. version' > 0 /\ DeploymentsSurvive'
  BY DEF VersionInv, Data, DeploymentsSurvive
<1>2. pc' = "update" => Known(copy)'
  BY StillKnown DEF VersionInv, Known, Data
<1>3. \A u \in pending' : Known(u)'
  BY StillKnown DEF VersionInv, Known, Data
<1> QED
  BY <1>1, <1>2, <1>3 DEF VersionInv

(* VersionInv survives every step.                                         *)
LEMMA VersionStep == Data /\ VersionInv /\ [Next]_vars => VersionInv'
<1> SUFFICES ASSUME Data, VersionInv, [Next]_vars
             PROVE  VersionInv'
  OBVIOUS
<1> USE DEF world, server, kzero
<1>0. version \in Nat /\ spec.template = template
  BY DEF Data, VersionInv, DeploymentsSurvive
<1>1. CASE Get
  <2>1. Known(Object)
    BY <1>0 DEF VersionInv, Known, Object, Data
  <2> QED
    BY <1>1, <2>1 DEF Get, VersionInv, Known, DeploymentsSurvive
<1>2. CASE SendUpdate
  BY <1>2 DEF SendUpdate, VersionInv, Known, DeploymentsSurvive
<1>3. CASE Scaled \/ Refused \/ PollPasses
  BY <1>3, <1>0, VersionKept DEF Scaled, Refused, PollPasses, Fail
<1>4. ASSUME NEW u \in pending, Land(u)
      PROVE  VersionInv'
  <2>1. CASE Accepts(u) /\ ~step.dryRun
    <3>1. Asked(u) \in Specs
      BY StepsAssumption DEF Asked, Specs, Update, WorkloadStep, Data
    <3>2. u.template = spec.template
      BY <2>1 DEF Accepts, VersionInv, Known, Data
    <3>3. spec' = Asked(u)
      BY <1>4, <2>1 DEF Land, ChangeSpec
    <3>4. spec'.template = template'
      BY <1>4, <1>0, <3>2, <3>3 DEF Land, Asked
    <3>5. /\ version' \in Nat
          /\ version' > version \/ (version' = version /\ spec'.template = spec.template)
      BY <1>4, <2>1, <3>1, ChangeIsNews DEF Land
    <3> QED
      BY <1>4, <3>4, <3>5, VersionKept DEF Land
  <2>2. CASE ~(Accepts(u) /\ ~step.dryRun)
    BY <1>4, <2>2, <1>0, VersionKept DEF Land
  <2> QED
    BY <2>1, <2>2
<1>5. CASE OtherDeploys
  <2>1. [spec EXCEPT !.template = template + 1] \in Specs
    BY DEF Specs, Data
  <2>2. /\ version' \in Nat
        /\ version' > version \/ (version' = version /\ spec'.template = spec.template)
    BY <1>5, <2>1, ChangeIsNews DEF OtherDeploys
  <2>3. spec'.template = template'
    BY <1>5 DEF OtherDeploys, ChangeSpec, Data, Specs
  <2> QED
    BY <1>5, <2>2, <2>3, VersionKept DEF OtherDeploys
<1>6. ASSUME NEW n \in 0..MaxReplicas, OtherScales(n)
      PROVE  VersionInv'
  <2>1. [spec EXCEPT !.replicas = n] \in Specs
    BY BoundsAssumption DEF Specs, Data
  <2>2. /\ version' \in Nat
        /\ version' > version \/ (version' = version /\ spec'.template = spec.template)
    BY <1>6, <2>1, ChangeIsNews DEF OtherScales
  <2>3. spec'.template = template'
    BY <1>0, <1>6 DEF OtherScales, ChangeSpec, Data, Specs
  <2> QED
    BY <1>6, <2>2, <2>3, VersionKept DEF OtherScales
<1>7. CASE MovePods \/ Crash
  BY <1>7, <1>0, VersionKept DEF MovePods, Crash
<1>8. CASE WriteStatus \/ ReportNoProgress
  <2>1. version' = version + 1 /\ UNCHANGED <<pc, copy, pending, spec, template>>
    BY <1>8 DEF WriteStatus, ReportNoProgress
  <2> QED
    BY <1>0, <2>1, VersionKept
<1>9. ASSUME NEW e \in Errors, CallFails(e)
      PROVE  VersionInv'
  <2>1. pc' # "update" /\ pending' \subseteq pending
    BY <1>9 DEF CallFails, Fail
  <2> QED
    BY <1>9, <1>0, <2>1, VersionKept DEF CallFails
<1>10. ASSUME NEW u \in pending, Lose(u)
       PROVE  VersionInv'
  BY <1>10, <1>0, VersionKept DEF Lose
<1>11. CASE UNCHANGED vars
  BY <1>11, <1>0, VersionKept DEF vars
<1> QED
  BY <1>1, <1>2, <1>3, <1>4, <1>5, <1>6, <1>7, <1>8, <1>9, <1>10, <1>11, Cases

(* No update of kzero, raced, repeated or late, undoes what another client *)
(* has deployed.                                                           *)
THEOREM NoDeploymentIsUndone == Spec => []DeploymentsSurvive
<1>1. Init => VersionInv
  BY DEF Init, VersionInv, DeploymentsSurvive
<1>2. VersionInv => DeploymentsSurvive
  BY DEF VersionInv
<1> QED
  BY <1>1, <1>2, VersionStep, DataHolds, PTL DEF Spec

-----------------------------------------------------------------------------
(* Success means that the update took effect.                              *)

AppliedInv ==
  /\ err = "nil" \/ pc = "done"
  /\ pc = "sent" /\ answer = "nil" /\ ~step.dryRun => applied
  /\ pc = "poll" => applied
  /\ SuccessIsApplied

(* AppliedInv survives every step.                                         *)
LEMMA AppliedStep == AppliedInv /\ [Next]_vars => AppliedInv'
<1> SUFFICES ASSUME AppliedInv, [Next]_vars
             PROVE  AppliedInv'
  OBVIOUS
<1> USE DEF AppliedInv, SuccessIsApplied, world, kzero
<1>1. CASE Get \/ SendUpdate
  BY <1>1 DEF Get, SendUpdate
<1>2. CASE Scaled \/ PollPasses
  BY <1>2 DEF Scaled, PollPasses
<1>3. CASE Refused
  BY <1>3 DEF Refused, Fail
<1>4. ASSUME NEW u \in pending, Land(u)
      PROVE  AppliedInv'
  <2>1. applied => applied'
    BY <1>4, Zenon DEF Land
  <2>2. pc = "sent" /\ answer' = "nil" /\ answer # "nil" /\ ~step.dryRun => applied'
    BY <1>4 DEF Land
  <2> QED
    BY <1>4, <2>1, <2>2 DEF Land
<1>5. CASE MovePods \/ Crash \/ OtherDeploys
  BY <1>5 DEF MovePods, Crash, OtherDeploys
<1>6. ASSUME NEW n \in 0..MaxReplicas, OtherScales(n)
      PROVE  AppliedInv'
  BY <1>6 DEF OtherScales
<1>7. CASE WriteStatus \/ ReportNoProgress
  BY <1>7 DEF WriteStatus, ReportNoProgress
<1>8. ASSUME NEW e \in Errors, CallFails(e)
      PROVE  AppliedInv'
  BY <1>8 DEF CallFails, Fail, Errors
<1>9. ASSUME NEW u \in pending, Lose(u)
      PROVE  AppliedInv'
  BY <1>9 DEF Lose
<1>10. CASE UNCHANGED vars
  BY <1>10 DEF vars
<1> QED
  BY <1>1, <1>2, <1>3, <1>4, <1>5, <1>6, <1>7, <1>8, <1>9, <1>10, Cases

(* A step that succeeds has scaled the workload.                           *)
THEOREM SuccessIsEarned == Spec => []SuccessIsApplied
<1>1. Init => AppliedInv
  BY DEF Init, AppliedInv, SuccessIsApplied
<1>2. AppliedInv => SuccessIsApplied
  BY DEF AppliedInv
<1> QED
  BY <1>1, <1>2, AppliedStep, PTL DEF Spec

-----------------------------------------------------------------------------
(* A wait that ends well has seen a status of the current specification.   *)

(* The status is a snapshot of a moment since the generation it names.     *)
StatusInv ==
  /\ status.observed <= generation
  /\ Enough => attained
  /\ /\ status.observed = generation
     /\ status.updated >= spec.replicas /\ status.ready >= spec.replicas
     => attained

(* An observed step keeps StatusInv when it leaves the status alone.       *)
LEMMA ObservedStep ==
  ASSUME Data, Data', StatusInv, Observe, status' = status,
         \/ generation' = generation /\ spec' = spec
         \/ generation' = generation + 1
  PROVE  StatusInv'
<1>1. (generation' = generation /\ attained) \/ Enough' => attained'
  BY Zenon DEF Observe
<1>2. status'.observed <= generation'
  BY DEF StatusInv, Data, Status
<1>3. Enough' => attained'
  BY <1>1
<1>4. CASE generation' = generation /\ spec' = spec
  BY <1>1, <1>2, <1>3, <1>4 DEF StatusInv
<1>5. CASE generation' = generation + 1
  <2>1. status'.observed # generation'
    BY <1>5 DEF StatusInv, Data, Status
  <2> QED
    BY <1>2, <1>3, <2>1 DEF StatusInv
<1> QED
  BY <1>4, <1>5

(* So does a new snapshot.                                                 *)
LEMMA SnapshotStep ==
  ASSUME Data, StatusInv, NEW p \in BOOLEAN, status' = Snapshot(p),
         UNCHANGED <<spec, generation, pods, attained>>
  PROVE  StatusInv'
<1>1. Enough' <=> Enough
  BY DEF Enough
<1>2. /\ status'.observed = generation /\ status'.updated = pods.fresh
      /\ status'.ready = pods.ready + pods.old
  BY DEF Snapshot
<1>3. status'.observed <= generation'
  BY <1>2 DEF Data
<1>4. status'.updated >= spec'.replicas /\ status'.ready >= spec'.replicas => Enough
  BY <1>2 DEF Enough
<1>5. (Enough => attained) /\ attained' = attained
  BY DEF StatusInv
<1> QED
  BY <1>1, <1>3, <1>4, <1>5 DEF StatusInv

(* StatusInv survives every step.                                          *)
LEMMA StatusStep == Data /\ StatusInv /\ [Next]_vars => StatusInv'
<1> SUFFICES ASSUME Data, StatusInv, [Next]_vars
             PROVE  StatusInv'
  OBVIOUS
<1>0. Data'
  BY DataStep
<1> USE DEF world, server
<1>1. ASSUME UNCHANGED <<spec, generation, status, pods, attained>>
      PROVE  StatusInv'
  BY <1>1 DEF StatusInv, Enough
<1>2. CASE Get \/ SendUpdate \/ Scaled \/ Refused \/ PollPasses
  BY <1>1, <1>2 DEF Get, SendUpdate, Scaled, Refused, PollPasses
<1>3. ASSUME NEW new, ChangeSpec(new)
      PROVE  /\ status' = status
             /\ \/ generation' = generation /\ spec' = spec
                \/ generation' = generation + 1
  BY <1>3 DEF ChangeSpec
<1>4. ASSUME NEW u \in pending, Land(u)
      PROVE  StatusInv'
  BY <1>0, <1>3, <1>4, ObservedStep DEF Land
<1>5. CASE OtherDeploys
  BY <1>0, <1>3, <1>5, ObservedStep DEF OtherDeploys
<1>6. ASSUME NEW n \in 0..MaxReplicas, OtherScales(n)
      PROVE  StatusInv'
  BY <1>0, <1>3, <1>6, ObservedStep DEF OtherScales
<1>7. CASE MovePods \/ Crash
  BY <1>0, <1>7, ObservedStep DEF MovePods, Crash
<1>8. CASE WriteStatus \/ ReportNoProgress
  BY <1>8, SnapshotStep DEF WriteStatus, ReportNoProgress
<1>9. ASSUME NEW e \in Errors, CallFails(e)
      PROVE  StatusInv'
  BY <1>1, <1>9 DEF CallFails
<1>10. ASSUME NEW u \in pending, Lose(u)
       PROVE  StatusInv'
  BY <1>1, <1>10 DEF Lose
<1>11. CASE UNCHANGED vars
  BY <1>1, <1>11 DEF vars
<1> QED
  BY <1>2, <1>4, <1>5, <1>6, <1>7, <1>8, <1>9, <1>10, <1>11, Cases

(* A poll that passes does so on such a status.                            *)
LEMMA PollIsRight ==
  ASSUME Data, StatusInv, [Next]_vars, pc = "poll", pc' = "done", err' = "nil"
  PROVE  spec.replicas = 0 \/ attained
<1>1. CASE PollPasses
  <2>1. status.observed <= generation /\ status.observed \in Nat /\ generation \in Nat
    BY DEF StatusInv, Data, Status
  <2>2. status.observed >= generation => status.observed = generation
    BY <2>1
  <2> QED
    BY <1>1, <2>2 DEF PollPasses, Ready, StatusInv
<1>2. ASSUME NEW e \in Errors, CallFails(e)
      PROVE  FALSE
  BY <1>2 DEF CallFails, Fail, Errors
<1> USE DEF kzero
<1>3. ~(Get \/ SendUpdate \/ Scaled \/ Refused)
  BY DEF Get, SendUpdate, Scaled, Refused
<1>4. ASSUME NEW u \in pending, Land(u) \/ Lose(u)
      PROVE  FALSE
  BY <1>4 DEF Land, Lose
<1>5. ~(MovePods \/ WriteStatus \/ OtherDeploys \/ Crash \/ ReportNoProgress)
  BY DEF MovePods, WriteStatus, OtherDeploys, Crash, ReportNoProgress
<1>6. ASSUME NEW n \in 0..MaxReplicas, OtherScales(n)
      PROVE  FALSE
  BY <1>6 DEF OtherScales
<1>7. CASE UNCHANGED vars
  BY <1>7 DEF vars
<1> QED
  BY <1>1, <1>2, <1>3, <1>4, <1>5, <1>6, <1>7, Cases

(* Whenever the wait for readiness ends well, enough pods have been there  *)
(* since the specification last changed.                                   *)
THEOREM ReadyIsTrue == Spec => ReadyIsBelieved
<1>1. Init => StatusInv
  BY DEF Init, StatusInv, Enough
<1>2. Data /\ StatusInv /\ [Next]_vars =>
        [(pc = "poll" /\ pc' = "done" /\ err' = "nil") => spec.replicas = 0 \/ attained]_vars
  BY PollIsRight
<1> QED
  BY <1>1, <1>2, StatusStep, DataHolds, PTL DEF Spec, ReadyIsBelieved
=============================================================================
