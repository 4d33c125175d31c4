---------------------------- MODULE StepsProofs -----------------------------
(***************************************************************************)
(* What holds of Steps for any pipelines, any commands, any number of      *)
(* processes and attempts, of failures and of changes by others.           *)
(***************************************************************************)
EXTENDS Steps, SequenceTheorems, TLAPS

-----------------------------------------------------------------------------
(* The steps of a process.                                                 *)

Tasks == [phase : {"down", "up"}, step : StepsOf(plan)]

(* A function on 1..n is a sequence.                                       *)
LEMMA FunctionIsSeq ==
  ASSUME NEW T, NEW n \in Nat, NEW f \in [1..n -> T]
  PROVE  f \in Seq(T) /\ Len(f) = n
<1>1. f \in Seq(T)
  BY SeqDef, Zenon
<1>2. Len(f) \in Nat /\ DOMAIN f = 1..Len(f)
  BY <1>1, LenProperties
<1> QED
  BY <1>1, <1>2

(* Tagging the steps of a pipeline keeps their number and their order.     *)
LEMMA TaggedIsSeq ==
  ASSUME NEW phase \in {"down", "up"}, NEW steps \in Seq(StepsOf(plan))
  PROVE  /\ Tagged(phase, steps) \in Seq(Tasks)
         /\ Len(Tagged(phase, steps)) = Len(steps)
         /\ \A i \in 1..Len(steps) : /\ Tagged(phase, steps)[i].phase = phase
                                     /\ Tagged(phase, steps)[i].step = steps[i]
<1>1. /\ Len(steps) \in Nat /\ DOMAIN steps = 1..Len(steps)
      /\ \A i \in 1..Len(steps) : steps[i] \in StepsOf(plan)
  BY LenProperties, ElementOfSeq
<1>2. Tagged(phase, steps) \in [1..Len(steps) -> Tasks]
  BY <1>1 DEF Tagged, Tasks
<1>3. Tagged(phase, steps) \in Seq(Tasks) /\ Len(Tagged(phase, steps)) = Len(steps)
  BY <1>1, <1>2, FunctionIsSeq, Zenon
<1> QED
  BY <1>1, <1>3 DEF Tagged

(* A place behind the first m is one of the n that follow.                 *)
LEMMA Behind ==
  ASSUME NEW m \in Nat, NEW n \in Nat, NEW i \in 1..(m + n), ~(i <= m)
  PROVE  i - m \in 1..n
OBVIOUS

(* A place among the first m is one of all.                                *)
LEMMA Before ==
  ASSUME NEW m \in Nat, NEW n \in Nat, NEW i \in 1..m
  PROVE  i \in 1..(m + n) /\ i <= m
OBVIOUS

(* The down steps come before the up steps.                                *)
LEMMA TodoIsSeq ==
  ASSUME plan \in Plans, NEW c \in {"down", "up", "reset"}
  PROVE  /\ TodoOf(c) \in Seq(Tasks)
         /\ \A i \in 1..Len(TodoOf(c)) :
              /\ TodoOf(c)[i].phase = "down" => /\ c # "up" /\ i \in DOMAIN plan.down
                                                /\ TodoOf(c)[i].step = plan.down[i]
              /\ TodoOf(c)[i].phase = "up" =>
                   /\ c # "down"
                   /\ \E j \in DOMAIN plan.up : TodoOf(c)[i].step = plan.up[j]
                   /\ c = "reset" => \A j \in DOMAIN plan.down : j < i
         /\ c = "reset" =>
              \A i \in DOMAIN plan.down : /\ i \in 1..Len(TodoOf(c)) /\ TodoOf(c)[i].phase = "down"
                                          /\ TodoOf(c)[i].step = plan.down[i]
<1> DEFINE D == Tagged("down", plan.down)
           U == Tagged("up", plan.up)
<1>1. plan.down \in Seq(StepsOf(plan)) /\ plan.up \in Seq(StepsOf(plan))
  BY PlansAssumption
<1>2. /\ D \in Seq(Tasks) /\ Len(D) = Len(plan.down)
      /\ \A i \in 1..Len(plan.down) : D[i].phase = "down" /\ D[i].step = plan.down[i]
  BY <1>1, TaggedIsSeq
<1>3. /\ U \in Seq(Tasks) /\ Len(U) = Len(plan.up)
      /\ \A i \in 1..Len(plan.up) : U[i].phase = "up" /\ U[i].step = plan.up[i]
  BY <1>1, TaggedIsSeq
<1> HIDE DEF D, U
<1>4. /\ DOMAIN plan.down = 1..Len(plan.down) /\ DOMAIN plan.up = 1..Len(plan.up)
      /\ Len(plan.down) \in Nat /\ Len(plan.up) \in Nat
  BY <1>1, LenProperties
<1>5. CASE c = "down"
  <2>1. TodoOf(c) = D
    BY <1>5 DEF TodoOf, D
  <2> QED
    BY <2>1, <1>2, <1>4, <1>5
<1>6. CASE c = "up"
  <2>1. TodoOf(c) = U
    BY <1>6 DEF TodoOf, U
  <2> QED
    BY <2>1, <1>3, <1>4, <1>6
<1>7. CASE c = "reset"
  <2>1. TodoOf(c) = D \o U
    BY <1>7 DEF TodoOf, D, U
  <2>2. /\ D \o U \in Seq(Tasks) /\ Len(D \o U) = Len(D) + Len(U)
        /\ \A i \in 1..(Len(D) + Len(U)) :
             (D \o U)[i] = IF i <= Len(D) THEN D[i] ELSE U[i - Len(D)]
    <3>1. D \in Seq(Tasks) /\ U \in Seq(Tasks)
      BY <1>2, <1>3
    <3> QED
      BY <3>1, ConcatProperties, Zenon
  <2>3. ASSUME NEW i \in 1..Len(TodoOf(c))
        PROVE  /\ TodoOf(c)[i].phase = "down" => /\ c # "up" /\ i \in DOMAIN plan.down
                                                 /\ TodoOf(c)[i].step = plan.down[i]
               /\ TodoOf(c)[i].phase = "up" =>
                    /\ c # "down"
                    /\ \E j \in DOMAIN plan.up : TodoOf(c)[i].step = plan.up[j]
                    /\ c = "reset" => \A j \in DOMAIN plan.down : j < i
    <3>0. i \in 1..(Len(plan.down) + Len(plan.up))
      BY <2>1, <2>2, <1>2, <1>3
    <3>1. CASE i <= Len(plan.down)
      <4>1. i \in 1..Len(plan.down) /\ TodoOf(c)[i] = D[i]
        BY <3>0, <3>1, <2>1, <2>2, <1>2, <1>3, <1>4
      <4> QED
        BY <4>1, <1>2, <1>4, <1>7
    <3>2. CASE ~(i <= Len(plan.down))
      <4>0. i \in 1..(Len(D) + Len(U)) /\ ~(i <= Len(D))
        BY <3>0, <3>2, <1>2, <1>3, <1>4
      <4>1. TodoOf(c)[i] = U[i - Len(plan.down)]
        BY <4>0, <2>1, <2>2, <1>2
      <4>2. i - Len(plan.down) \in 1..Len(plan.up)
        BY <3>0, <3>2, <1>4, Behind
      <4>3. /\ TodoOf(c)[i].phase = "up"
            /\ TodoOf(c)[i].step = plan.up[i - Len(plan.down)]
            /\ i - Len(plan.down) \in DOMAIN plan.up
        BY <4>1, <4>2, <1>3, <1>4, Zenon
      <4>4. \A j \in DOMAIN plan.down : j < i
        BY <3>0, <3>2, <1>4
      <4> QED
        BY <4>3, <4>4, <1>7, Zenon
    <3> QED
      BY <3>0, <3>1, <3>2, <1>4
  <2>4. ASSUME NEW i \in DOMAIN plan.down
        PROVE  /\ i \in 1..Len(TodoOf(c)) /\ TodoOf(c)[i].phase = "down"
               /\ TodoOf(c)[i].step = plan.down[i]
    <3>1. i \in 1..Len(plan.down) /\ i \in 1..(Len(D) + Len(U)) /\ i <= Len(D)
      <4>1. i \in 1..Len(plan.down) /\ Len(D) = Len(plan.down) /\ Len(U) \in Nat
        BY <2>4, <1>2, <1>3, <1>4
      <4> QED
        BY <4>1, <1>4, Before
    <3>2. TodoOf(c)[i] = D[i]
      BY <3>1, <2>1, <2>2
    <3> QED
      BY <3>1, <3>2, <2>1, <2>2, <1>2
  <2> QED
    BY <2>1, <2>2, <2>3, <2>4
<1> QED
  BY <1>5, <1>6, <1>7

-----------------------------------------------------------------------------
(* Types.                                                                  *)

(* The requests kzero makes: of each kind its own verbs.                   *)
GoodRequest(r) ==
  /\ r \in Request /\ r.replicas \in 0..1
  /\ r.op = "update" <=> r.kind \in {"statefulset", "cronjob"}
  /\ r.op = "create" => r.kind = "job"

RequestsOK == GoodRequest(call) /\ \A r \in late : GoodRequest(r)

LiveObjects == [statefulset : StatefulSet, pvc : Claim \cup {Absent},
             cronjob : CronJob \cup {Absent}, job : Job \cup {Absent}]

ObjectsOK == live \in LiveObjects /\ made \in Nat

(* Scaling a statefulset leaves one.                                       *)
LEMMA ScaledType ==
  ASSUME NEW s \in StatefulSet, NEW n \in 0..1
  PROVE  Scaled(s, n) \in StatefulSet
<1>1. CASE s.replicas = n
  BY <1>1 DEF Scaled
<1>2. CASE s.replicas # n
  <2>1. Scaled(s, n) = [s EXCEPT !.replicas = n, !.observed = FALSE, !.edits = s.edits + 1]
    BY <1>2 DEF Scaled
  <2>2. s.edits + 1 \in Nat
    BY DEF StatefulSet
  <2> QED
    BY <2>1, <2>2 DEF StatefulSet
<1> QED
  BY <1>1, <1>2

(* A request leaves objects of their types, whatever it does.              *)
LEMMA ApplyKeepsTypes ==
  ASSUME ObjectsOK, NEW r, GoodRequest(r), Apply(r)
  PROVE  ObjectsOK'
<1> USE DEF ObjectsOK, LiveObjects
<1>1. CASE UNCHANGED <<live, made>>
  BY <1>1
<1>2. CASE Reply(r) = "none" /\ live' = [live EXCEPT ![r.kind] = After(r)]
           /\ made' = IF r.op = "create" THEN made + 1 ELSE made
  <2>1. r.kind \in Objects /\ made' \in Nat
    BY <1>2 DEF GoodRequest, Request
  <2>2. CASE r.kind = "job"
    <3>1. After(r) \in Job \cup {Absent}
      BY <2>2 DEF After, NewJob, Job
    <3> QED
      BY <3>1, <2>1, <2>2, <1>2
  <2>3. CASE r.kind = "statefulset"
    <3>1. After(r) = Scaled(live.statefulset, r.replicas)
      BY <2>3 DEF After, GoodRequest
    <3>2. Scaled(live.statefulset, r.replicas) \in StatefulSet
      BY ScaledType DEF GoodRequest
    <3> QED
      BY <3>1, <3>2, <2>1, <2>3, <1>2
  <2>4. CASE r.kind = "cronjob"
    <3>1. live.cronjob # Absent
      BY <1>2, <2>4 DEF Reply, GoodRequest
    <3>2. After(r) = Suspended(live.cronjob, r.suspend) /\ r.suspend \in BOOLEAN
      BY <2>4 DEF After, GoodRequest, Request
    <3>3. Suspended(live.cronjob, r.suspend) \in CronJob
      BY <3>1, <3>2 DEF Suspended, CronJob
    <3> QED
      BY <3>2, <3>3, <2>1, <2>4, <1>2
  <2>5. CASE r.kind = "pvc"
    <3>1. live.pvc # Absent
      BY <1>2, <2>5 DEF Reply, GoodRequest, Request
    <3>2. After(r) = [live.pvc EXCEPT !.terminating = TRUE]
      BY <2>5 DEF After, GoodRequest
    <3>3. [live.pvc EXCEPT !.terminating = TRUE] \in Claim
      BY <3>1 DEF Claim
    <3> QED
      BY <3>2, <3>3, <2>1, <2>5, <1>2
  <2> QED
    BY <2>1, <2>2, <2>3, <2>4, <2>5 DEF Objects
<1> QED
  BY <1>1, <1>2 DEF Apply

(* So do the controllers.                                                  *)
LEMMA ControllersKeepTypes ==
  ASSUME ObjectsOK, Controller \/ JobFails
  PROVE  ObjectsOK'
<1> USE DEF ObjectsOK, LiveObjects
<1>1. CASE Observed \/ PodStops \/ PodIsGone \/ PodIsReady
  <2>1. \E b \in BOOLEAN, p \in PodStates :
          live' = [live EXCEPT !.statefulset = [live.statefulset EXCEPT !.observed = b, !.pod = p]]
    <3>1. CASE Observed
      <4>1. live' = [live EXCEPT !.statefulset =
                       [live.statefulset EXCEPT !.observed = TRUE, !.pod = live.statefulset.pod]]
        BY <3>1 DEF Observed, StatefulSet
      <4>2. live.statefulset.pod \in PodStates
        BY DEF StatefulSet
      <4> QED
        BY <4>1, <4>2
    <3>2. ASSUME NEW p \in PodStates, SetPod(p)
          PROVE  live' = [live EXCEPT !.statefulset =
                            [live.statefulset EXCEPT !.observed = live.statefulset.observed, !.pod = p]]
      BY <3>2 DEF SetPod, StatefulSet
    <3>3. \E p \in PodStates : Observed \/ SetPod(p)
      BY <1>1 DEF PodStops, PodIsGone, PodIsReady, PodStates
    <3>4. live.statefulset.observed \in BOOLEAN
      BY DEF StatefulSet
    <3> QED
      BY <3>1, <3>2, <3>3, <3>4
  <2>2. UNCHANGED made
    BY <1>1 DEF Observed, PodStops, PodIsGone, PodIsReady, SetPod
  <2>3. PICK b \in BOOLEAN, p \in PodStates :
          live' = [live EXCEPT !.statefulset = [live.statefulset EXCEPT !.observed = b, !.pod = p]]
    BY <2>1
  <2>4. [live.statefulset EXCEPT !.observed = b, !.pod = p] \in StatefulSet
    BY DEF StatefulSet
  <2> QED
    BY <2>2, <2>3, <2>4
<1>2. CASE ClaimIsMade
  <2>1. [uid |-> made + 1, terminating |-> FALSE] \in Claim /\ made + 1 \in Nat
    BY DEF Claim
  <2> QED
    BY <2>1, <1>2 DEF ClaimIsMade
<1>3. CASE PodStarts
  <2>1. live.pvc.uid \in Nat
    BY <1>3 DEF PodStarts, Claim
  <2>2. live' = [live EXCEPT !.statefulset =
                   [live.statefulset EXCEPT !.pod = "starting", !.claim = live.pvc.uid]]
    BY <1>3 DEF PodStarts
  <2>3. [live.statefulset EXCEPT !.pod = "starting", !.claim = live.pvc.uid] \in StatefulSet
    BY <2>1 DEF StatefulSet, PodStates
  <2> QED
    BY <2>2, <2>3, <1>3 DEF PodStarts
<1>4. CASE ClaimIsGone
  BY <1>4 DEF ClaimIsGone
<1>5. ASSUME NEW state \in {"complete", "failed"}, JobEnds(state)
      PROVE  ObjectsOK'
  <2>1. live' = [live EXCEPT !.job = [live.job EXCEPT !.state = state]] /\ UNCHANGED made
    BY <1>5 DEF JobEnds
  <2>2. [live.job EXCEPT !.state = state] \in Job
    BY <1>5 DEF JobEnds, Job
  <2> QED
    BY <2>1, <2>2
<1> QED
  BY <1>1, <1>2, <1>3, <1>4, <1>5 DEF Controller, JobFails

(* So do the other operators.                                              *)
LEMMA OthersKeepTypes ==
  ASSUME ObjectsOK, NEW kinds, OthersAct(kinds)
  PROVE  ObjectsOK'
<1> USE DEF ObjectsOK, LiveObjects
<1>1. ASSUME NEW kind \in Objects, NEW o, OtherChange(kind, o)
      PROVE  live' = [live EXCEPT ![kind] = o] /\ made' \in Nat
  BY <1>1 DEF OtherChange
<1>2. ASSUME NEW n \in 0..1, OtherChange("statefulset", Scaled(live.statefulset, n))
      PROVE  ObjectsOK'
  <2>1. Scaled(live.statefulset, n) \in StatefulSet
    BY ScaledType
  <2> QED
    BY <2>1, <1>1, <1>2 DEF Objects
<1>3. ASSUME live.pvc # Absent, OtherChange("pvc", [live.pvc EXCEPT !.terminating = TRUE])
      PROVE  ObjectsOK'
  <2>1. [live.pvc EXCEPT !.terminating = TRUE] \in Claim
    BY <1>3 DEF Claim
  <2> QED
    BY <2>1, <1>1, <1>3 DEF Objects
<1>4. ASSUME live.cronjob # Absent, NEW o \in CronJob \cup {Absent}, OtherChange("cronjob", o)
      PROVE  ObjectsOK'
  BY <1>1, <1>4 DEF Objects
<1>5. ASSUME NEW o \in Job \cup {Absent}, OtherChange("job", o)
      PROVE  ObjectsOK'
  BY <1>1, <1>5 DEF Objects
<1>6. \A b \in BOOLEAN : live.cronjob # Absent => Suspended(live.cronjob, b) \in CronJob
  BY DEF Suspended, CronJob
<1>7. NewJob \in Job
  BY DEF NewJob, Job
<1> QED
  BY <1>2, <1>3, <1>4, <1>5, <1>6, <1>7 DEF OthersAct

(* Where the process is.                                                   *)
PlaceOK ==
  /\ plan \in Plans /\ cmd \in {"down", "up", "reset"} /\ mode \in Modes
  /\ pc \in {"idle", "begin", "sent", "wait", "post", "helm"}
  /\ at \in Nat \ {0} /\ try \in 1..Attempts
  /\ ended \in {"no", "ok", "failed", "killed"}
  /\ pc # "idle" => at \in 1..Len(Todo)

RunsOK == runs \in 0..MaxRuns /\ (runs > 0 => <<cmd, mode>> \in Commands)

(* A process is in a step of its own pipelines, and in the up phase of a   *)
(* reset all down steps are behind it.                                     *)
LEMMA AtStep ==
  ASSUME PlaceOK, pc # "idle"
  PROVE  /\ Phase \in {"down", "up"} /\ Step \in StepsOf(plan)
         /\ Step.kind \in Objects \cup {"release", "exec"}
         /\ Step.replicas \in {0, 1, Unset}
         /\ Phase = "down" => /\ cmd # "up"
                              /\ at \in DOMAIN plan.down /\ Step = plan.down[at]
         /\ Phase = "up" => /\ cmd # "down"
                            /\ \E j \in DOMAIN plan.up : Step = plan.up[j]
                            /\ cmd = "reset" => \A j \in DOMAIN plan.down : j < at
<1>1. /\ Todo \in Seq(Tasks)
      /\ at \in 1..Len(Todo)
      /\ plan \in Plans
  BY TodoIsSeq DEF PlaceOK, Todo
<1>2. Todo[at] \in Tasks
  BY <1>1, ElementOfSeq, Zenon
<1>3. Phase \in {"down", "up"} /\ Step \in StepsOf(plan)
  BY <1>2 DEF Tasks, Phase, Step
<1>4. Step.kind \in Objects \cup {"release", "exec"} /\ Step.replicas \in {0, 1, Unset}
  BY <1>1, <1>3, PlansAssumption
<1>5. cmd \in {"down", "up", "reset"}
  BY DEF PlaceOK
<1>6. /\ Todo[at].phase = "down" => /\ cmd # "up" /\ at \in DOMAIN plan.down
                                    /\ Todo[at].step = plan.down[at]
      /\ Todo[at].phase = "up" =>
           /\ cmd # "down"
           /\ \E j \in DOMAIN plan.up : Todo[at].step = plan.up[j]
           /\ cmd = "reset" => \A j \in DOMAIN plan.down : j < at
  BY <1>1, <1>5, TodoIsSeq DEF Todo
<1> QED
  BY <1>3, <1>4, <1>6 DEF Phase, Step

(* What becomes of a step that has been answered: it goes on, or fails.    *)
Moves == StepDone \/ AfterMain \/ AfterCall \/ \E e : StepFails(e)

(* The end of a call, a script or a step leads to a place there is.        *)
LEMMA MovesKeepPlace ==
  ASSUME PlaceOK, pc # "idle", UNCHANGED <<plan, cmd, mode, runs>>, Moves
  PROVE  /\ PlaceOK'
         /\ pc' \in {"idle", "begin", "wait", "post"}
         /\ pc' \in {"wait", "post"} => at' = at
<1>1. Todo' = Todo /\ Len(Todo) \in Nat /\ at \in 1..Len(Todo)
  <2>1. Todo' = Todo
    BY DEF Todo, TodoOf, Tagged
  <2>2. Todo \in Seq(Tasks)
    BY TodoIsSeq DEF PlaceOK, Todo
  <2> QED
    BY <2>1, <2>2 DEF PlaceOK
<1>2. CASE StepDone
  <2>1. CASE at < Len(Todo)
    <3>1. at' = at + 1 /\ pc' = "begin" /\ UNCHANGED ended /\ try' = 1
      BY <1>2, <2>1 DEF StepDone
    <3> QED
      BY <3>1, <2>1, <1>1, StepsAssumption DEF PlaceOK
  <2>2. CASE ~(at < Len(Todo))
    <3>1. pc' = "idle" /\ ended' = "ok" /\ UNCHANGED at /\ try' = 1
      BY <1>2, <2>2 DEF StepDone
    <3> QED
      BY <3>1, StepsAssumption DEF PlaceOK
  <2> QED
    BY <2>1, <2>2
<1>3. ASSUME pc' \in {"wait", "post"}, UNCHANGED <<at, try, ended>>
      PROVE  PlaceOK'
  BY <1>1, <1>3 DEF PlaceOK
<1>4. ASSUME NEW e, StepFails(e)
      PROVE  PlaceOK' /\ pc' \in {"idle", "begin"}
  <2>1. CASE pc' = "begin" /\ try < Attempts /\ try' = try + 1 /\ UNCHANGED <<ended, at>>
    BY <2>1, <1>1, StepsAssumption DEF PlaceOK
  <2>2. CASE pc' = "idle" /\ ended' = "failed" /\ UNCHANGED <<try, at>>
    BY <2>2 DEF PlaceOK
  <2> QED
    BY <2>1, <2>2, <1>4 DEF StepFails
<1>5. StepDone => pc' \in {"idle", "begin"}
  BY DEF StepDone
<1> QED
  BY <1>2, <1>3, <1>4, <1>5 DEF Moves, AfterMain, AfterCall

(* A step that only moves.                                                 *)
Quiet ==
  \/ Announce \/ IsMissing \/ RolloutIsReady \/ JobIsComplete \/ JobHasFailed
  \/ PostEnds \/ PostGivesUp \/ Exec

(* One that also fails a call of some kind.                                *)
Gives ==
  \/ Answered \/ CallFails \/ NoAnswer
  \/ \E r \in {"Forbidden", "TooManyRequests", "Conflict"} : Refused(r)

(* A quiet step changes nothing but the place of the process.              *)
LEMMA QuietMoves ==
  ASSUME Quiet
  PROVE  /\ pc \in {"begin", "wait", "post"} /\ Moves
         /\ UNCHANGED <<plan, cmd, mode, runs, call, created, calm, cluster, helm>>
BY DEF Quiet, Announce, IsMissing, RolloutIsReady, JobIsComplete, JobHasFailed, PostEnds,
       PostGivesUp, Exec, Moves, Same, ToServer

(* The end of a call may change objects, but neither plan nor release.     *)
LEMMA GivesMoves ==
  ASSUME Gives
  PROVE  /\ pc \in {"begin", "sent", "wait", "post"} /\ Moves
         /\ UNCHANGED <<plan, cmd, mode, runs, calm, others, helm>>
BY DEF Gives, Answered, CallFails, NoAnswer, Refused, Moves, Same, ToServer

(* Any step is one of these.                                               *)
LEMMA Cases ==
  ASSUME [Next]_vars
  PROVE  \/ \E c \in Commands : Start(c)
         \/ Quiet \/ Gives \/ Send \/ Kill
         \/ HelmBegins \/ HelmGoesOn \/ HelmBreaks \/ HelmReturns
         \/ LateRequest \/ LostRequest \/ ControllerActs \/ JobBreaks \/ Interference
         \/ UNCHANGED vars
BY DEF Next, StepAction, Failure, Quiet, Gives, Finished

(* One pod at most: no replica count is changed by the conversion.         *)
LEMMA ReplicasFit ==
  ASSUME NEW s, s.replicas \in {0, 1, Unset}, NEW phase
  PROVE  /\ DesiredReplicas(phase, s) \in 0..1
         /\ AppliedReplicas(phase, s) = DesiredReplicas(phase, s)
<1>1. DesiredReplicas(phase, s) \in 0..1
  BY ReplicaAssumption DEF DesiredReplicas, Or1
<1>2. ASSUME NEW n \in 0..1
      PROVE  Int32(n) = n
  BY ReplicaAssumption DEF Int32
<1> QED
  BY <1>1, <1>2 DEF AppliedReplicas

(* A request is of the step that sends it.                                 *)
LEMMA RequestOfStep ==
  ASSUME PlaceOK, ObjectsOK, ToServer, Reads => live[Step.kind] # Absent
  PROVE  /\ GoodRequest(RequestOf)
         /\ RequestOf.kind = Step.kind /\ RequestOf.op = Verb
         /\ Step.kind = "statefulset" => RequestOf.replicas = AppliedReplicas(Phase, Step)
         /\ RequestOf.suspend = (Phase = "down")
         /\ RequestOf.dry = (mode # "live")
<1>1. /\ Step.kind \in Objects /\ Step.replicas \in {0, 1, Unset} /\ Phase \in {"down", "up"}
  BY AtStep DEF ToServer
<1>2. AppliedReplicas(Phase, Step) \in 0..1
  BY <1>1, ReplicasFit
<1>3. /\ Verb \in {"update", "delete", "create"}
      /\ Verb = "update" <=> Step.kind \in {"statefulset", "cronjob"}
      /\ Verb = "create" => Step.kind = "job"
  BY <1>1 DEF Verb, Objects
<1>4. Verb = "update" => live[Step.kind].edits \in Nat
  <2>1. CASE Step.kind = "statefulset"
    BY <2>1 DEF ObjectsOK, LiveObjects, StatefulSet
  <2>2. CASE Step.kind = "cronjob"
    <3>1. live[Step.kind] \in CronJob
      BY <2>2 DEF ObjectsOK, LiveObjects, Reads
    <3> QED
      BY <3>1 DEF CronJob
  <2> QED
    BY <2>1, <2>2, <1>3
<1>5. RequestOf \in Request /\ RequestOf.replicas \in 0..1
  BY <1>1, <1>2, <1>3, <1>4 DEF RequestOf, Request, DryRunAll
<1> QED
  BY <1>3, <1>5 DEF RequestOf, GoodRequest, DryRunAll

(* What Helm can fail with are errors.                                     *)
LEMMA HelmErrors ==
  /\ Plain({}) \in Error /\ Plain({"denied"}) \in Error /\ Status("AlreadyExists") \in Error
  /\ NoConnection \in Error /\ Deadline \in Error
BY DEF Plain, Status, NoConnection, Deadline, Error, Sentinel, Reason, Phrase

(* An operation of Helm runs exactly while a release step waits for it.    *)
ReleaseOK == HelmTypeOK /\ ((pc = "helm") = (op # "idle"))

(* Helm keeps its types and does not stop by itself.                       *)
LEMMA HelmSteps ==
  ASSUME HelmTypeOK,
         \/ \E s : BeginUp(s) \/ HelmWorks(s)
         \/ BeginDown \/ HelmFails
  PROVE  HelmTypeOK' /\ op' # "idle"
<1> USE HelmErrors DEF HelmTypeOK, Ops, Statuses, Pending
<1>1. ASSUME NEW s, BeginUp(s)
      PROVE  HelmTypeOK' /\ op' # "idle"
  BY <1>1 DEF BeginUp, Fetch, OpFails, Return
<1>2. CASE BeginDown
  BY <1>2 DEF BeginDown, Return
<1>3. ASSUME NEW s, GetNamespace(s) \/ CreateNamespace(s)
      PROVE  HelmTypeOK' /\ op' # "idle"
  BY <1>3 DEF GetNamespace, CreateNamespace, Fetch, OpFails, Return
<1>4. ASSUME NEW s, Login \/ Locate(s)
      PROVE  HelmTypeOK' /\ op' # "idle"
  BY <1>4 DEF Login, Locate, OpFails, Return
<1>5. CASE History
  BY <1>5 DEF History, OpFails, Return
<1>6. CASE Finish \/ Purge
  BY <1>6 DEF Finish, Purge, OpFails, Return
<1>7. CASE HelmFails
  BY <1>7 DEF HelmFails, Break, PurgeFails, CallBreaks, OpFails, Return
<1> QED
  BY <1>1, <1>2, <1>3, <1>4, <1>5, <1>6, <1>7 DEF HelmWorks

-----------------------------------------------------------------------------

TypeInv ==
  /\ ObjectsOK /\ RequestsOK /\ PlaceOK /\ RunsOK /\ ReleaseOK
  /\ faults \in 0..MaxFaults /\ others \in 0..MaxOthers
  /\ touched \subseteq Objects \cup {"release"}
  /\ created \in Nat /\ calm \in BOOLEAN

(* Types are right at the start,                                           *)
LEMMA TypeInit == Init => TypeInv
<1> SUFFICES ASSUME Init
             PROVE  TypeInv
  OBVIOUS
<1>1. ObjectsOK
  BY DEF Init, ObjectsOK, LiveObjects, StatefulSet, Claim, CronJob, Job, PodStates
<1>2. RequestsOK
  BY DEF Init, RequestsOK, GoodRequest, NoCall, Request, Objects
<1>3. PlaceOK /\ RunsOK
  BY StepsAssumption DEF Init, PlaceOK, RunsOK, Modes
<1>4. ReleaseOK
  BY DEF Init, ReleaseOK, HelmTypeOK, Statuses, Ops
<1> QED
  BY <1>1, <1>2, <1>3, <1>4, BudgetAssumption DEF Init, TypeInv

(* The call of a process that makes none is a request as well.             *)
LEMMA NoCallIsGood == GoodRequest(NoCall)
BY DEF GoodRequest, NoCall, Request, Objects

(* and stay so with every step.                                            *)
LEMMA TypeStep == TypeInv /\ [Next]_vars => TypeInv'
<1> SUFFICES ASSUME TypeInv, [Next]_vars
             PROVE  TypeInv'
  OBVIOUS
<1> USE DEF TypeInv
<1>0. ASSUME UNCHANGED <<plan, process>>
      PROVE  PlaceOK' /\ RunsOK'
  BY <1>0 DEF PlaceOK, RunsOK, process, Todo, TodoOf, Tagged
<1>1. ASSUME UNCHANGED <<helm, pc>>
      PROVE  ReleaseOK'
  BY <1>1 DEF ReleaseOK, HelmTypeOK, helm
<1>2. ASSUME UNCHANGED cluster
      PROVE  /\ ObjectsOK' /\ UNCHANGED late
             /\ faults' \in 0..MaxFaults /\ others' \in 0..MaxOthers
             /\ touched' \subseteq Objects \cup {"release"}
  BY <1>2 DEF cluster, ObjectsOK
<1>3. ASSUME NEW c \in Commands, Start(c)
      PROVE  TypeInv'
  <2>1. c \in {"down", "up", "reset"} \X Modes /\ c = <<c[1], c[2]>>
    BY StepsAssumption
  <2>2. /\ UNCHANGED <<plan, call, cluster, helm>> /\ at' = 1 /\ try' = 1
        /\ cmd' = c[1] /\ mode' = c[2] /\ runs' = runs + 1 /\ runs < MaxRuns
        /\ \/ pc' = "idle" /\ ended' = "ok"
           \/ pc' = "begin" /\ ended' = "no" /\ TodoOf(c[1]) # <<>>
        /\ created' = 0 /\ calm' = (late = {}) /\ pc = "idle"
    BY <1>3 DEF Start
  <2>3. pc' # "idle" => at' \in 1..Len(Todo')
    <3>1. Todo' = TodoOf(c[1])
      BY <2>2 DEF Todo, TodoOf, Tagged
    <3>2. TodoOf(c[1]) \in Seq(Tasks)
      BY <2>1, TodoIsSeq DEF PlaceOK
    <3> QED
      BY <2>2, <3>1, <3>2, EmptySeq
  <2>4. PlaceOK' /\ RunsOK'
    BY <2>1, <2>2, <2>3, StepsAssumption DEF PlaceOK, RunsOK
  <2>5. ReleaseOK'
    BY <2>2 DEF ReleaseOK, HelmTypeOK, helm
  <2> QED
    BY <2>2, <2>4, <2>5, <1>2 DEF RequestsOK
<1>4. CASE Quiet
  <2>1. PlaceOK' /\ pc' # "helm"
    BY <1>4, QuietMoves, MovesKeepPlace
  <2>2. RunsOK' /\ ReleaseOK'
    BY <1>4, <2>1, QuietMoves DEF RunsOK, ReleaseOK, HelmTypeOK, helm
  <2> QED
    BY <1>4, <2>1, <2>2, <1>2, QuietMoves DEF RequestsOK
<1>5. CASE Gives
  <2>1. PlaceOK' /\ pc' # "helm" /\ UNCHANGED <<calm, others, runs, cmd, mode>>
    BY <1>5, GivesMoves, MovesKeepPlace
  <2>2. RunsOK' /\ ReleaseOK'
    BY <1>5, <2>1, GivesMoves DEF RunsOK, ReleaseOK, HelmTypeOK, helm
  <2>3. GoodRequest(call)
    BY DEF RequestsOK
  <2>4. /\ ObjectsOK' /\ RequestsOK' /\ created' \in Nat
        /\ faults' \in 0..MaxFaults /\ touched' \subseteq Objects \cup {"release"}
    <3>1. CASE Answered
      <4>1. ObjectsOK'
        BY <3>1, <2>3, ApplyKeepsTypes DEF Answered
      <4> QED
        BY <3>1, <4>1, NoCallIsGood DEF Answered, Creates, RequestsOK
    <3>2. CASE CallFails
      BY <3>2, BudgetAssumption DEF CallFails, Fault, RequestsOK, ObjectsOK
    <3>3. ASSUME NEW r, Refused(r)
          PROVE  /\ ObjectsOK' /\ RequestsOK' /\ created' \in Nat
                 /\ faults' \in 0..MaxFaults /\ touched' \subseteq Objects \cup {"release"}
      BY <3>3, NoCallIsGood, BudgetAssumption DEF Refused, Fault, RequestsOK, ObjectsOK
    <3>4. CASE NoAnswer
      <4>1. ObjectsOK'
        BY <3>4, <2>3, ApplyKeepsTypes DEF NoAnswer, ObjectsOK
      <4> QED
        BY <3>4, <4>1, <2>3, NoCallIsGood, BudgetAssumption
           DEF NoAnswer, Fault, Creates, RequestsOK, Apply
    <3> QED
      BY <1>5, <3>1, <3>2, <3>3, <3>4 DEF Gives
  <2> QED
    BY <2>1, <2>2, <2>4
<1>6. CASE Send
  <2>1. ToServer /\ (Reads => live[Step.kind] # Absent) /\ call' = RequestOf /\ pc' = "sent"
        /\ UNCHANGED <<plan, cmd, mode, runs, at, try, ended, created, calm, cluster, helm>>
    BY <1>6 DEF Send, Same
  <2>2. GoodRequest(call')
    BY <2>1, RequestOfStep
  <2>3. PlaceOK' /\ RunsOK'
    BY <2>1 DEF PlaceOK, RunsOK, Todo, TodoOf, Tagged, ToServer
  <2>4. ReleaseOK'
    BY <2>1 DEF ReleaseOK, HelmTypeOK, helm, ToServer
  <2> QED
    BY <2>1, <2>2, <2>3, <2>4, <1>2 DEF RequestsOK
<1>7. CASE Kill
  <2>1. /\ pc # "idle" /\ pc' = "idle" /\ ended' = "killed" /\ call' = NoCall /\ Forget /\ Fault
        /\ late' \subseteq late \cup {call}
        /\ UNCHANGED <<plan, cmd, mode, runs, at, try, live, made, others, touched, created, calm>>
    BY <1>7 DEF Kill, Same, history
  <2>2. PlaceOK' /\ RunsOK' /\ ObjectsOK'
    BY <2>1 DEF PlaceOK, RunsOK, ObjectsOK
  <2>3. HelmTypeOK' /\ op' = "idle"
    BY <2>1 DEF ReleaseOK, HelmTypeOK, Forget, Ops
  <2>4. ReleaseOK'
    BY <2>1, <2>3 DEF ReleaseOK
  <2>5. faults' \in 0..MaxFaults
    BY <2>1, BudgetAssumption DEF Fault
  <2> QED
    BY <2>1, <2>2, <2>4, <2>5, NoCallIsGood DEF RequestsOK
<1>8. CASE HelmBegins \/ HelmGoesOn \/ HelmBreaks
  <2>1. /\ pc' = "helm" /\ pc # "idle" /\ HelmTypeOK' /\ op' # "idle"
        /\ UNCHANGED <<plan, cmd, mode, runs, at, try, ended>>
    <3>1. CASE HelmBegins
      <4>1. BeginUp(Step) \/ BeginDown
        BY <3>1 DEF HelmBegins
      <4> QED
        BY <3>1, <4>1, HelmSteps DEF HelmBegins, ReleaseOK, Same, HelmFrame
    <3>2. CASE HelmGoesOn
      BY <3>2, HelmSteps DEF HelmGoesOn, ReleaseOK, Same, HelmFrame
    <3>3. CASE HelmBreaks
      BY <3>3, HelmSteps DEF HelmBreaks, ReleaseOK, Same, HelmFrame
    <3> QED
      BY <1>8, <3>1, <3>2, <3>3
  <2>2. /\ UNCHANGED <<call, created, calm, live, made, late, others>>
        /\ faults' \in 0..MaxFaults /\ touched' \subseteq touched
    BY <1>8, BudgetAssumption DEF HelmBegins, HelmGoesOn, HelmBreaks, HelmFrame, Fault
  <2>3. PlaceOK' /\ RunsOK' /\ ReleaseOK'
    BY <2>1 DEF PlaceOK, RunsOK, ReleaseOK, Todo, TodoOf, Tagged
  <2> QED
    BY <2>2, <2>3 DEF RequestsOK, ObjectsOK
<1>9. CASE HelmReturns
  <2>1. pc = "helm" /\ Moves /\ UNCHANGED <<plan, cmd, mode, runs, call, created, calm, live, made,
                                            late, others, faults, touched>>
    BY <1>9 DEF HelmReturns, HelmFrame, Same, Moves
  <2>2. PlaceOK' /\ pc' # "helm"
    BY <2>1, MovesKeepPlace
  <2>3. ReleaseOK'
    BY <2>2, <1>9 DEF HelmReturns, Forget, Collect, ReleaseOK, HelmTypeOK, Ops
  <2> QED
    BY <2>1, <2>2, <2>3 DEF RunsOK, RequestsOK, ObjectsOK
<1>10. CASE LateRequest \/ LostRequest
  <2>1. /\ UNCHANGED <<plan, process, helm, faults, others>>
        /\ late' \subseteq late
    BY <1>10 DEF LateRequest, LostRequest, Outside, Arrive, Vanish
  <2>2. /\ ObjectsOK' /\ created' \in Nat /\ calm' \in BOOLEAN
        /\ touched' \subseteq Objects \cup {"release"}
    <3>1. ASSUME NEW r \in late, Arrive(r), created' = Creates(r)
          PROVE  ObjectsOK' /\ created' \in Nat /\ touched' \subseteq Objects \cup {"release"}
      <4>1. GoodRequest(r)
        BY DEF RequestsOK
      <4>2. ObjectsOK'
        BY <3>1, <4>1, ApplyKeepsTypes DEF Arrive
      <4> QED
        BY <3>1, <4>1, <4>2 DEF Arrive, Creates, GoodRequest, Request
    <3>2. CASE LateRequest
      BY <3>1, <3>2 DEF LateRequest
    <3>3. CASE LostRequest
      BY <3>3 DEF LostRequest, Vanish, ObjectsOK
    <3> QED
      BY <1>10, <3>2, <3>3
  <2>3. UNCHANGED <<pc, call>>
    BY <2>1 DEF process
  <2> QED
    BY <2>1, <2>2, <2>3, <1>0, <1>1 DEF RequestsOK
<1>11. CASE ControllerActs \/ JobBreaks
  <2>1. /\ UNCHANGED <<plan, process, helm, late, others, created, calm>>
        /\ Controller \/ JobFails
    BY <1>11 DEF ControllerActs, JobBreaks, Outside, Controller, JobFails
  <2>4. faults' \in 0..MaxFaults
    BY <2>1, BudgetAssumption DEF Controller, JobFails, Fault
  <2>5. touched' \subseteq Objects \cup {"release"}
    BY <2>1 DEF Controller, JobFails, Objects
  <2>2. ObjectsOK'
    BY <2>1, ControllersKeepTypes
  <2>3. UNCHANGED <<pc, call>>
    BY <2>1 DEF process
  <2> QED
    BY <2>1, <2>2, <2>3, <2>4, <2>5, <1>0, <1>1 DEF RequestsOK
<1>12. CASE Interference
  <2>1. UNCHANGED <<plan, process, late, faults, created, pc, call>> /\ calm' = FALSE
    BY <1>12 DEF Interference, Outside, OthersAct, OtherChange, process
  <2>2. CASE OthersAct(KindsOf(plan)) /\ UNCHANGED helm
    <3>1. ObjectsOK'
      BY <2>2, OthersKeepTypes
    <3>2. others' \in 0..MaxOthers /\ touched' \subseteq Objects \cup {"release"}
      BY <2>2, BudgetAssumption DEF OthersAct, OtherChange, Objects
    <3> QED
      BY <3>1, <3>2, <2>1, <2>2, <1>0, <1>1 DEF RequestsOK
  <2>3. CASE /\ OtherOnRelease
             /\ others < MaxOthers /\ others' = others + 1
             /\ touched' = touched \cup {"release"}
             /\ UNCHANGED <<live, made, late, faults>>
    <3>1. ReleaseOK'
      BY <2>1, <2>3 DEF OtherOnRelease, ReleaseOK, HelmTypeOK, Statuses
    <3>2. others' \in 0..MaxOthers /\ touched' \subseteq Objects \cup {"release"}
      BY <2>3, BudgetAssumption
    <3>3. ObjectsOK' /\ RequestsOK'
      BY <2>1, <2>3 DEF ObjectsOK, RequestsOK
    <3> QED
      BY <3>1, <3>2, <3>3, <2>1, <2>3, <1>0
  <2> QED
    BY <1>12, <2>2, <2>3 DEF Interference
<1>13. CASE UNCHANGED vars
  <2>1. UNCHANGED <<plan, process, cluster, helm, created, calm, pc, call>>
    BY <1>13 DEF vars, history, process
  <2> QED
    BY <2>1, <1>0, <1>1, <1>2 DEF RequestsOK
<1> QED
  BY <1>3, <1>4, <1>5, <1>6, <1>7, <1>8, <1>9, <1>10, <1>11, <1>12, <1>13, Cases

(* Every reachable state is of the right types.                            *)
LEMMA TypesHold == Spec => []TypeInv
BY TypeInit, TypeStep, PTL DEF Spec

(* Every variable keeps its type.                                          *)
THEOREM TypeCorrect == Spec => []TypeOK
<1>1. TypeInv => TypeOK
  BY DEF TypeInv, TypeOK, ObjectsOK, LiveObjects, ClusterTypeOK, RequestsOK, GoodRequest, PlaceOK,
         RunsOK, ReleaseOK
<1> QED
  BY <1>1, TypesHold, PTL

-----------------------------------------------------------------------------
(* What the process is about at each place.                                *)

SentInv ==
  /\ pc = "sent" => /\ call.kind = Step.kind /\ call.op = Verb
                    /\ Step.kind = "statefulset" => call.replicas = AppliedReplicas(Phase, Step)
                    /\ call.suspend = (Phase = "down")
                    /\ call.dry = (mode # "live")
  /\ pc \in {"wait", "post", "helm"} => Live
  /\ pc = "wait" => Waits
  /\ pc = "helm" => Step.kind = "release"

(* The steps of others.                                                    *)
Environment == LateRequest \/ LostRequest \/ ControllerActs \/ JobBreaks \/ Interference

(* Others do not move the process.                                         *)
LEMMA EnvironmentLeaves ==
  ASSUME Environment
  PROVE  UNCHANGED <<plan, cmd, mode, pc, at, try, call, ended, runs, promised, began>>
BY DEF Environment, LateRequest, LostRequest, ControllerActs, JobBreaks, Interference, Outside,
       process

(* What a process is about depends on its plan and its place alone.        *)
LEMMA SamePlace ==
  ASSUME UNCHANGED <<plan, cmd, mode, at>>
  PROVE  /\ Todo' = Todo /\ Phase' = Phase /\ Step' = Step /\ Live' = Live
         /\ Waits' = Waits /\ Verb' = Verb
BY DEF Todo, TodoOf, Tagged, Phase, Step, Live, Waits, Verb

(* Only a live process gets to a post script, and only a step that waits   *)
(* gets to waiting.                                                        *)
LEMMA MovePlaces ==
  ASSUME Moves
  PROVE  /\ pc' = "post" => Live /\ Step.post /\ UNCHANGED at
         /\ pc' = "wait" => Waits /\ UNCHANGED at
BY DEF Moves, StepDone, AfterMain, AfterCall, StepFails

(* Only an answer makes a step wait.                                       *)
LEMMA OnlyAnswersWait ==
  ASSUME Quiet \/ HelmReturns \/ (Gives /\ ~(Answered /\ Granted(Reply(call))))
  PROVE  pc' # "wait"
BY DEF Quiet, Announce, IsMissing, RolloutIsReady, JobIsComplete, JobHasFailed, PostEnds,
       PostGivesUp, Exec, HelmReturns, Gives, Answered, CallFails, NoAnswer, Refused,
       StepDone, AfterMain, StepFails

(* Helm works for live processes only.                                     *)
LEMMA HelmIsLive ==
  ASSUME PlaceOK, HelmBegins
  PROVE  Live
BY DEF HelmBegins, Announced, Live, PlaceOK, Modes

(* SentInv holds at the start                                              *)
LEMMA SentInit == Init => SentInv
BY DEF Init, SentInv

(* and is kept by every step.                                              *)
LEMMA SentStep == TypeInv /\ SentInv /\ [Next]_vars => SentInv'
<1> SUFFICES ASSUME TypeInv, SentInv, [Next]_vars
             PROVE  SentInv'
  OBVIOUS
<1>1. ASSUME NEW c \in Commands, Start(c)
      PROVE  SentInv'
  BY <1>1 DEF Start, SentInv
<1>2. CASE Quiet \/ Gives \/ HelmReturns
  <2>1. Moves /\ pc # "idle" /\ UNCHANGED <<plan, cmd, mode, runs>>
    BY <1>2, QuietMoves, GivesMoves DEF HelmReturns, HelmFrame, Same, Moves
  <2>2. pc' \in {"idle", "begin", "wait", "post"}
    BY <2>1, MovesKeepPlace DEF TypeInv
  <2>3. ASSUME pc' \in {"wait", "post"}
        PROVE  Live' /\ (pc' = "wait" => Waits')
    <3>1. (pc' = "post" => Live) /\ (pc' = "wait" => Waits) /\ UNCHANGED at
      BY <2>1, <2>3, MovePlaces
    <3>2. Live' = Live /\ Waits' = Waits
      BY <2>1, <3>1, SamePlace
    <3> QED
      BY <2>3, <3>1, <3>2 DEF Waits
  <2> QED
    BY <2>2, <2>3 DEF SentInv
<1>3. CASE Send
  <2>1. ToServer /\ (Reads => live[Step.kind] # Absent) /\ call' = RequestOf /\ pc' = "sent"
        /\ UNCHANGED <<plan, cmd, mode, at>>
    BY <1>3 DEF Send, Same
  <2>2. /\ RequestOf.kind = Step.kind /\ RequestOf.op = Verb
        /\ Step.kind = "statefulset" => RequestOf.replicas = AppliedReplicas(Phase, Step)
        /\ RequestOf.suspend = (Phase = "down")
        /\ RequestOf.dry = (mode # "live")
    BY <2>1, RequestOfStep DEF TypeInv
  <2>3. Phase' = Phase /\ Step' = Step /\ Verb' = Verb
    BY <2>1, SamePlace
  <2> QED
    BY <2>1, <2>2, <2>3 DEF SentInv, AppliedReplicas, DesiredReplicas
<1>4. CASE Kill
  BY <1>4 DEF Kill, SentInv
<1>5. CASE HelmBegins \/ HelmGoesOn \/ HelmBreaks
  <2>1. pc' = "helm" /\ UNCHANGED <<plan, cmd, mode, at>>
    BY <1>5 DEF HelmBegins, HelmGoesOn, HelmBreaks, HelmFrame, Same
  <2>2. Live /\ Step.kind = "release"
    BY <1>5, HelmIsLive DEF TypeInv, HelmBegins, HelmGoesOn, HelmBreaks, SentInv
  <2> QED
    BY <2>1, <2>2, SamePlace DEF SentInv
<1>6. CASE Environment \/ UNCHANGED vars
  <2>1. UNCHANGED <<plan, cmd, mode, pc, at, call>>
    BY <1>6, EnvironmentLeaves DEF vars, process
  <2>2. Phase' = Phase /\ Step' = Step /\ Verb' = Verb /\ Live' = Live /\ Waits' = Waits
    BY <2>1, SamePlace
  <2> QED
    BY <2>1, <2>2 DEF SentInv, AppliedReplicas, DesiredReplicas
<1> QED
  BY <1>1, <1>2, <1>3, <1>4, <1>5, <1>6, Cases DEF Environment

(* In every reachable state a request on its way is that of the step it    *)
(* was sent by.                                                            *)
LEMMA PlacesHold == Spec => [](TypeInv /\ SentInv)
BY TypesHold, SentInit, SentStep, PTL DEF Spec

-----------------------------------------------------------------------------
(* What is changed in the cluster: by a request, by a controller, by       *)
(* others.                                                                 *)

ByRequest(r) == GoodRequest(r) /\ Apply(r)

ByOthers == Controller \/ JobFails \/ OthersAct(KindsOf(plan))

(* Objects are written by requests, by controllers and by others, and by   *)
(* nothing else.                                                           *)
LEMMA Writers ==
  ASSUME TypeInv, [Next]_vars
  PROVE  UNCHANGED <<live, made>> \/ (\E r : ByRequest(r)) \/ ByOthers
<1>1. CASE (\E c \in Commands : Start(c)) \/ Quiet \/ Send \/ Kill \/ HelmBegins \/ HelmGoesOn
           \/ HelmBreaks \/ HelmReturns \/ LostRequest \/ UNCHANGED vars
  <2>1. Quiet => UNCHANGED cluster
    BY QuietMoves
  <2> QED
    BY <1>1, <2>1 DEF Start, Send, Kill, HelmBegins, HelmGoesOn, HelmBreaks, HelmReturns, HelmFrame,
                      LostRequest, Vanish, vars, cluster
<1>2. CASE Gives
  BY <1>2 DEF Gives, Answered, CallFails, NoAnswer, Refused, ByRequest, TypeInv, RequestsOK
<1>3. CASE LateRequest
  BY <1>3 DEF LateRequest, Arrive, ByRequest, TypeInv, RequestsOK
<1>4. CASE ControllerActs \/ JobBreaks \/ Interference
  BY <1>4 DEF ControllerActs, JobBreaks, Interference, ByOthers
<1> QED
  BY <1>1, <1>2, <1>3, <1>4, Cases

(* A job that was not there before has the next uid.                       *)
LEMMA NewJobs ==
  ASSUME ObjectsOK,
         UNCHANGED <<live, made>> \/ (\E r : ByRequest(r)) \/ ByOthers
  PROVE  /\ made' \in {made, made + 1}
         /\ live'.job # Absent =>
              \/ live.job # Absent /\ live'.job.uid = live.job.uid
              \/ live'.job.uid = made + 1 /\ made' = made + 1
<1> USE DEF ObjectsOK, LiveObjects
<1>1. ASSUME NEW r, ByRequest(r), ~UNCHANGED <<live, made>>
      PROVE  /\ made' \in {made, made + 1}
             /\ live'.job # Absent =>
                  \/ live'.job = live.job
                  \/ live'.job.uid = made + 1 /\ made' = made + 1
  <2>1. /\ live' = [live EXCEPT ![r.kind] = After(r)] /\ r.kind \in Objects
        /\ made' = IF r.op = "create" THEN made + 1 ELSE made
    BY <1>1 DEF ByRequest, GoodRequest, Apply, Request
  <2>2. CASE r.kind = "job"
    <3>1. After(r) = IF r.op = "create" THEN NewJob ELSE Absent
      BY <2>2 DEF After
    <3> QED
      BY <3>1, <2>1, <2>2 DEF NewJob
  <2>3. CASE r.kind # "job"
    <3>1. live'.job = live.job
      BY <2>1, <2>3
    <3> QED
      BY <3>1, <2>1
  <2> QED
    BY <2>2, <2>3
<1>2. CASE ByOthers
  <2>1. CASE Controller \/ JobFails
    <3>1. CASE Observed \/ PodStops \/ PodIsGone \/ PodIsReady \/ PodStarts \/ ClaimIsGone \/ ClaimIsMade
      BY <3>1 DEF Observed, PodStops, PodIsGone, PodIsReady, PodStarts, ClaimIsGone, ClaimIsMade,
                  SetPod
    <3>2. ASSUME NEW state, JobEnds(state)
          PROVE  /\ made' = made
                 /\ live.job # Absent /\ live'.job.uid = live.job.uid
      BY <3>2 DEF JobEnds, Job
    <3> QED
      BY <2>1, <3>1, <3>2 DEF Controller, JobFails
  <2>2. CASE OthersAct(KindsOf(plan))
    <3>1. ASSUME NEW kind \in Objects \ {"job"}, NEW o, OtherChange(kind, o)
          PROVE  made' = made /\ live'.job = live.job
      BY <3>1 DEF OtherChange, Objects
    <3>2. ASSUME NEW o \in {Absent, NewJob}, OtherChange("job", o)
          PROVE  live'.job = o /\ made' = IF o = Absent THEN made ELSE made + 1
      BY <3>2 DEF OtherChange
    <3> QED
      BY <2>2, <3>1, <3>2 DEF OthersAct, NewJob, Objects
  <2> QED
    BY <1>2, <2>1, <2>2 DEF ByOthers
<1> QED
  BY <1>1, <1>2

(* What is promised, and by which step.                                    *)
Promises == [Objects \cup {"release", "exec"} -> {"none", "down", "up"}]

(* The end of a step promises what the step was to do, and begins the      *)
(* next.                                                                   *)
LEMMA MovesPromise ==
  ASSUME PlaceOK, pc # "idle", promised \in Promises, Moves
  PROVE  /\ promised' \in Promises
         /\ promised' = promised \/ promised' = [promised EXCEPT ![Step.kind] = Phase]
         /\ began' = began \/ began' = [began EXCEPT !.step = made]
<1>1. Step.kind \in Objects \cup {"release", "exec"} /\ Phase \in {"down", "up"}
  BY AtStep
<1>2. StepDone \/ UNCHANGED <<promised, began>>
  BY DEF Moves, AfterMain, AfterCall, StepFails
<1> QED
  BY <1>1, <1>2 DEF StepDone, Promises

(* A job that is waited for has been made since the step began.            *)
JobInv ==
  /\ promised \in Promises
  /\ began \in [command : Nat, step : Nat] /\ began.command <= made /\ began.step <= made
  /\ pc = "wait" /\ Step.kind = "job" /\ live.job # Absent => live.job.uid > began.step

(* JobInv holds at the start                                               *)
LEMMA JobInit == Init => JobInv
BY DEF Init, JobInv, Promises

(* and is kept by every step.                                              *)
LEMMA JobStep == TypeInv /\ SentInv /\ JobInv /\ [Next]_vars => JobInv'
<1> SUFFICES ASSUME TypeInv, SentInv, JobInv, [Next]_vars
             PROVE  JobInv'
  OBVIOUS
<1>0. /\ ObjectsOK /\ PlaceOK /\ promised \in Promises /\ made \in Nat
      /\ began \in [command : Nat, step : Nat] /\ began.command <= made /\ began.step <= made
  BY DEF TypeInv, JobInv, ObjectsOK
<1>1. /\ made' \in {made, made + 1}
      /\ live'.job # Absent =>
           \/ live.job # Absent /\ live'.job.uid = live.job.uid
           \/ live'.job.uid = made + 1 /\ made' = made + 1
  BY <1>0, Writers, NewJobs
<1>2. ASSUME promised' \in Promises, began' = began \/ began' = [began EXCEPT !.step = made],
             pc' # "wait"
      PROVE  JobInv'
  BY <1>0, <1>1, <1>2 DEF JobInv
<1>3. ASSUME NEW c \in Commands, Start(c)
      PROVE  JobInv'
  <2>1. began' = [command |-> made, step |-> made] /\ UNCHANGED promised /\ pc' # "wait"
    BY <1>3 DEF Start
  <2> QED
    BY <2>1, <1>0, <1>1 DEF JobInv
<1>4. CASE Quiet \/ HelmReturns \/ (Gives /\ ~(Answered /\ Granted(Reply(call))))
  <2>1. Moves /\ pc # "idle"
    BY <1>4, QuietMoves, GivesMoves DEF HelmReturns, Moves
  <2> QED
    BY <2>1, <1>0, <1>2, <1>4, MovesPromise, OnlyAnswersWait
<1>5. CASE Answered /\ Granted(Reply(call))
  <2>1. AfterCall /\ pc = "sent" /\ Apply(call) /\ UNCHANGED <<plan, cmd, mode>>
    BY <1>5 DEF Answered, Same
  <2>2. CASE pc' # "wait"
    BY <2>1, <2>2, <1>0, <1>2, MovesPromise DEF Moves
  <2>3. CASE pc' = "wait"
    <3>1. Waits /\ UNCHANGED <<at, promised, began>>
      BY <2>1, <2>3 DEF AfterCall, AfterMain, StepDone
    <3>2. Step' = Step
      BY <2>1, <3>1, SamePlace
    <3>3. ASSUME Step.kind = "job"
          PROVE  live'.job.uid = made + 1
      <4>1. call.kind = "job" /\ call.op = "create" /\ ~call.dry
        BY <2>1, <3>1, <3>3 DEF SentInv, Waits, Verb, Live
      <4>2. Reply(call) = "none"
        BY <1>5, <4>1 DEF Granted
      <4>3. live' = [live EXCEPT !.job = NewJob]
        BY <2>1, <4>1, <4>2 DEF Apply, After
      <4> QED
        BY <4>3, <1>0 DEF NewJob, ObjectsOK, LiveObjects
    <3> QED
      BY <3>1, <3>2, <3>3, <1>0, <1>1 DEF JobInv
  <2> QED
    BY <2>2, <2>3
<1>6. CASE Send \/ Kill \/ HelmBegins \/ HelmGoesOn \/ HelmBreaks
  <2>1. pc' # "wait" /\ began' = began
    BY <1>6 DEF Send, Kill, HelmBegins, HelmGoesOn, HelmBreaks, history
  <2>2. promised' \in Promises
    <3>1. Step.kind \in Objects \cup {"release", "exec"} \/ UNCHANGED promised
      BY <1>0, <1>6, AtStep DEF Send, ToServer, Kill, HelmBegins, HelmGoesOn, HelmBreaks, history
    <3> QED
      BY <3>1, <1>0, <1>6 DEF Send, Kill, HelmBegins, HelmGoesOn, HelmBreaks, history, Promises
  <2> QED
    BY <2>1, <2>2, <1>2
<1>7. CASE Environment \/ UNCHANGED vars
  <2>1. UNCHANGED <<plan, cmd, mode, pc, at, promised, began>>
    BY <1>7, EnvironmentLeaves DEF vars, process, history
  <2>2. Step' = Step
    BY <2>1, SamePlace
  <2>3. live.job # Absent => live.job.uid \in Nat
    BY <1>0 DEF ObjectsOK, LiveObjects, Job
  <2> QED
    BY <2>1, <2>2, <2>3, <1>0, <1>1 DEF JobInv
<1> QED
  BY <1>3, <1>4, <1>5, <1>6, <1>7, Cases DEF Environment

(* In every reachable state the job that is waited for is not older than   *)
(* the step.                                                               *)
LEMMA JobsHold == Spec => [](TypeInv /\ SentInv /\ JobInv)
BY PlacesHold, JobInit, JobStep, PTL DEF Spec

(* A job step that waits succeeds only for a job made since it began: what *)
(* the process waits for after its create is the job it has created, or a  *)
(* later one.                                                              *)
THEOREM WaitsForItsOwn == Spec => JobIsOurs
<1>1. ASSUME TypeInv, SentInv, JobInv, [Next]_vars,
             pc = "wait", promised'["job"] # promised["job"]
      PROVE  live.job.uid > began.step
  <2>1. promised \in Promises /\ PlaceOK
    BY <1>1 DEF JobInv, TypeInv
  <2>2. ~ (Environment \/ UNCHANGED vars \/ \E c \in Commands : Start(c))
    BY <1>1, EnvironmentLeaves DEF vars, history, Start
  <2>3. ~ (Gives \/ Send \/ Kill \/ HelmBegins \/ HelmGoesOn \/ HelmBreaks \/ HelmReturns)
    BY <1>1 DEF Gives, Answered, CallFails, NoAnswer, Refused, Send, ToServer, Kill, history,
                HelmBegins, HelmGoesOn, HelmBreaks, HelmReturns, StepFails
  <2>4. Quiet
    BY <1>1, <2>2, <2>3, Cases DEF Environment
  <2>5. CASE JobIsComplete
    BY <1>1, <2>5 DEF JobIsComplete, JobInv
  <2>6. CASE RolloutIsReady
    <3>1. Step.kind = "statefulset" /\ Moves
      BY <2>6 DEF RolloutIsReady, Moves
    <3>2. promised' = promised \/ promised' = [promised EXCEPT !["statefulset"] = Phase]
      BY <3>1, <2>1, <1>1, MovesPromise
    <3> QED
      BY <3>2, <2>1, <1>1 DEF Promises, Objects
  <2>7. ~ (Announce \/ IsMissing \/ JobHasFailed \/ PostEnds \/ PostGivesUp \/ Exec)
    BY <1>1 DEF Announce, IsMissing, ToServer, JobHasFailed, PostEnds, PostGivesUp, Exec, StepFails
  <2> QED
    BY <2>4, <2>5, <2>6, <2>7 DEF Quiet
<1>2. ASSUME TypeInv, SentInv, JobInv, [Next]_vars
      PROVE  [pc = "wait" /\ promised'["job"] # promised["job"] => live.job.uid > began.step]_vars
  BY <1>1, <1>2
<1> QED
  BY <1>2, JobsHold, PTL DEF Spec, JobIsOurs

-----------------------------------------------------------------------------
(* Dry runs.                                                               *)

(* A request marked DryRun is answered and not carried out.                *)
LEMMA DryRequests ==
  ASSUME NEW r, r.dry, Apply(r)
  PROVE  UNCHANGED live
BY DEF Apply

(* Only an arrival or a loss takes a request off its way.                  *)
LEMMA LateStays ==
  ASSUME [Next]_vars, ~LateRequest, ~LostRequest
  PROVE  late \subseteq late'
<1>1. Quiet => UNCHANGED late
  BY QuietMoves DEF cluster
<1>2. Gives => late \subseteq late'
  BY DEF Gives, Answered, CallFails, NoAnswer, Refused
<1>3. (\E c \in Commands : Start(c)) \/ Send => UNCHANGED late
  BY DEF Start, Send, cluster
<1>4. HelmBegins \/ HelmGoesOn \/ HelmBreaks \/ HelmReturns => UNCHANGED late
  BY DEF HelmBegins, HelmGoesOn, HelmBreaks, HelmReturns, HelmFrame
<1>5. Kill => late \subseteq late'
  BY DEF Kill
<1>6. ControllerActs \/ JobBreaks \/ Interference => UNCHANGED late
  BY DEF ControllerActs, Controller, JobBreaks, JobFails, Interference, OthersAct, OtherChange
<1> QED
  BY <1>1, <1>2, <1>3, <1>4, <1>5, <1>6, Cases DEF vars, cluster

(* A dry run changes nothing in the cluster: not by its steps, and not by  *)
(* a request of it that arrives after it was given up.                     *)
THEOREM DryRunIsDry == Spec => DryRunChangesNothing
<1> DEFINE Writes == \/ pc # "idle" /\ mode # "live" /\ process' # process
                     \/ \E r \in late \ late' : r.dry
           Nothing == UNCHANGED <<live, release, namespace, stored>>
<1>1. ASSUME TypeInv, SentInv, [Next]_vars, pc # "idle", mode # "live", process' # process
      PROVE  Nothing
  <2>1. PlaceOK /\ ~Live
    BY <1>1 DEF TypeInv, Live
  <2>2. ~(Environment \/ UNCHANGED vars \/ \E c \in Commands : Start(c))
    BY <1>1, EnvironmentLeaves DEF vars, Start, process
  <2>3. ~(HelmBegins \/ HelmGoesOn \/ HelmBreaks \/ HelmReturns)
    BY <1>1, <2>1, HelmIsLive DEF HelmGoesOn, HelmBreaks, HelmReturns, SentInv
  <2>4. CASE Quiet \/ Send \/ Kill
    BY <2>4, QuietMoves DEF Send, Kill, Forget, cluster, helm
  <2>5. CASE Gives
    <3>1. UNCHANGED helm
      BY <2>5, GivesMoves
    <3>2. pc = "sent" => call.dry
      BY <1>1 DEF SentInv
    <3>3. UNCHANGED live
      BY <2>5, <3>2, DryRequests DEF Gives, Answered, CallFails, NoAnswer, Refused
    <3> QED
      BY <3>1, <3>3 DEF helm
  <2> QED
    BY <1>1, <2>2, <2>3, <2>4, <2>5, Cases DEF Environment
<1>2. ASSUME [Next]_vars, NEW r \in late \ late', r.dry
      PROVE  Nothing
  <2>1. CASE LateRequest
    <3>1. PICK q \in late : Arrive(q)
      BY <2>1 DEF LateRequest
    <3>2. q = r
      BY <3>1, <1>2 DEF Arrive
    <3>3. UNCHANGED live
      BY <3>1, <3>2, <1>2, DryRequests DEF Arrive
    <3> QED
      BY <2>1, <3>3 DEF LateRequest, helm
  <2>2. CASE LostRequest
    BY <2>2 DEF LostRequest, Vanish, helm
  <2> QED
    BY <1>2, <2>1, <2>2, LateStays
<1>3. ASSUME TypeInv, SentInv, [Next]_vars
      PROVE  [Writes => Nothing]_vars
  BY <1>1, <1>2, <1>3
<1> QED
  BY <1>3, PlacesHold, PTL DEF Spec, DryRunChangesNothing

-----------------------------------------------------------------------------
(* Jobs are created once.                                                  *)

(* No down step comes after an up step.                                    *)
LEMMA NoWayBack ==
  ASSUME PlaceOK, pc # "idle", UNCHANGED <<plan, cmd, mode>>, Moves, pc' # "idle", Phase' = "down"
  PROVE  Phase = "down"
<1>1. Todo' = Todo /\ Todo \in Seq(Tasks) /\ cmd \in {"down", "up", "reset"} /\ plan \in Plans
  BY TodoIsSeq DEF PlaceOK, Todo, TodoOf, Tagged
<1>2. at \in Nat /\ Len(Todo) \in Nat
  BY <1>1 DEF PlaceOK
<1>3. CASE at' = at
  BY <1>1, <1>3 DEF Phase
<1>4. CASE at' = at + 1 /\ at < Len(Todo)
  <2>1. at + 1 \in 1..Len(Todo)
    BY <1>2, <1>4
  <2>2. Todo[at + 1].phase = "down"
    BY <1>1, <1>4 DEF Phase
  <2>3. cmd # "up" /\ at + 1 \in DOMAIN plan.down
    BY <1>1, <2>1, <2>2, TodoIsSeq DEF Todo
  <2>4. Phase = "up" => cmd = "reset" /\ at + 1 < at
    BY <1>1, <2>3, AtStep
  <2>5. Phase \in {"down", "up"}
    BY AtStep
  <2> QED
    BY <2>4, <2>5, <1>2
<1>5. at' = at \/ (at' = at + 1 /\ at < Len(Todo))
  BY DEF Moves, StepDone, AfterMain, AfterCall, StepFails
<1> QED
  BY <1>3, <1>4, <1>5

(* The job the process has created is there, and nothing on its way        *)
(* creates one before the up phase.                                        *)
Once == created # 0 => created = 1 /\ live.job # Absent

OnceInv ==
  calm => /\ Once
          /\ pc # "idle" /\ Phase = "down" => created = 0 /\ \A r \in late : r.op # "create"

(* The server creates a job only where there is none, so that a process    *)
(* with a job there does not create another.                               *)
LEMMA CreatesOnce ==
  ASSUME ObjectsOK, created \in Nat, Once, NEW r, GoodRequest(r), Apply(r), created' = Creates(r)
  PROVE  /\ created' # 0 => /\ created' = 1
                            /\ live'.job # Absent \/ (r.op = "delete" /\ live.job # Absent)
         /\ r.op # "create" => created' = created
<1> USE DEF ObjectsOK, LiveObjects
<1>1. CASE r.op = "create" /\ Reply(r) = "none" /\ ~r.dry
  <2>1. r.kind = "job" /\ live.job = Absent
    BY <1>1 DEF GoodRequest, Reply
  <2>2. live' = [live EXCEPT !.job = NewJob]
    BY <1>1, <2>1 DEF Apply, After
  <2>3. NewJob # Absent
    BY AbsentAssumption DEF NewJob, Job
  <2>4. live'.job # Absent
    BY <2>2, <2>3
  <2>5. created' = created + 1 /\ created = 0
    BY <1>1, <2>1 DEF Creates, Once
  <2> QED
    BY <1>1, <2>4, <2>5
<1>2. CASE ~(r.op = "create" /\ Reply(r) = "none" /\ ~r.dry)
  <2>1. created' = created
    BY <1>2 DEF Creates
  <2>2. r.op # "delete" => live'.job = live.job
    <3>1. CASE UNCHANGED live
      BY <3>1
    <3>2. CASE live' = [live EXCEPT ![r.kind] = After(r)] /\ r.op = "update"
      BY <3>2 DEF GoodRequest
    <3>3. r.op \in {"update", "create", "delete"}
      BY DEF GoodRequest, Request
    <3> QED
      BY <3>1, <3>2, <3>3, <1>2 DEF Apply
  <2> QED
    BY <2>1, <2>2 DEF Once
<1> QED
  BY <1>1, <1>2

(* No controller removes a job.                                            *)
LEMMA ControllersKeepJobs ==
  ASSUME ObjectsOK, Controller \/ JobFails, live.job # Absent
  PROVE  live'.job # Absent
<1> USE DEF ObjectsOK, LiveObjects
<1>1. ASSUME NEW state \in {"complete", "failed"}, JobEnds(state)
      PROVE  live'.job # Absent
  <2>1. live'.job = [live.job EXCEPT !.state = state]
    BY <1>1 DEF JobEnds
  <2>2. [live.job EXCEPT !.state = state] \in Job
    BY <1>1 DEF JobEnds, Job
  <2> QED
    BY <2>1, <2>2, AbsentAssumption
<1>2. CASE Observed \/ PodStops \/ PodIsGone \/ PodIsReady \/ PodStarts \/ ClaimIsGone \/ ClaimIsMade
  <2>1. live'.job = live.job
    BY <1>2 DEF Observed, PodStops, PodIsGone, PodIsReady, PodStarts, ClaimIsGone, ClaimIsMade,
                SetPod
  <2> QED
    BY <2>1
<1> QED
  BY <1>1, <1>2 DEF Controller, JobFails

(* OnceInv holds at the start                                              *)
LEMMA OnceInit == Init => OnceInv
BY DEF Init, OnceInv, Once

(* and is kept by every step.                                              *)
LEMMA OnceStep == TypeInv /\ SentInv /\ OnceInv /\ [Next]_vars => OnceInv'
<1> SUFFICES ASSUME TypeInv, SentInv, OnceInv, [Next]_vars, calm'
             PROVE  /\ Once'
                    /\ pc' # "idle" /\ Phase' = "down"
                         => created' = 0 /\ \A r \in late' : r.op # "create"
  BY DEF OnceInv
<1>0. ObjectsOK /\ PlaceOK /\ RequestsOK /\ created \in Nat
  BY DEF TypeInv
<1>1. ASSUME NEW c \in Commands, Start(c)
      PROVE  Once' /\ created' = 0 /\ late' = {}
  BY <1>1 DEF Start, Once, cluster
<1>2. ASSUME UNCHANGED <<live, created, late, calm>>,
             pc' # "idle" /\ Phase' = "down" => pc # "idle" /\ Phase = "down"
      PROVE  OnceInv'
  BY <1>2 DEF OnceInv, Once
<1>3. CASE Quiet \/ HelmReturns \/ CallFails
           \/ \E r \in {"Forbidden", "TooManyRequests", "Conflict"} : Refused(r)
  <2>1. Moves /\ pc # "idle" /\ UNCHANGED <<plan, cmd, mode, live, created, late, calm>>
    <3>1. CASE Quiet
      BY <3>1, QuietMoves DEF cluster
    <3>2. CASE CallFails \/ \E r \in {"Forbidden", "TooManyRequests", "Conflict"} : Refused(r)
      <4>1. Gives
        BY <3>2 DEF Gives
      <4> QED
        BY <3>2, <4>1, GivesMoves DEF CallFails, Refused
    <3>3. CASE HelmReturns
      BY <3>3 DEF HelmReturns, HelmFrame, Same, Moves
    <3> QED
      BY <1>3, <3>1, <3>2, <3>3
  <2> QED
    BY <2>1, <1>0, <1>2, NoWayBack DEF OnceInv
<1>4. CASE Send \/ Kill \/ HelmBegins \/ HelmGoesOn \/ HelmBreaks \/ UNCHANGED vars
  <2>1. /\ UNCHANGED <<plan, cmd, mode, at, live, created, calm>>
        /\ pc' = "idle" \/ UNCHANGED late
        /\ pc' # "idle" => pc # "idle"
    BY <1>4 DEF Send, ToServer, Kill, HelmBegins, HelmGoesOn, HelmBreaks, HelmFrame, Same, cluster,
                history, vars, process
  <2>2. Phase' = Phase
    BY <2>1, SamePlace
  <2> QED
    BY <2>1, <2>2 DEF OnceInv, Once
<1>5. CASE Answered \/ NoAnswer
  <2>1. /\ pc = "sent" /\ Moves /\ UNCHANGED <<plan, cmd, mode, calm>>
        /\ late' \subseteq late \cup {call}
        /\ \/ Apply(call) /\ created' = Creates(call)
           \/ UNCHANGED <<live, made, created>>
    BY <1>5, GivesMoves DEF Gives, Answered, NoAnswer
  <2>2. Once /\ GoodRequest(call)
    BY <2>1, <1>0 DEF OnceInv, RequestsOK
  <2>3. (call.op = "create" => Phase = "up") /\ (call.op = "delete" /\ call.kind = "job" => Phase = "down")
    BY <2>1, <2>2, <1>0, AtStep DEF SentInv, Verb, GoodRequest
  <2>4. CASE Phase = "down"
    <3>1. created = 0 /\ call.op # "create" /\ \A r \in late : r.op # "create"
      BY <2>1, <2>3, <2>4 DEF OnceInv
    <3>2. created' = 0
      BY <3>1, <2>1 DEF Creates
    <3> QED
      BY <3>1, <3>2, <2>1 DEF Once
  <2>5. CASE Phase # "down"
    <3>1. Once'
      <4>1. CASE UNCHANGED <<live, made, created>>
        BY <4>1, <2>2 DEF Once
      <4>2. CASE Apply(call) /\ created' = Creates(call)
        <5>1. /\ created' # 0 => /\ created' = 1
                                 /\ live'.job # Absent \/ (call.op = "delete" /\ live.job # Absent)
          BY <4>2, <2>2, <1>0, CreatesOnce
        <5>2. call.op = "delete" => live'.job = live.job
          <6>1. call.op = "delete" => call.kind # "job"
            BY <2>3, <2>5
          <6> QED
            BY <6>1, <4>2, <1>0 DEF Apply, ObjectsOK, LiveObjects
        <5> QED
          BY <5>1, <5>2 DEF Once
      <4> QED
        BY <2>1, <4>1, <4>2
    <3>2. pc' # "idle" => Phase' # "down"
      BY <2>1, <2>5, <1>0, NoWayBack
    <3> QED
      BY <3>1, <3>2
  <2> QED
    BY <2>4, <2>5
<1>6. CASE LateRequest
  <2>1. PICK r \in late : Arrive(r) /\ created' = Creates(r)
    BY <1>6 DEF LateRequest
  <2>2. calm /\ (live.job # Absent => live'.job # Absent)
    BY <1>6 DEF LateRequest
  <2>3. GoodRequest(r) /\ Once /\ Apply(r) /\ late' \subseteq late
    BY <2>1, <2>2, <1>0 DEF OnceInv, RequestsOK, Arrive
  <2>4. /\ created' # 0 => /\ created' = 1
                           /\ live'.job # Absent \/ (r.op = "delete" /\ live.job # Absent)
        /\ r.op # "create" => created' = created
    BY <2>1, <2>3, <1>0, CreatesOnce
  <2>5. Once'
    BY <2>2, <2>4 DEF Once
  <2>6. UNCHANGED <<plan, cmd, mode, pc, at>>
    BY <1>6, EnvironmentLeaves DEF Environment
  <2>7. Phase' = Phase
    BY <2>6, SamePlace
  <2> QED
    BY <2>1, <2>2, <2>3, <2>4, <2>5, <2>6, <2>7 DEF OnceInv
<1>7. CASE LostRequest \/ ControllerActs \/ JobBreaks \/ Interference
  <2>1. UNCHANGED <<plan, cmd, mode, pc, at>>
    BY <1>7, EnvironmentLeaves DEF Environment
  <2>2. UNCHANGED <<created, calm>> /\ late' \subseteq late
    BY <1>7 DEF LostRequest, Vanish, ControllerActs, Controller, JobBreaks, JobFails, Interference
  <2>3. live.job # Absent => live'.job # Absent
    BY <1>7, <2>2, <1>0, ControllersKeepJobs
       DEF LostRequest, Vanish, ControllerActs, JobBreaks, Interference
  <2>4. Phase' = Phase
    BY <2>1, SamePlace
  <2> QED
    BY <2>1, <2>2, <2>3, <2>4 DEF OnceInv, Once
<1> QED
  BY <1>1, <1>2, <1>3, <1>4, <1>5, <1>6, <1>7, Cases DEF Gives, OnceInv

(* As long as nobody interferes with a process it creates its job at most  *)
(* once: through every retry, every lost reply, and every create of it     *)
(* that arrives when the process has given it up.                          *)
THEOREM CreatesItsJobOnce == Spec => []JobRunsOnce
<1>1. TypeInv /\ OnceInv => JobRunsOnce
  BY DEF TypeInv, OnceInv, Once, JobRunsOnce
<1> QED
  BY <1>1, PlacesHold, OnceInit, OnceStep, PTL DEF Spec

-----------------------------------------------------------------------------
(* Volumes.                                                                *)

(* The steps and the requests of a reset, going down: each step at its     *)
(* place.                                                                  *)
LEMMA DownPlaces ==
  ASSUME PlaceOK, cmd = "reset", NEW i \in DOMAIN plan.down
  PROVE  /\ i \in Nat /\ i <= Len(Todo) /\ Len(Todo) \in Nat
         /\ at = i => Phase = "down" /\ Step = plan.down[i]
         /\ pc # "idle" /\ Phase # "down" => i < at
<1>1. /\ i \in 1..Len(Todo) /\ Todo[i].phase = "down" /\ Todo[i].step = plan.down[i]
      /\ Todo \in Seq(Tasks)
  BY TodoIsSeq DEF PlaceOK, Todo
<1>2. pc # "idle" /\ Phase # "down" => i < at
  BY AtStep
<1> QED
  BY <1>1, <1>2 DEF Phase, Step

(* A step that has done its work.                                          *)
Advances == Moves /\ (at' # at \/ ended' = "ok" \/ pc' = "post")

(* A step that fails does not count as done.                               *)
LEMMA Failing ==
  ASSUME ended = "no", NEW e, StepFails(e)
  PROVE  ~(at' # at \/ ended' = "ok" \/ pc' = "post")
BY DEF StepFails

(* How a step comes to have done it.                                       *)
LEMMA Successes ==
  ASSUME PlaceOK, SentInv, Live, ended = "no", Quiet \/ Gives \/ HelmReturns, Advances
  PROVE  \/ Answered /\ Granted(Reply(call)) /\ AfterCall
         \/ PostEnds
         \/ pc = "wait" /\ Waits /\ AfterMain /\ (RolloutIsReady \/ JobIsComplete)
         \/ Step.kind = "exec" /\ AfterMain
         \/ Step.kind = "release" /\ pc = "helm" /\ result = {} /\ AfterMain
<1>1. ~(Announce \/ IsMissing \/ JobHasFailed \/ PostGivesUp)
  BY Failing DEF Announce, Announced, Live, IsMissing, JobHasFailed, PostGivesUp, Advances
<1>2. ~(CallFails \/ NoAnswer \/ \E r \in {"Forbidden", "TooManyRequests", "Conflict"} : Refused(r))
  BY Failing DEF CallFails, NoAnswer, Refused, Advances
<1>3. Exec => Step.kind = "exec" /\ AfterMain
  BY Failing DEF Exec, Advances
<1>4. HelmReturns => Step.kind = "release" /\ pc = "helm" /\ result = {} /\ AfterMain
  BY Failing DEF HelmReturns, Advances, SentInv
<1>5. Answered => Granted(Reply(call)) /\ AfterCall
  BY Failing DEF Answered, Advances
<1>6. RolloutIsReady \/ JobIsComplete => pc = "wait" /\ Waits /\ AfterMain
  BY DEF RolloutIsReady, JobIsComplete, SentInv
<1> QED
  BY <1>1, <1>2, <1>3, <1>4, <1>5, <1>6 DEF Quiet, Gives

(* Requests touch the number of replicas of a statefulset, and nothing     *)
(* else of it.                                                             *)
LEMMA RequestsOnPods ==
  ASSUME ObjectsOK, NEW r, ByRequest(r)
  PROVE  /\ UNCHANGED live.statefulset.pod /\ UNCHANGED live.statefulset.claim
         /\ \/ UNCHANGED live.statefulset.replicas
            \/ r.kind = "statefulset" /\ live'.statefulset.replicas = r.replicas
         /\ r.kind = "statefulset" /\ Reply(r) = "none" /\ ~r.dry
              => live'.statefulset.replicas = r.replicas
<1> USE DEF ObjectsOK, LiveObjects
<1>1. CASE Reply(r) # "none" \/ r.dry
  BY <1>1 DEF ByRequest, Apply
<1>2. CASE Reply(r) = "none" /\ ~r.dry
  <2>1. live' = [live EXCEPT ![r.kind] = After(r)] /\ r.kind \in Objects
    BY <1>2 DEF ByRequest, Apply, GoodRequest, Request
  <2>2. CASE r.kind = "statefulset"
    <3>1. live'.statefulset = Scaled(live.statefulset, r.replicas)
      BY <2>1, <2>2 DEF After, ByRequest, GoodRequest
    <3>2. live.statefulset \in StatefulSet
      OBVIOUS
    <3>3. /\ Scaled(live.statefulset, r.replicas).pod = live.statefulset.pod
          /\ Scaled(live.statefulset, r.replicas).claim = live.statefulset.claim
          /\ Scaled(live.statefulset, r.replicas).replicas = r.replicas
      BY <3>2 DEF Scaled, StatefulSet
    <3> QED
      BY <3>1, <3>3, <2>2
  <2>3. CASE r.kind # "statefulset"
    <3>1. live'.statefulset = live.statefulset
      BY <2>1, <2>3
    <3> QED
      BY <3>1, <2>3
  <2> QED
    BY <2>2, <2>3
<1> QED
  BY <1>1, <1>2

(* A pod starts only on a claim that is there and stays, and only if it    *)
(* is wanted.                                                              *)
LEMMA ControllersOnPods ==
  ASSUME ObjectsOK, Controller \/ JobFails
  PROVE  /\ UNCHANGED live.statefulset.replicas
         /\ live'.statefulset.pod # "none" =>
              \/ live.statefulset.pod # "none" /\ UNCHANGED live.statefulset.claim
              \/ /\ live.statefulset.replicas = 1 /\ live.pvc # Absent /\ ~live.pvc.terminating
                 /\ live'.statefulset.claim = live.pvc.uid
<1> USE DEF ObjectsOK, LiveObjects, StatefulSet
<1>1. CASE Observed
  BY <1>1 DEF Observed
<1>2. CASE PodStops \/ PodIsGone \/ PodIsReady
  BY <1>2 DEF PodStops, PodIsGone, PodIsReady, SetPod
<1>3. CASE PodStarts
  BY <1>3 DEF PodStarts, WantsPod
<1>4. CASE ClaimIsMade \/ ClaimIsGone \/ \E state \in {"complete", "failed"} : JobEnds(state)
  <2>1. live'.statefulset = live.statefulset
    BY <1>4 DEF ClaimIsMade, ClaimIsGone, JobEnds
  <2> QED
    BY <2>1
<1> QED
  BY <1>1, <1>2, <1>3, <1>4 DEF Controller, JobFails

(* A claim made before number n stays deleted, and the next one comes      *)
(* after it.                                                               *)
Newer(n) == live.pvc # Absent => live.pvc.terminating \/ live.pvc.uid > n

(* A claim that is gone, or going, does not come back: what comes is       *)
(* younger.                                                                *)
LEMMA ClaimsGo ==
  ASSUME ObjectsOK, NEW n \in Nat, n <= made, Newer(n),
         UNCHANGED <<live, made>> \/ (\E r : ByRequest(r)) \/ ByOthers
  PROVE  Newer(n)'
<1> USE DEF ObjectsOK, LiveObjects, Newer
<1>1. ASSUME NEW r, ByRequest(r)
      PROVE  Newer(n)'
  <2>1. CASE UNCHANGED live
    BY <2>1
  <2>2. CASE live' = [live EXCEPT ![r.kind] = After(r)] /\ r.kind # "pvc"
    <3>1. live'.pvc = live.pvc
      BY <2>2
    <3> QED
      BY <3>1
  <2>3. CASE live' = [live EXCEPT !.pvc = After(r)] /\ r.kind = "pvc" /\ Reply(r) = "none"
    <3>1. live.pvc # Absent /\ After(r) = [live.pvc EXCEPT !.terminating = TRUE]
      BY <1>1, <2>3 DEF ByRequest, GoodRequest, Reply, After, Request
    <3> QED
      BY <3>1, <2>3 DEF Claim
  <2> QED
    BY <1>1, <2>1, <2>2, <2>3 DEF ByRequest, Apply
<1>2. CASE Controller \/ JobFails
  <2>1. CASE Observed \/ PodStops \/ PodIsGone \/ PodIsReady \/ PodStarts
             \/ \E state \in {"complete", "failed"} : JobEnds(state)
    <3>1. live'.pvc = live.pvc
      BY <2>1 DEF Observed, PodStops, PodIsGone, PodIsReady, PodStarts, SetPod, JobEnds
    <3> QED
      BY <3>1
  <2>2. CASE ClaimIsMade
    <3>1. live'.pvc = [uid |-> made + 1, terminating |-> FALSE]
      BY <2>2 DEF ClaimIsMade
    <3> QED
      BY <3>1
  <2>3. CASE ClaimIsGone
    BY <2>3 DEF ClaimIsGone
  <2> QED
    BY <1>2, <2>1, <2>2, <2>3 DEF Controller, JobFails
<1>3. CASE OthersAct(KindsOf(plan))
  <2>1. ASSUME NEW kind \in Objects \ {"pvc"}, NEW o, OtherChange(kind, o)
        PROVE  live'.pvc = live.pvc
    BY <2>1 DEF OtherChange, Objects
  <2>2. ASSUME live.pvc # Absent, OtherChange("pvc", [live.pvc EXCEPT !.terminating = TRUE])
        PROVE  Newer(n)'
    BY <2>2 DEF OtherChange, Claim
  <2> QED
    BY <1>3, <2>1, <2>2 DEF OthersAct, Objects
<1> QED
  BY <1>1, <1>2, <1>3 DEF ByOthers

(* A reset nobody interferes with, until the next process begins.          *)
Resetting == cmd = "reset" /\ Live /\ calm /\ Wipes /\ (pc # "idle" \/ ended = "ok")

GoingDown == pc # "idle" /\ Phase = "down"

(* The down steps that are over, and those that have done their work.      *)
Past(i) == ended = "ok" \/ at > i

Did(i) == Past(i) \/ (pc = "post" /\ at = i)

OldClaimGoes == Newer(began.command)

NoneScalesUp == GoingDown => \A r \in late : r.kind = "statefulset" => r.replicas = 0

(* What each down step leaves behind.                                      *)
Left(i) ==
  /\ plan.down[i].kind = "pvc" /\ Did(i) => OldClaimGoes
  /\ plan.down[i].kind = "statefulset" /\ Did(i) /\ GoingDown => live.statefulset.replicas = 0
  /\ plan.down[i].kind = "statefulset" /\ plan.down[i].post /\ Past(i)
       => IF GoingDown THEN live.statefulset.pod = "none"
          ELSE live.statefulset.pod # "none" => live.statefulset.claim > began.command

FreshInv ==
  /\ pc # "idle" => ended = "no"
  /\ Resetting => NoneScalesUp /\ \A i \in DOMAIN plan.down : Left(i)

(* FreshInv holds at the start.                                            *)
LEMMA FreshInit == Init => FreshInv
BY DEF Init, FreshInv, Resetting

(* A process that works has not ended.                                     *)
LEMMA EndedStep ==
  ASSUME PlaceOK, pc # "idle" => ended = "no", [Next]_vars
  PROVE  (pc # "idle" => ended = "no")'
<1>1. ASSUME Moves, pc # "idle"
      PROVE  pc' # "idle" => ended' = "no"
  BY <1>1 DEF Moves, StepDone, AfterMain, AfterCall, StepFails
<1>2. Quiet \/ Gives => Moves /\ pc # "idle"
  BY QuietMoves, GivesMoves
<1>3. HelmReturns => Moves /\ pc # "idle"
  BY DEF HelmReturns, Moves
<1>4. CASE Environment \/ UNCHANGED vars
  BY <1>4, EnvironmentLeaves DEF vars, process
<1>5. CASE Send \/ Kill \/ HelmBegins \/ HelmGoesOn \/ HelmBreaks
  BY <1>5 DEF Send, ToServer, Kill, HelmBegins, HelmGoesOn, HelmBreaks
<1>6. ASSUME NEW c \in Commands, Start(c)
      PROVE  pc' # "idle" => ended' = "no"
  BY <1>6 DEF Start
<1> QED
  BY <1>1, <1>2, <1>3, <1>4, <1>5, <1>6, Cases DEF Environment

(* A process that begins has done nothing.                                 *)
LEMMA FreshStart ==
  ASSUME TypeInv, NEW c \in Commands, Start(c)
  PROVE  (Resetting => NoneScalesUp /\ \A i \in DOMAIN plan.down : Left(i))'
<1> SUFFICES ASSUME Resetting'
             PROVE  NoneScalesUp' /\ \A i \in DOMAIN plan'.down : Left(i)'
  OBVIOUS
<1>1. /\ c[1] = "reset" /\ calm' /\ Wipes' /\ UNCHANGED plan /\ at' = 1
      /\ late' = {}
      /\ \/ TodoOf(c[1]) = <<>>
         \/ pc' = "begin" /\ ended' = "no"
  BY DEF Start, Resetting, cluster
<1>2. PICK i \in DOMAIN plan.down : TRUE
  BY <1>1 DEF Wipes
<1>3. plan \in Plans
  BY DEF TypeInv, PlaceOK
<1>4. i \in 1..Len(TodoOf("reset"))
  BY <1>2, <1>3, TodoIsSeq
<1>5. pc' = "begin" /\ ended' = "no"
  BY <1>1, <1>4, EmptySeq
<1>6. \A j \in DOMAIN plan.down : j \in Nat \ {0}
  <2>1. plan.down \in Seq(StepsOf(plan))
    BY <1>3, PlansAssumption
  <2> QED
    BY <2>1, LenProperties
<1> QED
  BY <1>1, <1>5, <1>6 DEF NoneScalesUp, Left, Did, Past

(* A step of the process itself.                                           *)
LEMMA FreshMove ==
  ASSUME TypeInv, SentInv, JobInv, FreshInv, [Next]_vars, Quiet \/ Gives \/ HelmReturns, Resetting'
  PROVE  NoneScalesUp' /\ \A i \in DOMAIN plan'.down : Left(i)'
<1>1. /\ Moves /\ pc # "idle" /\ UNCHANGED <<plan, cmd, mode, calm>>
  BY QuietMoves, GivesMoves DEF HelmReturns, HelmFrame, Same, Moves
<1>2. /\ PlaceOK /\ ObjectsOK /\ ended = "no" /\ cmd = "reset" /\ Live /\ at \in Nat
      /\ began \in [command : Nat, step : Nat] /\ began.command <= made
      /\ promised \in Promises /\ made \in Nat
  BY <1>1 DEF TypeInv, FreshInv, JobInv, Resetting, Live, PlaceOK, ObjectsOK
<1>3. Resetting /\ NoneScalesUp /\ \A i \in DOMAIN plan.down : Left(i)
  BY <1>1 DEF FreshInv, Resetting, Live, Wipes
<1>4. GoingDown' => GoingDown
  BY <1>1, <1>2, NoWayBack DEF GoingDown
<1>5. began'.command = began.command
  BY <1>1, <1>2, MovesPromise
<1>6. pc = "sent" => GoodRequest(call) /\ ~call.dry /\ call.kind = Step.kind /\ call.op = Verb
  BY <1>2 DEF TypeInv, RequestsOK, SentInv, Live
<1>7. pc = "sent" /\ Step.kind = "statefulset" /\ Phase = "down" => call.replicas = 0
  <2>1. pc = "sent" => Step \in StepsOf(plan) /\ Step.replicas \in {0, 1, Unset}
    BY <1>1, <1>2, AtStep
  <2>2. pc = "sent" /\ Step.kind = "statefulset" => call.replicas = DesiredReplicas(Phase, Step)
    BY <2>1, ReplicasFit DEF SentInv
  <2> QED
    BY <2>2 DEF DesiredReplicas
<1>8. \/ UNCHANGED live
      \/ Gives /\ pc = "sent" /\ ByRequest(call)
  <2>1. Quiet \/ HelmReturns \/ CallFails \/ (\E r \in {"Forbidden", "TooManyRequests", "Conflict"} : Refused(r))
          => UNCHANGED live
    BY QuietMoves DEF cluster, HelmReturns, HelmFrame, CallFails, Refused
  <2>2. Answered \/ NoAnswer => UNCHANGED live \/ (pc = "sent" /\ Apply(call))
    BY DEF Answered, NoAnswer
  <2> QED
    BY <2>1, <2>2, <1>6 DEF Gives, ByRequest
<1>9. /\ UNCHANGED live.statefulset.pod /\ UNCHANGED live.statefulset.claim
      /\ \/ UNCHANGED live.statefulset.replicas
         \/ pc = "sent" /\ Step.kind = "statefulset" /\ live'.statefulset.replicas = call.replicas
  BY <1>2, <1>6, <1>8, RequestsOnPods
<1>10. NoneScalesUp'
  <2>1. late' \subseteq late \cup {call} /\ (pc # "sent" => late' \subseteq late)
    <3>1. Quiet => UNCHANGED late
      BY QuietMoves DEF cluster
    <3> QED
      BY <3>1 DEF Gives, Answered, CallFails, NoAnswer, Refused, HelmReturns, HelmFrame
  <2> QED
    BY <2>1, <1>3, <1>4, <1>6, <1>7 DEF NoneScalesUp, GoingDown
<1>11. ASSUME NEW i \in DOMAIN plan.down
       PROVE  Left(i)'
  <2>1. /\ i \in Nat /\ i <= Len(Todo) /\ Len(Todo) \in Nat
        /\ at = i => Phase = "down" /\ Step = plan.down[i]
        /\ Phase # "down" => i < at
    BY <1>1, <1>2, DownPlaces
  <2>2. Past(i) => Left(i) /\ Did(i)
    BY <1>3 DEF Did
  <2>3. Past(i)' => Past(i) \/ (at = i /\ Advances /\ StepDone)
    <3>1. CASE StepDone
      <4>1. \/ at' = at + 1 /\ ended' = "no"
            \/ at' = at /\ ~(at < Len(Todo)) /\ ended' = "ok"
        BY <3>1, <1>2 DEF StepDone
      <4> QED
        BY <3>1, <4>1, <2>1, <1>1, <1>2 DEF Past, Advances
    <3>2. CASE ~StepDone
      BY <3>2, <1>1, <1>2 DEF Past, Moves, AfterMain, AfterCall, StepFails
    <3> QED
      BY <3>1, <3>2
  <2>4. Did(i)' => Past(i) \/ (at = i /\ Advances)
    <3>1. pc' = "post" => UNCHANGED at /\ Advances
      BY <1>1, MovePlaces DEF Advances
    <3> QED
      BY <3>1, <2>3 DEF Did
  <2>5. at = i /\ Advances => \/ Did(i)
                              \/ Answered /\ Granted(Reply(call))
                              \/ plan.down[i].kind \notin {"statefulset", "pvc"}
    <3>1. at = i => Phase = "down" /\ Step = plan.down[i]
      BY <2>1
    <3>2. PostEnds /\ at = i => Did(i)
      BY DEF PostEnds, Did
    <3> QED
      BY <3>1, <3>2, <1>2, Successes DEF Waits
  <2>6. plan.down[i].kind = "pvc" /\ Did(i)' => OldClaimGoes'
    <3>0. SUFFICES ASSUME plan.down[i].kind = "pvc", Did(i)'
                   PROVE  OldClaimGoes'
      OBVIOUS
    <3>1. CASE Did(i)
      <4>1. Newer(began.command)
        BY <3>0, <3>1, <1>3 DEF Left, OldClaimGoes
      <4>2. UNCHANGED <<live, made>> \/ (\E r : ByRequest(r)) \/ ByOthers
        BY <1>2, Writers
      <4>3. PICK n \in Nat : n = began.command
        BY <1>2
      <4>4. n <= made /\ Newer(n)
        BY <4>1, <4>3, <1>2 DEF Newer
      <4>5. Newer(n)'
        BY <4>2, <4>4, <1>2, ClaimsGo
      <4> QED
        BY <4>3, <4>5, <1>5 DEF OldClaimGoes, Newer
    <3>2. CASE ~Did(i)
      <4>1. at = i /\ Answered /\ Granted(Reply(call)) /\ Step.kind = "pvc"
        BY <3>0, <3>2, <2>1, <2>2, <2>4, <2>5
      <4>2. pc = "sent" /\ Apply(call) /\ call.kind = "pvc" /\ call.op = "delete" /\ ~call.dry
        BY <4>1, <1>6 DEF Answered, Verb
      <4>3. CASE Reply(call) = "none"
        <5>1. live' = [live EXCEPT !.pvc = After(call)] /\ live.pvc # Absent
          BY <4>2, <4>3 DEF Apply, Reply
        <5>2. After(call) = [live.pvc EXCEPT !.terminating = TRUE]
          BY <4>2 DEF After
        <5>3. live'.pvc.terminating
          BY <5>1, <5>2, <1>2 DEF ObjectsOK, LiveObjects, Claim
        <5> QED
          BY <5>3 DEF OldClaimGoes, Newer
      <4>4. CASE Reply(call) # "none"
        <5>1. live.pvc = Absent /\ UNCHANGED live
          BY <4>1, <4>2, <4>4 DEF Apply, Granted, Reply
        <5> QED
          BY <5>1 DEF OldClaimGoes, Newer
      <4> QED
        BY <4>3, <4>4
    <3> QED
      BY <3>1, <3>2
  <2>7. plan.down[i].kind = "statefulset" /\ Did(i)' /\ GoingDown' => live'.statefulset.replicas = 0
    <3>0. SUFFICES ASSUME plan.down[i].kind = "statefulset", Did(i)', GoingDown
                   PROVE  live'.statefulset.replicas = 0
      BY <1>4
    <3>1. CASE Did(i)
      <4>1. live.statefulset.replicas = 0
        BY <3>0, <3>1, <1>3 DEF Left
      <4> QED
        BY <3>0, <4>1, <1>7, <1>9 DEF GoingDown
    <3>2. CASE ~Did(i)
      <4>1. at = i /\ Answered /\ Granted(Reply(call)) /\ Step.kind = "statefulset"
        BY <3>0, <3>2, <2>1, <2>2, <2>4, <2>5
      <4>2. pc = "sent" /\ Apply(call) /\ call.kind = "statefulset" /\ call.op = "update" /\ ~call.dry
        BY <4>1, <1>6 DEF Answered, Verb
      <4>3. Reply(call) = "none" /\ ByRequest(call)
        BY <4>1, <4>2, <1>6 DEF Granted, ByRequest
      <4>4. live'.statefulset.replicas = call.replicas
        BY <4>2, <4>3, <1>2, RequestsOnPods
      <4> QED
        BY <4>1, <4>2, <4>4, <3>0, <1>7 DEF GoingDown
    <3> QED
      BY <3>1, <3>2
  <2>8. plan.down[i].kind = "statefulset" /\ plan.down[i].post /\ Past(i)'
          => IF GoingDown' THEN live'.statefulset.pod = "none"
             ELSE live'.statefulset.pod # "none" => live'.statefulset.claim > began'.command
    <3>0. SUFFICES ASSUME plan.down[i].kind = "statefulset", plan.down[i].post, Past(i)'
                   PROVE  IF GoingDown' THEN live.statefulset.pod = "none"
                          ELSE live.statefulset.pod # "none" => live.statefulset.claim > began.command
      BY <1>5, <1>9
    <3>1. CASE Past(i)
      BY <3>0, <3>1, <1>3, <1>4 DEF Left
    <3>2. CASE ~Past(i)
      <4>1. at = i /\ Advances /\ StepDone /\ Phase = "down" /\ Step = plan.down[i]
        BY <3>0, <3>2, <2>1, <2>3
      <4>2. (~AfterMain /\ ~AfterCall) \/ pc' = "post"
        BY <4>1, <3>0, <1>2 DEF AfterMain, AfterCall, Waits
      <4>3. pc' # "post"
        BY <4>1 DEF StepDone
      <4>4. PostEnds
        BY <4>1, <4>2, <4>3, <3>0, <1>2, Successes
      <4> QED
        BY <4>4 DEF PostEnds
    <3> QED
      BY <3>1, <3>2
  <2> QED
    BY <2>6, <2>7, <2>8, <1>1 DEF Left
<1> QED
  BY <1>1, <1>10, <1>11

(* A step of the cluster.                                                  *)
LEMMA FreshWorld ==
  ASSUME TypeInv, JobInv, FreshInv, [Next]_vars, Environment \/ UNCHANGED vars, Resetting'
  PROVE  NoneScalesUp' /\ \A i \in DOMAIN plan'.down : Left(i)'
<1>1. UNCHANGED <<plan, cmd, mode, pc, at, ended, began>>
  BY EnvironmentLeaves DEF vars, process, history
<1>2. /\ Phase' = Phase /\ Live' = Live /\ Wipes' = Wipes /\ calm'
      /\ GoingDown' = GoingDown /\ \A i \in DOMAIN plan.down : Past(i)' = Past(i) /\ Did(i)' = Did(i)
  BY <1>1, SamePlace DEF Resetting, Wipes, GoingDown, Past, Did
<1>3. ~Interference /\ calm
  BY <1>2 DEF Interference, LateRequest, Environment, LostRequest, ControllerActs, JobBreaks, vars,
              history
<1>4. Resetting /\ NoneScalesUp /\ \A i \in DOMAIN plan.down : Left(i)
  BY <1>1, <1>2, <1>3 DEF FreshInv, Resetting
<1>5. /\ ObjectsOK /\ PlaceOK /\ made \in Nat /\ cmd = "reset" /\ Wipes
      /\ pc # "idle" \/ ended = "ok"
      /\ began \in [command : Nat, step : Nat] /\ began.command <= made
  BY <1>1, <1>4 DEF TypeInv, JobInv, Resetting, ObjectsOK
<1>6. \/ UNCHANGED live
      \/ \E r \in late : ByRequest(r)
      \/ Controller \/ JobFails
  BY <1>3 DEF Environment, LateRequest, Arrive, LostRequest, Vanish, ControllerActs, JobBreaks, vars,
              cluster, ByRequest, TypeInv, RequestsOK
<1>7. NoneScalesUp'
  <2>1. late' \subseteq late
    BY <1>3 DEF Environment, LateRequest, Arrive, LostRequest, Vanish, ControllerActs, Controller,
                JobBreaks, JobFails, vars, cluster
  <2> QED
    BY <2>1, <1>2, <1>4 DEF NoneScalesUp
<1>8. OldClaimGoes => OldClaimGoes'
  <2>1. UNCHANGED <<live, made>> \/ (\E r : ByRequest(r)) \/ ByOthers
    BY <1>5, Writers
  <2>2. PICK n \in Nat : n = began.command
    BY <1>5
  <2>3. Newer(n) => Newer(n)'
    BY <2>1, <2>2, <1>5, ClaimsGo
  <2> QED
    BY <2>2, <2>3, <1>1 DEF OldClaimGoes, Newer
<1>9. GoingDown /\ live.statefulset.replicas = 0 => live'.statefulset.replicas = 0
  <2>1. ASSUME GoingDown, live.statefulset.replicas = 0, NEW r \in late, ByRequest(r)
        PROVE  live'.statefulset.replicas = 0
    <3>1. r.kind = "statefulset" => r.replicas = 0
      BY <2>1, <1>4 DEF NoneScalesUp
    <3> QED
      BY <2>1, <3>1, <1>5, RequestsOnPods
  <2> QED
    BY <2>1, <1>5, <1>6, ControllersOnPods
<1>10. live'.statefulset.pod # "none" =>
         \/ live.statefulset.pod # "none" /\ UNCHANGED live.statefulset.claim
         \/ /\ live.statefulset.replicas = 1 /\ live.pvc # Absent /\ ~live.pvc.terminating
            /\ live'.statefulset.claim = live.pvc.uid
  BY <1>5, <1>6, RequestsOnPods, ControllersOnPods
<1>11. ASSUME NEW i \in DOMAIN plan.down, plan.down[i].kind = "statefulset", plan.down[i].post, Past(i)
       PROVE  IF GoingDown THEN live'.statefulset.pod = "none"
              ELSE live'.statefulset.pod # "none" => live'.statefulset.claim > began.command
  <2>1. CASE GoingDown
    <3>1. live.statefulset.pod = "none" /\ live.statefulset.replicas = 0
      BY <2>1, <1>4, <1>11 DEF Left, Did
    <3> QED
      BY <2>1, <3>1, <1>10
  <2>2. CASE ~GoingDown
    <3>1. PICK j \in DOMAIN plan.down : plan.down[j].kind = "pvc"
      BY <1>5 DEF Wipes
    <3>2. Past(j)
      <4>1. /\ j \in Nat /\ (pc # "idle" /\ Phase # "down" => j < at)
        BY <1>5, DownPlaces
      <4>2. at \in Nat
        BY <1>5 DEF PlaceOK
      <4> QED
        BY <2>2, <4>1, <4>2, <1>5 DEF GoingDown, Past
    <3>3. OldClaimGoes
      BY <3>1, <3>2, <1>4 DEF Left, Did
    <3>4. live.statefulset.pod # "none" => live.statefulset.claim > began.command
      BY <2>2, <1>4, <1>11 DEF Left
    <3> QED
      BY <2>2, <3>3, <3>4, <1>10 DEF OldClaimGoes, Newer
  <2> QED
    BY <2>1, <2>2
<1> QED
  BY <1>1, <1>2, <1>4, <1>7, <1>8, <1>9, <1>11 DEF Left

(* FreshInv is kept by every step.                                         *)
LEMMA FreshStep == TypeInv /\ SentInv /\ JobInv /\ FreshInv /\ [Next]_vars => FreshInv'
<1> SUFFICES ASSUME TypeInv, SentInv, JobInv, FreshInv, [Next]_vars
             PROVE  FreshInv'
  OBVIOUS
<1>0. (pc # "idle" => ended = "no")'
  <2>1. PlaceOK /\ (pc # "idle" => ended = "no")
    BY DEF FreshInv, TypeInv
  <2> QED
    BY <2>1, EndedStep, Zenon
<1>1. ASSUME NEW c \in Commands, Start(c)
      PROVE  (Resetting => NoneScalesUp /\ \A i \in DOMAIN plan.down : Left(i))'
  BY <1>1, FreshStart
<1>2. CASE Quiet \/ Gives \/ HelmReturns
  BY <1>0, <1>2, FreshMove DEF FreshInv
<1>3. CASE Environment \/ UNCHANGED vars
  BY <1>0, <1>3, FreshWorld DEF FreshInv
<1>4. CASE Kill
  BY <1>4 DEF Kill, Resetting, FreshInv
<1>5. CASE Send \/ HelmBegins \/ HelmGoesOn \/ HelmBreaks
  <2>1. /\ UNCHANGED <<plan, cmd, mode, at, ended, live, late, calm, began>>
        /\ pc # "idle" /\ pc' # "post"
    BY <1>5 DEF Send, ToServer, HelmBegins, HelmGoesOn, HelmBreaks, HelmFrame, Same, cluster
  <2>2. Phase' = Phase /\ Live' = Live /\ Wipes' = Wipes
    BY <2>1, SamePlace DEF Wipes
  <2>3. Resetting' => Resetting
    BY <2>1, <2>2 DEF Resetting
  <2>5. \A i \in DOMAIN plan.down : Past(i)' = Past(i) /\ (Did(i)' => Did(i))
    BY <2>1 DEF Past, Did
  <2>6. pc' # "idle"
    BY <1>5 DEF Send, HelmBegins, HelmGoesOn, HelmBreaks, ToServer
  <2>7. GoingDown' = GoingDown
    BY <2>1, <2>2, <2>6 DEF GoingDown
  <2>8. OldClaimGoes' = OldClaimGoes
    BY <2>1 DEF OldClaimGoes, Newer
  <2> QED
    BY <2>1, <2>3, <2>5, <2>7, <2>8 DEF FreshInv, NoneScalesUp, Left
<1> QED
  BY <1>0, <1>1, <1>2, <1>3, <1>4, <1>5, Cases DEF Environment, FreshInv

(* In every reachable state each down step of a reset has left behind      *)
(* what it was to.                                                         *)
LEMMA FreshHolds == Spec => [](TypeInv /\ SentInv /\ JobInv /\ FreshInv)
BY JobsHold, FreshInit, FreshStep, PTL DEF Spec

(* After a reset nobody interferes with, whose down steps wait for the     *)
(* pods and delete their claim, no pod runs on a claim made before it.     *)
THEOREM ResetWipes == Spec => []FreshVolumes
<1>1. ASSUME TypeInv, FreshInv
      PROVE  FreshVolumes
  <2>1. SUFFICES ASSUME ended = "ok", cmd = "reset", Live, calm, Wipes,
                        live.statefulset.pod \in {"starting", "ready"}
                 PROVE  live.statefulset.claim > began.command
    BY DEF FreshVolumes
  <2>2. pc = "idle" /\ \A i \in DOMAIN plan.down : Left(i) /\ Past(i)
    BY <1>1, <2>1 DEF FreshInv, Resetting, Past
  <2> QED
    BY <2>1, <2>2 DEF Wipes, Left, GoingDown
<1> QED
  BY <1>1, FreshHolds, PTL

-----------------------------------------------------------------------------
(* Promises.                                                               *)

(* The kinds of steps that leave a state behind.                           *)
Kept == Objects \cup {"release"}

StepsIn(phase) == IF phase = "down" THEN plan.down ELSE plan.up

Planned(k, phase) == \E i \in DOMAIN StepsIn(phase) : StepsIn(phase)[i].kind = k

(* The object, or the release, is as the step of the phase has left it.    *)
SettledStatefulset(phase) ==
  live.statefulset.replicas = DesiredReplicas(phase, StepOf("statefulset", phase))

SettledCronJob(phase) == live.cronjob # Absent /\ live.cronjob.suspend = (phase = "down")

SettledClaim == live.pvc # Absent => live.pvc.terminating

SettledJob(phase) == live.job # Absent <=> phase = "up"

SettledRelease(phase) == release # NoRelease <=> phase = "up"

Settled(k, phase) ==
  /\ k = "statefulset" => SettledStatefulset(phase)
  /\ k = "cronjob" => SettledCronJob(phase)
  /\ k = "pvc" => SettledClaim
  /\ k = "job" => SettledJob(phase)
  /\ k = "release" => SettledRelease(phase)

(* Helm does what the phase asks for.                                      *)
HelmPhase ==
  pc = "helm" =>
    /\ Phase = "up" => op # "uninstall"
    /\ Phase = "down" => op \in {"uninstall", "returned"}
    /\ op = "returned" /\ result = {} => SettledRelease(Phase)

Phases == {"down", "up"}

(* Of what no step has planned nothing is promised.                        *)
PlansKept == \A k \in Kept, phase \in Phases : promised[k] = phase => Planned(k, phase)

(* What is promised is so, until somebody touches it.                      *)
PromisesKept == \A k \in Kept \ touched, phase \in Phases : promised[k] = phase => Settled(k, phase)

(* Nothing is promised of an object while a step is at work on it,         *)
AtWork ==
  pc \in {"sent", "wait", "post", "helm"} /\ Live
    => \A k \in Kept : k = Step.kind => promised[k] = "none"

(* and what its request has done stays done while it waits.                *)
HasDone ==
  pc \in {"wait", "post"}
    => \A k \in Kept \ touched, phase \in Phases :
         k = Step.kind /\ phase = Phase => Settled(k, phase)

PromiseInv == PlansKept /\ PromisesKept /\ AtWork /\ HasDone /\ HelmPhase

(* The step of a kind is the one the process is in.                        *)
LEMMA StepIsTheOne ==
  ASSUME PlaceOK, pc # "idle"
  PROVE  StepOf(Step.kind, Phase) = Step /\ Planned(Step.kind, Phase)
<1>1. /\ Phase \in {"down", "up"}
      /\ \E j \in DOMAIN StepsIn(Phase) : Step = StepsIn(Phase)[j]
      /\ OneOfAKind(StepsIn(Phase))
  BY AtStep, PlansAssumption DEF PlaceOK, StepsIn
<1> DEFINE S == {StepsIn(Phase)[i] : i \in DOMAIN StepsIn(Phase)}
<1>2. Step \in S /\ \A s \in S : s.kind = Step.kind => s = Step
  BY <1>1 DEF OneOfAKind
<1>3. StepOf(Step.kind, Phase) = CHOOSE s \in S : s.kind = Step.kind
  BY DEF StepOf, StepsIn
<1>4. \E s \in S : s.kind = Step.kind
  BY <1>2
<1> HIDE DEF S
<1>5. (CHOOSE s \in S : s.kind = Step.kind) = Step
  BY <1>2, <1>4, Zenon
<1> QED
  BY <1>1, <1>3, <1>5 DEF Planned

(* What is settled stays so while its object is left alone.                *)
LEMMA SettledStays ==
  ASSUME UNCHANGED plan, NEW k \in Kept, NEW phase, Settled(k, phase),
         k \in Objects => live'[k] = live[k],
         k = "release" => UNCHANGED release
  PROVE  Settled(k, phase)'
<1>1. StepOf(k, phase)' = StepOf(k, phase)
  BY DEF StepOf
<1>2. k \in Objects \/ k = "release"
  BY DEF Kept
<1> QED
  BY <1>1, <1>2 DEF Settled, SettledStatefulset, SettledCronJob, SettledClaim, SettledJob,
                    SettledRelease, DesiredReplicas, Objects

(* A request changes only the object it names.                             *)
LEMMA OnlyTheOne ==
  ASSUME ObjectsOK, NEW r, ByRequest(r), NEW k \in Objects, k # r.kind
  PROVE  live'[k] = live[k]
BY DEF ObjectsOK, LiveObjects, ByRequest, Apply, Objects

(* A granted request does what the step asks for.                          *)
LEMMA GrantSettles ==
  ASSUME TypeInv, SentInv, Live, Answered, Granted(Reply(call)),
         NEW k, k = Step.kind, NEW phase, phase = Phase
  PROVE  Settled(k, phase)'
<1>0. /\ pc = "sent" /\ Apply(call) /\ UNCHANGED plan /\ ~call.dry /\ GoodRequest(call)
      /\ call.kind = k /\ call.op = Verb /\ call.suspend = (phase = "down")
      /\ ObjectsOK /\ PlaceOK
      /\ k = "statefulset" => call.replicas = AppliedReplicas(phase, Step)
  BY DEF TypeInv, SentInv, Answered, Same, Live, RequestsOK
<1>1. /\ k \in Objects /\ phase \in {"down", "up"} /\ StepOf(k, phase)' = Step
      /\ Step.replicas \in {0, 1, Unset}
  <2>1. StepOf(k, phase) = Step
    BY <1>0, StepIsTheOne
  <2>2. StepOf(k, phase)' = StepOf(k, phase)
    BY <1>0 DEF StepOf
  <2> QED
    BY <1>0, <2>1, <2>2, AtStep DEF GoodRequest, Request
<1>2. CASE k = "statefulset"
  <2>1. Reply(call) = "none" /\ ByRequest(call)
    BY <1>0, <1>2 DEF Granted, GoodRequest, ByRequest
  <2>2. live'.statefulset.replicas = AppliedReplicas(phase, Step)
    BY <1>0, <1>2, <2>1, RequestsOnPods
  <2>3. AppliedReplicas(phase, Step) = DesiredReplicas(phase, Step)
    BY <1>1, ReplicasFit
  <2> QED
    BY <1>1, <1>2, <2>2, <2>3 DEF Settled, SettledStatefulset, DesiredReplicas
<1>3. CASE k = "cronjob"
  <2>1. Reply(call) = "none" /\ call.op = "update"
    BY <1>0, <1>3 DEF Granted, GoodRequest
  <2>2. live.cronjob # Absent
    BY <1>0, <1>3, <2>1 DEF Reply
  <2>3. live'.cronjob = Suspended(live.cronjob, call.suspend)
    BY <1>0, <1>3, <2>1 DEF Apply, After, ObjectsOK, LiveObjects
  <2>4. live.cronjob \in CronJob /\ call.suspend \in BOOLEAN
    BY <1>0, <2>2 DEF ObjectsOK, LiveObjects, GoodRequest, Request
  <2>5. /\ Suspended(live.cronjob, call.suspend) \in CronJob
        /\ Suspended(live.cronjob, call.suspend).suspend = call.suspend
    BY <2>4 DEF Suspended, CronJob
  <2>6. live'.cronjob # Absent
    BY <2>3, <2>5, AbsentAssumption
  <2>7. live'.cronjob.suspend = (phase = "down")
    BY <1>0, <2>3, <2>5
  <2> QED
    BY <1>3, <2>6, <2>7 DEF Settled, SettledCronJob
<1>4. CASE k = "pvc" \/ (k = "job" /\ phase = "down")
  <2>1. call.op = "delete"
    BY <1>0, <1>4 DEF Verb
  <2>2. CASE Reply(call) # "none"
    <3>1. live[k] = Absent /\ UNCHANGED live
      BY <1>0, <2>1, <2>2 DEF Granted, Reply, Apply
    <3> QED
      BY <1>1, <1>4, <3>1 DEF Settled, SettledClaim, SettledJob
  <2>3. CASE Reply(call) = "none"
    <3>1. live' = [live EXCEPT ![k] = After(call)] /\ live[k] # Absent
      BY <1>0, <2>1, <2>3 DEF Apply, Reply
    <3>2. CASE k = "pvc"
      <4>1. After(call) = [live.pvc EXCEPT !.terminating = TRUE] /\ live.pvc \in Claim
        BY <1>0, <2>1, <3>1, <3>2 DEF After, ObjectsOK, LiveObjects
      <4>2. live'.pvc.terminating
        BY <1>0, <3>1, <3>2, <4>1 DEF ObjectsOK, LiveObjects, Claim
      <4> QED
        BY <3>2, <4>2 DEF Settled, SettledClaim
    <3>3. CASE k = "job" /\ phase = "down"
      <4>1. After(call) = Absent
        BY <1>0, <2>1, <3>3 DEF After
      <4>2. live'.job = Absent
        BY <1>0, <3>1, <3>3, <4>1 DEF ObjectsOK, LiveObjects
      <4> QED
        BY <3>3, <4>2 DEF Settled, SettledJob
    <3> QED
      BY <1>4, <3>2, <3>3
  <2> QED
    BY <2>2, <2>3
<1>5. CASE k = "job" /\ phase = "up"
  <2>1. call.op = "create" /\ Reply(call) = "none"
    BY <1>0, <1>5 DEF Verb, Granted
  <2>2. live' = [live EXCEPT !.job = NewJob]
    BY <1>0, <1>5, <2>1 DEF Apply, After
  <2>3. NewJob # Absent
    BY <1>0, AbsentAssumption DEF NewJob, Job, ObjectsOK
  <2>4. live'.job # Absent
    BY <1>0, <2>2, <2>3 DEF ObjectsOK, LiveObjects
  <2> QED
    BY <1>5, <2>4 DEF Settled, SettledJob
<1> QED
  BY <1>1, <1>2, <1>3, <1>4, <1>5 DEF Objects

(* The controllers disturb nothing but a claim that is gone.               *)
LEMMA ControllersSettle ==
  ASSUME ObjectsOK, UNCHANGED <<plan, release>>, Controller \/ JobFails,
         NEW k \in Kept \ touched', NEW phase, Settled(k, phase)
  PROVE  Settled(k, phase)'
<1>0. ObjectsOK' /\ StepOf(k, phase)' = StepOf(k, phase)
  BY ControllersKeepTypes DEF StepOf
<1>1. CASE k = "statefulset"
  BY <1>0, <1>1, ControllersOnPods DEF Settled, SettledStatefulset, DesiredReplicas
<1>2. UNCHANGED live.cronjob /\ (live.job = Absent => live'.job = Absent)
  <2>1. CASE Observed \/ PodStops \/ PodIsGone \/ PodIsReady \/ PodStarts \/ ClaimIsMade \/ ClaimIsGone
    <3>1. live'.cronjob = live.cronjob /\ live'.job = live.job
      BY <2>1 DEF Observed, PodStops, PodIsGone, PodIsReady, PodStarts, SetPod, ClaimIsMade,
                  ClaimIsGone, ObjectsOK, LiveObjects
    <3> QED
      BY <3>1
  <2>2. ASSUME NEW state, JobEnds(state)
        PROVE  live'.cronjob = live.cronjob /\ live.job # Absent
    BY <2>2 DEF JobEnds, ObjectsOK, LiveObjects
  <2> QED
    BY <2>1, <2>2 DEF Controller, JobFails
<1>3. CASE k = "cronjob"
  BY <1>2, <1>3 DEF Settled, SettledCronJob
<1>4. CASE k = "job"
  <2>1. live.job # Absent => live'.job # Absent
    BY ControllersKeepJobs
  <2> QED
    BY <1>2, <1>4, <2>1 DEF Settled, SettledJob
<1>5. CASE k = "pvc"
  <2>1. CASE Observed \/ PodStops \/ PodIsGone \/ PodIsReady \/ PodStarts
             \/ \E state \in {"complete", "failed"} : JobEnds(state)
    <3>1. live'.pvc = live.pvc
      BY <2>1 DEF Observed, PodStops, PodIsGone, PodIsReady, PodStarts, SetPod, JobEnds, ObjectsOK,
                  LiveObjects
    <3> QED
      BY <1>5, <3>1 DEF Settled, SettledClaim
  <2>2. CASE ClaimIsGone
    BY <1>5, <2>2 DEF ClaimIsGone, Settled, SettledClaim, ObjectsOK, LiveObjects
  <2>3. CASE Controller /\ ClaimIsMade
    <3>1. live'.pvc = [uid |-> made + 1, terminating |-> FALSE] /\ live.pvc = Absent
      BY <2>3 DEF ClaimIsMade, ObjectsOK, LiveObjects
    <3>2. [uid |-> made + 1, terminating |-> FALSE] # Absent
      <4>1. [uid |-> made + 1, terminating |-> FALSE] \in Claim
        BY DEF ObjectsOK, Claim
      <4> QED
        BY <4>1, AbsentAssumption
    <3>3. "pvc" \in touched'
      BY <2>3, <3>1, <3>2 DEF Controller
    <3> QED
      BY <1>5, <3>3
  <2> QED
    BY <2>1, <2>2, <2>3 DEF Controller, JobFails
<1>6. CASE k = "release"
  BY <1>6 DEF Settled, SettledRelease
<1> QED
  BY <1>1, <1>3, <1>4, <1>5, <1>6 DEF Kept, Objects

(* What others change they touch.                                          *)
LEMMA WorldSettles ==
  ASSUME TypeInv, Environment
  PROVE  /\ touched \subseteq touched'
         /\ \A k \in Kept \ touched', phase \in {"down", "up"} : Settled(k, phase) => Settled(k, phase)'
<1>0. UNCHANGED plan /\ ObjectsOK /\ RequestsOK
  BY EnvironmentLeaves DEF TypeInv
<1>1. touched \subseteq touched'
  BY DEF Environment, LateRequest, Arrive, LostRequest, Vanish, ControllerActs, Controller, JobBreaks,
         JobFails, Interference, OthersAct, OtherChange
<1>2. ASSUME NEW k \in Kept \ touched', NEW phase \in {"down", "up"}, Settled(k, phase)
      PROVE  Settled(k, phase)'
  <2>1. CASE LateRequest
    <3>1. PICK r \in late : Arrive(r)
      BY <2>1 DEF LateRequest
    <3>2. ByRequest(r) /\ k # r.kind /\ UNCHANGED release
      BY <2>1, <3>1, <1>0, <1>2 DEF Arrive, ByRequest, RequestsOK, LateRequest, helm
    <3>3. k \in Objects => live'[k] = live[k]
      BY <3>2, <1>0, OnlyTheOne
    <3> QED
      BY <3>2, <3>3, <1>0, <1>2, SettledStays
  <2>2. CASE LostRequest
    BY <2>2, <1>0, <1>2, SettledStays DEF LostRequest, Vanish, helm
  <2>3. CASE ControllerActs \/ JobBreaks
    <3>1. (Controller \/ JobFails) /\ UNCHANGED release
      BY <2>3 DEF ControllerActs, JobBreaks, helm
    <3> QED
      BY <3>1, <1>0, <1>2, ControllersSettle
  <2>4. CASE OthersAct(KindsOf(plan)) /\ UNCHANGED helm
    <3>1. ASSUME NEW kind \in Objects, NEW o, OtherChange(kind, o)
          PROVE  k \in Objects => live'[k] = live[k]
      <4>1. k # kind /\ live' = [live EXCEPT ![kind] = o]
        BY <3>1, <1>2 DEF OtherChange
      <4> QED
        BY <4>1, <1>0 DEF ObjectsOK, LiveObjects, Objects
    <3>2. k \in Objects => live'[k] = live[k]
      BY <2>4, <3>1 DEF OthersAct, Objects
    <3> QED
      BY <2>4, <3>2, <1>0, <1>2, SettledStays DEF helm
  <2>5. CASE /\ OtherOnRelease
             /\ touched' = touched \cup {"release"}
             /\ UNCHANGED <<live, made, late, faults>>
    BY <2>5, <1>0, <1>2, SettledStays
  <2> QED
    BY <2>1, <2>2, <2>3, <2>4, <2>5 DEF Environment, Interference
<1> QED
  BY <1>1, <1>2

(* Helm, for the phase the process is in.                                  *)
LEMMA HelmKeepsPhase ==
  ASSUME PlaceOK, HelmPhase, HelmBegins \/ HelmGoesOn \/ HelmBreaks
  PROVE  HelmPhase'
<1>0. /\ UNCHANGED <<plan, cmd, mode, at>> /\ pc' = "helm" /\ pc # "idle"
  BY DEF HelmBegins, HelmGoesOn, HelmBreaks, HelmFrame, Same
<1>1. Phase' = Phase /\ Phase \in {"down", "up"}
  BY <1>0, SamePlace, AtStep
<1>2. CASE HelmBegins
  <2>1. CASE Phase = "up"
    <3>1. BeginUp(Step)
      BY <1>2, <2>1 DEF HelmBegins
    <3>2. op' # "uninstall" /\ (op' = "returned" => result' # {})
      BY <3>1 DEF BeginUp, Fetch, OpFails, Return
    <3> QED
      BY <3>2, <2>1, <1>0, <1>1 DEF HelmPhase
  <2>2. CASE Phase = "down"
    <3>1. BeginDown
      BY <1>2, <2>2 DEF HelmBegins
    <3>2. op' \in {"uninstall", "returned"} /\ (op' = "returned" => release' = NoRelease)
      BY <3>1 DEF BeginDown, Return
    <3> QED
      BY <3>2, <2>2, <1>0, <1>1 DEF HelmPhase, SettledRelease
  <2> QED
    BY <2>1, <2>2, <1>1
<1>3. CASE HelmGoesOn
  <2>0. HelmWorks(Step) /\ pc = "helm"
    BY <1>3 DEF HelmGoesOn
  <2>1. CASE Finish
    <3>1. op \in {"install", "upgrade", "script"}
      BY <2>1 DEF Finish
    <3>2. Phase = "up"
      BY <2>0, <3>1, <1>1 DEF HelmPhase
    <3>3. op' = "returned" /\ (result' = {} => release' # NoRelease)
      BY <2>1, ReleaseAssumption DEF Finish, OpFails, Return, Statuses
    <3> QED
      BY <3>2, <3>3, <1>0, <1>1 DEF HelmPhase, SettledRelease
  <2>2. CASE Purge
    <3>1. op = "uninstall" /\ op' = "returned" /\ release' = NoRelease
      BY <2>2 DEF Purge, Return
    <3>2. Phase = "down"
      BY <2>0, <3>1, <1>1 DEF HelmPhase
    <3> QED
      BY <3>1, <3>2, <1>0, <1>1 DEF HelmPhase, SettledRelease
  <2>3. CASE GetNamespace(Step) \/ CreateNamespace(Step) \/ Login \/ Locate(Step) \/ History
    <3>1. op \in {"namespace", "create", "login", "locate", "history"}
      BY <2>3 DEF GetNamespace, CreateNamespace, Login, Locate, History
    <3>2. Phase = "up"
      BY <2>0, <3>1, <1>1 DEF HelmPhase
    <3>3. op' # "uninstall" /\ (op' = "returned" => result' # {})
      BY <2>3 DEF GetNamespace, CreateNamespace, Login, Locate, History, Fetch, OpFails, Return
    <3> QED
      BY <3>2, <3>3, <1>0, <1>1 DEF HelmPhase
  <2> QED
    BY <2>0, <2>1, <2>2, <2>3 DEF HelmWorks
<1>4. CASE HelmBreaks
  <2>1. op' = "returned" /\ result' # {}
    BY <1>4 DEF HelmBreaks, HelmFails, Break, PurgeFails, CallBreaks, OpFails, Return
  <2> QED
    BY <2>1, <1>0 DEF HelmPhase
<1> QED
  BY <1>2, <1>3, <1>4

(* PromiseInv holds at the start.                                          *)
LEMMA PromiseInit == Init => PromiseInv
BY DEF Init, PromiseInv, PlansKept, PromisesKept, AtWork, HasDone, HelmPhase, Kept, Phases, Objects

(* What is planned does not change.                                        *)
LEMMA PlansStay ==
  ASSUME UNCHANGED plan
  PROVE  \A k, phase : Planned(k, phase)' <=> Planned(k, phase)
BY DEF Planned, StepsIn

(* A step that goes on or succeeds has settled its object.                 *)
LEMMA Delivers ==
  ASSUME TypeInv, SentInv, PromiseInv, Live, ended = "no",
         Quiet \/ Gives \/ HelmReturns, Advances \/ pc' = "wait",
         NEW k \in Kept \ touched', k = Step.kind, NEW phase \in Phases, phase = Phase
  PROVE  Settled(k, phase)'
<1>1. PlaceOK /\ UNCHANGED plan
  BY QuietMoves, GivesMoves DEF TypeInv, HelmReturns, HelmFrame, Same
<1>2. ASSUME pc \in {"wait", "post"}, Quiet
      PROVE  Settled(k, phase)'
  <2>1. UNCHANGED <<cluster, helm>>
    BY <1>2, QuietMoves
  <2>2. Settled(k, phase)
    BY <1>2, <2>1 DEF PromiseInv, HasDone, cluster
  <2> QED
    BY <1>1, <2>1, <2>2, SettledStays DEF cluster, helm
<1>3. CASE Advances
  <2>1. CASE Answered /\ Granted(Reply(call))
    BY <2>1, GrantSettles
  <2>2. CASE PostEnds
    BY <1>2, <2>2 DEF PostEnds, Quiet
  <2>3. CASE pc = "wait" /\ (RolloutIsReady \/ JobIsComplete)
    BY <1>2, <2>3 DEF Quiet
  <2>4. CASE Step.kind = "exec"
    BY <2>4 DEF Kept, Objects
  <2>5. CASE Step.kind = "release" /\ pc = "helm" /\ result = {}
    <3>1. HelmReturns
      BY <2>5, QuietMoves, GivesMoves
    <3>2. op = "returned" /\ UNCHANGED <<release, live>>
      BY <3>1 DEF HelmReturns, HelmFrame, Collect, Forget
    <3>3. Settled(k, phase)
      BY <2>5, <3>2 DEF PromiseInv, HelmPhase, Settled
    <3> QED
      BY <1>1, <3>2, <3>3, SettledStays
  <2> QED
    BY <1>1, <1>3, <2>1, <2>2, <2>3, <2>4, <2>5, Successes
<1>4. CASE pc' = "wait"
  <2>1. Answered /\ Granted(Reply(call))
    BY <1>4, OnlyAnswersWait
  <2> QED
    BY <2>1, GrantSettles
<1> QED
  BY <1>3, <1>4

(* A step disturbs nothing but the object it is about, of which nothing is *)
(* promised.                                                               *)
LEMMA OthersStay ==
  ASSUME TypeInv, SentInv, PromiseInv, Quiet \/ Gives \/ HelmReturns,
         NEW k \in Kept \ touched', NEW phase \in Phases, promised[k] = phase
  PROVE  k \notin touched /\ (Settled(k, phase) => Settled(k, phase)')
<1>0. UNCHANGED <<plan, release>> /\ ObjectsOK /\ RequestsOK /\ phase # "none"
  BY QuietMoves, GivesMoves DEF TypeInv, HelmReturns, HelmFrame, Same, helm, Collect, Forget, Phases
<1>1. CASE UNCHANGED <<live, touched>>
  BY <1>0, <1>1, SettledStays
<1>2. CASE Answered \/ NoAnswer
  <2>1. pc = "sent" /\ call.kind = Step.kind /\ call.dry = (mode # "live")
    BY <1>2 DEF Answered, NoAnswer, SentInv
  <2>2. CASE call.dry
    <3>1. UNCHANGED <<live, touched>>
      BY <1>2, <2>2 DEF Answered, NoAnswer, Apply
    <3> QED
      BY <3>1, <1>1
  <2>3. CASE ~call.dry
    <3>1. k # call.kind
      BY <2>1, <2>3, <1>0 DEF PromiseInv, AtWork, Live
    <3>2. UNCHANGED live \/ ByRequest(call)
      BY <1>2, <1>0 DEF Answered, NoAnswer, ByRequest, RequestsOK
    <3>3. k \in Objects => live'[k] = live[k]
      BY <3>1, <3>2, <1>0, OnlyTheOne
    <3>4. k \notin touched
      BY <1>2, <3>1 DEF Answered, NoAnswer
    <3> QED
      BY <3>3, <3>4, <1>0, SettledStays
  <2> QED
    BY <2>1, <2>2, <2>3
<1>3. Quiet \/ HelmReturns \/ CallFails \/ (\E r : Refused(r)) => UNCHANGED <<live, touched>>
  BY QuietMoves DEF cluster, HelmReturns, HelmFrame, CallFails, Refused
<1> QED
  BY <1>1, <1>2, <1>3 DEF Gives

(* A step of the process itself.                                           *)
LEMMA PromiseMove ==
  ASSUME TypeInv, SentInv, JobInv, PromiseInv, ended = "no", Quiet \/ Gives \/ HelmReturns
  PROVE  PromiseInv'
<1>1. /\ Moves /\ pc # "idle" /\ UNCHANGED <<plan, cmd, mode, runs>> /\ PlaceOK /\ promised \in Promises
  BY QuietMoves, GivesMoves DEF HelmReturns, HelmFrame, Same, Moves, TypeInv, JobInv
<1>2. pc' \in {"idle", "begin", "wait", "post"} /\ at \in Nat
  <2>1. at \in Nat
    BY <1>1 DEF PlaceOK
  <2> QED
    BY <1>1, <2>1, MovesKeepPlace
<1>3. ASSUME pc' \in {"wait", "post"}
      PROVE  /\ Live /\ Live' /\ Step' = Step /\ Phase' = Phase /\ UNCHANGED promised
             /\ Advances \/ pc' = "wait"
  <2>1. Live /\ UNCHANGED at
    BY <1>1, <1>3, MovePlaces DEF Waits
  <2>2. UNCHANGED promised
    BY <1>1, <1>3 DEF Moves, StepDone, AfterMain, AfterCall, StepFails
  <2> QED
    BY <1>1, <1>3, <2>1, <2>2, SamePlace DEF Advances
<1>4. promised' = promised \/ (Live /\ Advances /\ promised' = [promised EXCEPT ![Step.kind] = Phase])
  BY <1>1, <1>2 DEF Advances, Moves, StepDone, AfterMain, AfterCall, StepFails
<1>5. Planned(Step.kind, Phase) /\ Step.kind \in Objects \cup {"release", "exec"}
  BY <1>1, StepIsTheOne, AtStep
<1>6. PlansKept'
  <2>1. ASSUME NEW k \in Kept, NEW phase \in Phases, promised'[k] = phase
        PROVE  Planned(k, phase)
    BY <2>1, <1>1, <1>4, <1>5 DEF PromiseInv, PlansKept, Promises, Kept
  <2> QED
    BY <2>1, <1>1, PlansStay DEF PlansKept
<1>7. PromisesKept'
  <2>1. ASSUME NEW k \in Kept \ touched', NEW phase \in Phases, promised'[k] = phase
        PROVE  Settled(k, phase)'
    <3>1. CASE promised[k] = phase
      <4>1. k \notin touched /\ (Settled(k, phase) => Settled(k, phase)')
        BY <3>1, OthersStay
      <4> QED
        BY <3>1, <4>1 DEF PromiseInv, PromisesKept
    <3>2. CASE promised[k] # phase
      <4>1. Live /\ Advances /\ k = Step.kind /\ phase = Phase
        BY <2>1, <3>2, <1>1, <1>4 DEF Promises, Kept
      <4> QED
        BY <4>1, Delivers
    <3> QED
      BY <3>1, <3>2
  <2> QED
    BY <2>1 DEF PromisesKept
<1>8. AtWork'
  <2>1. ASSUME pc' \in {"wait", "post"}, NEW k \in Kept, k = Step.kind
        PROVE  promised[k] = "none"
    <3>1. pc \in {"sent", "wait", "post", "helm"}
      <4>1. CASE pc' = "wait"
        BY <4>1, OnlyAnswersWait DEF Answered
      <4>2. CASE pc' = "post"
        <5>1. \/ Answered \/ PostEnds \/ pc = "wait" \/ Step.kind = "exec" \/ pc = "helm"
          BY <4>2, <1>1, <1>3, Successes
        <5> QED
          BY <5>1, <2>1 DEF Answered, PostEnds, Kept, Objects
      <4> QED
        BY <2>1, <4>1, <4>2
    <3> QED
      BY <2>1, <3>1, <1>3 DEF PromiseInv, AtWork
  <2> QED
    BY <2>1, <1>2, <1>3 DEF AtWork
<1>9. HasDone'
  <2>1. ASSUME pc' \in {"wait", "post"},
               NEW k \in Kept \ touched', NEW phase \in Phases, k = Step.kind, phase = Phase
        PROVE  Settled(k, phase)'
    BY <2>1, <1>3, Delivers
  <2> QED
    BY <2>1, <1>3 DEF HasDone
<1>10. HelmPhase'
  BY <1>2 DEF HelmPhase
<1> QED
  BY <1>6, <1>7, <1>8, <1>9, <1>10 DEF PromiseInv

(* A request is sent, or Helm is at work.                                  *)
LEMMA PromiseSend ==
  ASSUME TypeInv, SentInv, JobInv, PromiseInv, Send \/ HelmBegins \/ HelmGoesOn \/ HelmBreaks
  PROVE  PromiseInv'
<1>1. /\ PlaceOK /\ promised \in Promises /\ pc # "idle"
      /\ UNCHANGED <<plan, cmd, mode, at, live>> /\ pc' \in {"sent", "helm"}
      /\ Step.kind \in Objects \cup {"release", "exec"}
  <2>1. /\ pc # "idle" /\ UNCHANGED <<plan, cmd, mode, at, live>> /\ pc' \in {"sent", "helm"}
    BY DEF Send, ToServer, HelmBegins, HelmGoesOn, HelmBreaks, HelmFrame, Same, cluster
  <2> QED
    BY <2>1, AtStep DEF TypeInv, JobInv
<1>2. Live' = Live /\ Step' = Step
  BY <1>1, SamePlace
<1>3. Live => promised' = [promised EXCEPT ![Step.kind] = "none"]
  <2>1. CASE Send
    BY <2>1 DEF Send
  <2>2. CASE HelmBegins
    BY <2>2 DEF HelmBegins
  <2>3. CASE HelmGoesOn \/ HelmBreaks
    <3>1. Step.kind = "release" /\ pc = "helm" /\ UNCHANGED promised
      BY <2>3 DEF HelmGoesOn, HelmBreaks, SentInv
    <3>2. Live => promised[Step.kind] = "none"
      BY <3>1 DEF PromiseInv, AtWork, Kept
    <3> QED
      BY <1>1, <3>1, <3>2 DEF Promises
  <2> QED
    BY <2>1, <2>2, <2>3
<1>4. \/ UNCHANGED <<touched, release>>
      \/ Live /\ Step.kind = "release" /\ touched \ {"release"} \subseteq touched'
  <2>1. CASE Send
    BY <2>1 DEF Send, cluster, helm
  <2>2. CASE HelmBegins \/ HelmGoesOn \/ HelmBreaks
    <3>1. Live /\ Step.kind = "release"
      BY <2>2, HelmIsLive DEF TypeInv, SentInv, HelmBegins, HelmGoesOn, HelmBreaks
    <3>2. touched \ {"release"} \subseteq touched'
      BY <2>2 DEF HelmBegins, HelmGoesOn, HelmBreaks
    <3> QED
      BY <3>1, <3>2
  <2> QED
    BY <2>1, <2>2
<1>5. ~Live => UNCHANGED promised
  <2>1. ~Live => Send
    BY <1>1, HelmIsLive DEF HelmGoesOn, HelmBreaks, SentInv
  <2> QED
    BY <2>1 DEF Send
<1>6. ASSUME NEW k \in Kept, NEW phase \in Phases, promised'[k] = phase
      PROVE  promised[k] = phase /\ (Live => k # Step.kind)
  BY <1>1, <1>3, <1>5, <1>6 DEF Promises, Kept, Phases
<1>7. PlansKept'
  BY <1>1, <1>6, PlansStay DEF PlansKept, PromiseInv
<1>8. ASSUME NEW k \in Kept \ touched', NEW phase \in Phases, promised'[k] = phase
      PROVE  Settled(k, phase)'
  <2>1. promised[k] = phase /\ k \notin touched /\ (k = "release" => UNCHANGED release)
    BY <1>4, <1>6, <1>8
  <2>2. Settled(k, phase)
    BY <2>1, <1>8 DEF PromiseInv, PromisesKept
  <2> QED
    BY <2>1, <2>2, <1>1, SettledStays
<1>9. AtWork'
  BY <1>1, <1>2, <1>3 DEF AtWork, Promises, Kept
<1>10. HelmPhase'
  BY <1>1, HelmKeepsPhase DEF PromiseInv, HelmPhase, Send
<1> QED
  BY <1>1, <1>7, <1>8, <1>9, <1>10 DEF PromiseInv, PromisesKept, HasDone

(* A step of the cluster.                                                  *)
LEMMA PromiseWorld ==
  ASSUME TypeInv, PromiseInv, Environment \/ UNCHANGED vars
  PROVE  PromiseInv'
<1>1. UNCHANGED <<plan, cmd, mode, pc, at, promised>>
  BY EnvironmentLeaves DEF vars, process, history
<1>2. Step' = Step /\ Phase' = Phase /\ Live' = Live
  BY <1>1, SamePlace
<1>3. /\ touched \subseteq touched'
      /\ \A k \in Kept \ touched', phase \in Phases : Settled(k, phase) => Settled(k, phase)'
  <2>1. CASE Environment
    BY <2>1, WorldSettles DEF Phases
  <2>2. CASE UNCHANGED vars
    BY <2>2, SettledStays DEF vars, cluster, helm
  <2> QED
    BY <2>1, <2>2
<1>4. PlansKept' /\ PromisesKept' /\ AtWork' /\ HasDone'
  <2>1. PlansKept'
    BY <1>1, PlansStay DEF PromiseInv, PlansKept
  <2>2. PromisesKept'
    BY <1>1, <1>3 DEF PromiseInv, PromisesKept
  <2>3. AtWork' /\ HasDone'
    BY <1>1, <1>2, <1>3 DEF PromiseInv, AtWork, HasDone
  <2> QED
    BY <2>1, <2>2, <2>3
<1>5. HelmPhase'
  <2>1. pc = "helm" => Phase \in {"down", "up"}
    BY AtStep DEF TypeInv
  <2>2. UNCHANGED <<op, result>>
    BY DEF Environment, LateRequest, LostRequest, ControllerActs, JobBreaks, Interference,
           OtherOnRelease, vars, helm
  <2>3. UNCHANGED release \/ (release = "deployed" /\ release' = "uninstalled")
    BY DEF Environment, LateRequest, LostRequest, ControllerActs, JobBreaks, Interference,
           OtherOnRelease, vars, helm
  <2>4. SettledRelease(Phase) => SettledRelease(Phase)'
    BY <1>2, <2>3, ReleaseAssumption DEF SettledRelease, Statuses
  <2> QED
    BY <1>1, <1>2, <2>2, <2>4 DEF PromiseInv, HelmPhase
<1> QED
  BY <1>4, <1>5 DEF PromiseInv

(* PromiseInv is kept by every step.                                       *)
LEMMA PromiseStep == TypeInv /\ SentInv /\ JobInv /\ FreshInv /\ PromiseInv /\ [Next]_vars => PromiseInv'
<1> SUFFICES ASSUME TypeInv, SentInv, JobInv, FreshInv, PromiseInv, [Next]_vars
             PROVE  PromiseInv'
  OBVIOUS
<1>1. CASE (\E c \in Commands : Start(c)) \/ Kill
  <2>1. UNCHANGED <<plan, promised, live, touched, release>> /\ pc' \in {"idle", "begin"}
    BY <1>1 DEF Start, Kill, Same, Forget, history, cluster, helm
  <2>2. PlansKept'
    BY <2>1, PlansStay DEF PromiseInv, PlansKept
  <2>3. PromisesKept'
    BY <2>1, SettledStays DEF PromiseInv, PromisesKept
  <2> QED
    BY <2>1, <2>2, <2>3 DEF PromiseInv, AtWork, HasDone, HelmPhase
<1>2. CASE Quiet \/ Gives \/ HelmReturns
  <2>1. ended = "no"
    BY <1>2, QuietMoves, GivesMoves DEF FreshInv, HelmReturns
  <2> QED
    BY <1>2, <2>1, PromiseMove
<1> QED
  BY <1>1, <1>2, PromiseSend, PromiseWorld, Cases DEF Environment

(* In every reachable state all that is promised and untouched is          *)
(* settled.                                                                *)
LEMMA PromiseHoldsInv == Spec => [](TypeInv /\ SentInv /\ JobInv /\ FreshInv /\ PromiseInv)
BY FreshHolds, PromiseInit, PromiseStep, PTL DEF Spec

(* An object that is settled shows no difference.                          *)
LEMMA SettledIsClean ==
  ASSUME TypeInv, NEW k \in Kept, NEW phase \in Phases, Planned(k, phase), Settled(k, phase)
  PROVE  \/ LineOK(phase, StepOf(k, phase), ShownTo(k))
         \/ k = "pvc" /\ live.pvc.terminating
<1>1. /\ StepOf(k, phase).kind = k
      /\ StepOf(k, phase).replicas \in {0, 1, Unset}
  <2> DEFINE S == {StepsIn(phase)[i] : i \in DOMAIN StepsIn(phase)}
  <2>1. StepOf(k, phase) = CHOOSE s \in S : s.kind = k
    BY DEF StepOf, StepsIn
  <2>2. \E s \in S : s.kind = k
    BY DEF Planned
  <2>3. S \subseteq StepsOf(plan)
    BY DEF StepsIn, StepsOf
  <2> HIDE DEF S
  <2>4. StepOf(k, phase) \in S /\ StepOf(k, phase).kind = k
    BY <2>1, <2>2
  <2> QED
    BY <2>3, <2>4, PlansAssumption DEF TypeInv, PlaceOK
<1>2. CASE k = "statefulset"
  <2>1. live.statefulset \in StatefulSet
    BY DEF TypeInv, ObjectsOK, LiveObjects
  <2>2. Shown(k) \in Scale /\ Shown(k).replicas = live.statefulset.replicas
    BY <1>2, <2>1 DEF Shown, Scale, StatefulSet, PodStates
  <2>3. Shown(k) # Absent /\ Shown(k).replicas # Unset
    <3>1. Shown(k) # Absent
      BY <2>2, AbsentAssumption
    <3>2. live.statefulset.replicas # Unset
      BY <2>1, ReplicaAssumption DEF StatefulSet
    <3> QED
      BY <2>2, <3>1, <3>2
  <2>4. compareWorkload(phase, StepOf(k, phase), Shown(k))
    BY <1>2, <2>2, <2>3 DEF compareWorkload, Settled, SettledStatefulset
  <2> QED
    BY <1>1, <1>2, <2>4 DEF LineOK, ShownTo, Scalable
<1>3. CASE k = "cronjob"
  <2>1. compareCronJob(phase, Shown(k))
    <3>1. live.cronjob # Absent /\ live.cronjob.suspend = (phase = "down")
      BY <1>3 DEF Settled, SettledCronJob
    <3>2. live.cronjob.suspend \in BOOLEAN
      BY <3>1 DEF TypeInv, ObjectsOK, LiveObjects, CronJob
    <3> QED
      BY <1>3, <3>1, <3>2 DEF compareCronJob, Shown
  <2> QED
    BY <1>1, <1>3, <2>1 DEF LineOK, ShownTo, Scalable
<1>4. CASE k = "pvc"
  BY <1>1, <1>4 DEF LineOK, ShownTo, Shown, Scalable, Settled, SettledClaim
<1>5. CASE k = "job"
  BY <1>1, <1>5 DEF LineOK, ShownTo, Shown, Scalable, Settled, SettledJob
<1>6. CASE k = "release"
  <2>1. [status |-> release] # Absent \/ release = NoRelease
    BY StepsAssumption DEF TypeInv, ReleaseOK, HelmTypeOK
  <2> QED
    BY <1>1, <1>6, <2>1 DEF LineOK, ShownTo, Scalable, Settled, SettledRelease
<1> QED
  BY <1>2, <1>3, <1>4, <1>5, <1>6 DEF Kept, Objects

(* What a successful step has announced is so until somebody else changes  *)
(* it: whatever became of the attempts, the replies and the processes      *)
(* before and after.                                                       *)
THEOREM PromisesAreKept == Spec => []PromiseHolds
<1>1. ASSUME TypeInv, JobInv, PromiseInv
      PROVE  PromiseHolds
  <2>1. ASSUME NEW k \in Kept \ touched, promised[k] # "none"
        PROVE  \/ LineOK(promised[k], StepOf(k, promised[k]), ShownTo(k))
               \/ k = "pvc" /\ live.pvc.terminating
    <3>1. PICK phase \in Phases : promised[k] = phase
      BY <1>1, <2>1 DEF JobInv, Promises, Kept, Phases
    <3>2. Planned(k, phase) /\ Settled(k, phase)
      BY <1>1, <2>1, <3>1 DEF PromiseInv, PlansKept, PromisesKept
    <3> QED
      BY <1>1, <3>1, <3>2, SettledIsClean
  <2> QED
    BY <2>1 DEF PromiseHolds, Kept
<1> QED
  BY <1>1, PromiseHoldsInv, PTL
=============================================================================
