---------------------------- MODULE RulesProofs -----------------------------
(***************************************************************************)
(* What holds of the decisions in Rules whatever they are made about: all  *)
(* failures of the modelled classes, configurations of any number of items *)
(* with any options, views of pipelines of any length and any counts.      *)
(***************************************************************************)
EXTENDS Rules, InductionLemmas, TLAPS

-----------------------------------------------------------------------------
(* A verdict is the decision on its subject.                               *)

RetryVerdict(f) == IF IsRetriable(StepError(f)) THEN {"retry"} ELSE {"final"}

LoadVerdict(c) == IF Load(c) THEN {"loaded"} ELSE {"rejected"}

VerdictInv ==
  /\ subject \in Failures \cup Configurations \cup Views
  /\ \/ verdict = {"open"}
     \/ subject.about = "failure" /\ verdict = RetryVerdict(subject)
     \/ subject.about = "configuration" /\ verdict = LoadVerdict(subject)
     \/ subject.about = "view" /\ verdict = ReadersOf(subject)

(* A decision that was made is the one the code makes.                     *)
LEMMA VerdictHolds == Spec => []VerdictInv
<1>1. Init => VerdictInv
  BY DEF Init, VerdictInv
<1>2. VerdictInv /\ [Next]_vars => VerdictInv'
  <2> SUFFICES ASSUME VerdictInv, [Next]_vars
               PROVE  VerdictInv'
    OBVIOUS
  <2>1. CASE DecideRetry
    BY <2>1 DEF DecideRetry, VerdictInv, RetryVerdict
  <2>2. CASE LoadConfiguration
    BY <2>2 DEF LoadConfiguration, VerdictInv, LoadVerdict
  <2>3. CASE Look
    BY <2>3 DEF Look, VerdictInv
  <2>4. CASE Decided \/ UNCHANGED vars
    BY <2>4 DEF Decided, vars, VerdictInv
  <2> QED
    BY <2>1, <2>2, <2>3, <2>4 DEF Next
<1> QED
  BY <1>1, <1>2, PTL DEF Spec

(* What a subject says it is about is what it is.                          *)
LEMMA Subjects ==
  ASSUME VerdictInv
  PROVE  /\ subject.about = "failure" => subject \in Failure
         /\ subject.about = "configuration" => subject \in Configurations
         /\ subject.about = "view" => subject \in Views
BY FailuresAssumption, ConfigurationsAssumption, ViewsAssumption DEF VerdictInv, Failure

-----------------------------------------------------------------------------
(* Failures.                                                               *)

(* An error that stands for a permanent answer is not retried.             *)
LEMMA PermanentError ==
  ASSUME NEW e, e.is \in {{"notfound"}, {"forbidden"}}
  PROVE  ~IsRetriable(e)
BY DEF IsRetriable

(* What WithText and joinSentinel leave to be found in the chain.          *)
LEMMA Joined ==
  ASSUME NEW words, NEW sentinel, NEW e
  PROVE  WithText(words, joinSentinel(sentinel, e)).is = {sentinel}
BY DEF WithText, joinSentinel

(* The answer of the API is recognised by its status.                      *)
LEMMA PermanentByAPI ==
  ASSUME NEW words, NEW told \in {"NotFound", "Forbidden"}
  PROVE  ~IsRetriable(WrapAPIError(Status(told), words))
<1>1. Status(told).api = told
  BY DEF Status
<1>2. CASE told = "NotFound"
  BY <1>1, <1>2, Joined, PermanentError DEF WrapAPIError
<1>3. CASE told = "Forbidden"
  BY <1>1, <1>3, Joined, PermanentError DEF WrapAPIError
<1> QED
  BY <1>2, <1>3

(* Of a process it is recognised by its words, wherever they are.          *)
LEMMA PermanentWords ==
  ASSUME NEW f \in Failure, f.told \in {"NotFound", "Forbidden"}
  PROVE  LET p == ProcessFailure(f)
         IN /\ p.cause = Plain({})
            /\ {"notfound", "forbidden"} \cap (p.output \cup p.rest \cup p.cause.says) # {}
<1>1. Words(f.told) \in {{"notfound"}, {"forbidden"}}
  BY DEF Words, Status
<1>2. ProcessFailure(f).cause = Plain({})
  BY DEF ProcessFailure
<1>3. Words(f.told) \subseteq ProcessFailure(f).output \cup ProcessFailure(f).rest
  BY DEF ProcessFailure
<1> QED
  BY <1>1, <1>2, <1>3

(* A refusal told by a script or a binary is not retried,                  *)
LEMMA PermanentByShell ==
  ASSUME NEW f \in Failure, f.told \in {"NotFound", "Forbidden"}
  PROVE  ~IsRetriable(WrapSubprocess(ProcessFailure(f)))
<1>1. PICK p : p = ProcessFailure(f)
  OBVIOUS
<1>2. PICK says : says = p.output \cup p.rest \cup p.cause.says
  OBVIOUS
<1>3. ~p.cause.sub
  BY <1>1, PermanentWords DEF Plain
<1>4. PICK class : class = classifySubprocess(says, p.exit)
  OBVIOUS
<1>5. class \in {"notfound", "forbidden"}
  <2>1. {"notfound", "forbidden"} \cap says # {}
    BY <1>1, <1>2, PermanentWords
  <2>2. CASE says \cap {"notfound", "missing"} # {}
    BY <1>4, <2>2 DEF classifySubprocess
  <2>3. CASE says \cap {"notfound", "missing"} = {}
    <3>1. says \cap {"forbidden", "denied"} # {}
      BY <2>1, <2>3
    <3> QED
      BY <1>4, <2>3, <3>1 DEF classifySubprocess
  <2> QED
    BY <2>2, <2>3
<1>6. PICK base : WrapSubprocess(p) = WithText(p.command, joinSentinel(class, base))
  BY <1>2, <1>3, <1>4, <1>5 DEF WrapSubprocess
<1>7. WrapSubprocess(p).is = {class}
  BY <1>6, Joined
<1> QED
  BY <1>1, <1>5, <1>7, PermanentError

(* nor one told by an exec in a pod.                                       *)
LEMMA PermanentByExec ==
  ASSUME NEW f \in Failure, f.told \in {"NotFound", "Forbidden"}
  PROVE  ~IsRetriable(WrapPodExec(ProcessFailure(f)))
<1>1. PICK p : p = ProcessFailure(f)
  OBVIOUS
<1>2. PICK says : says = p.output \cup p.rest \cup p.cause.says
  OBVIOUS
<1>3. {"notfound", "forbidden"} \cap says # {}
  BY <1>1, <1>2, PermanentWords
<1>4. \E base : \/ WrapPodExec(p) = WithText(p.command, joinSentinel("notfound", base))
                \/ WrapPodExec(p) = WithText(p.command, joinSentinel("forbidden", base))
  BY <1>2, <1>3 DEF WrapPodExec
<1>5. WrapPodExec(p).is \in {{"notfound"}, {"forbidden"}}
  BY <1>4, Joined
<1> QED
  BY <1>1, <1>5, PermanentError

(* One that the Helm SDK passes on has no sentinel and no status to retry, *)
(* and is not retried as long as its text does not mislead.                *)
LEMMA PermanentByHelm ==
  ASSUME NEW f \in Failure, f.path = "helm", f.told \in {"NotFound", "Forbidden"}, ~Misleading(f)
  PROVE  ~IsRetriable(HelmError(f))
<1>1. PICK e : e = IF f.chained /\ f.told # "none" THEN Status(f.told) ELSE Plain(Words(f.told))
  OBVIOUS
<1>2. HelmError(f) = WithText(f.command \cup f.noise, e)
  BY <1>1 DEF HelmError
<1>3. e \in {Status(f.told), Plain(Words(f.told))}
  BY <1>1
<1>4. Status(f.told).says \in {{"notfound"}, {"forbidden"}}
  BY DEF Status
<1>5. /\ e.is = {} /\ e.api \in {"NotFound", "Forbidden", "none"}
      /\ e.says \in {{"notfound"}, {"forbidden"}}
  <2>1. CASE e = Status(f.told)
    BY <2>1, <1>4 DEF Status
  <2>2. CASE e = Plain(Words(f.told))
    BY <2>2, <1>4 DEF Plain, Words
  <2> QED
    BY <1>3, <2>1, <2>2
<1>6. /\ WithText(f.command \cup f.noise, e).is = e.is
      /\ WithText(f.command \cup f.noise, e).api = e.api
      /\ WithText(f.command \cup f.noise, e).says = e.says \cup (f.command \cup f.noise)
  <2>1. CASE e = Status(f.told)
    BY <2>1 DEF Status, WithText
  <2>2. CASE e = Plain(Words(f.told))
    BY <2>2 DEF Plain, WithText
  <2> QED
    BY <1>3, <2>1, <2>2
<1>7. PICK w : w = HelmError(f)
  OBVIOUS
<1>8. w.is = {} /\ w.api = e.api /\ w.says = e.says \cup (f.command \cup f.noise)
  BY <1>2, <1>5, <1>6, <1>7
<1>9. ~retriableAPIStatus(w)
  BY <1>5, <1>8 DEF retriableAPIStatus
<1>10. ~retriableMessage(w.says)
  BY <1>5, <1>8 DEF retriableMessage, Misleading
<1>11. ~IsRetriable(w)
  BY <1>5, <1>8, <1>9, <1>10 DEF IsRetriable
<1> QED
  BY <1>7, <1>11

(* What the cluster refuses for good is never asked for again, whatever is *)
(* said with it, by client-go, kubectl, helm, a script or an exec in a pod *)
(* (WrapAPIError, classifySubprocess, WrapPodExec); and by the Helm SDK,   *)
(* unless its text has a phrase of retriableMessage.                       *)
THEOREM RefusalsAreFinal == Spec => []PermanentIsFinal
<1>1. VerdictInv => PermanentIsFinal
  <2> SUFFICES ASSUME VerdictInv, subject.about = "failure",
                      subject.told \in {"NotFound", "Forbidden"}, ~Misleading(subject)
               PROVE  "retry" \notin verdict
    BY DEF PermanentIsFinal
  <2>1. subject \in Failure
    BY Subjects
  <2>2. ~IsRetriable(StepError(subject))
    <3>1. CASE subject.path = "helm"
      BY <2>1, <3>1, PermanentByHelm DEF StepError
    <3>2. CASE subject.path \in {"api", "shell", "exec"}
      BY <2>1, <3>2, PermanentByAPI, PermanentByShell, PermanentByExec DEF StepError
    <3>3. subject.path \in {"api", "helm", "shell", "exec"}
      BY <2>1 DEF Failure
    <3> QED
      BY <3>1, <3>2, <3>3
  <2> QED
    BY <2>2 DEF VerdictInv, RetryVerdict
<1> QED
  BY <1>1, VerdictHolds, PTL

-----------------------------------------------------------------------------
(* Configurations.                                                         *)

(* An option an item has, in a pipeline that is loaded, has a value its    *)
(* parser takes.                                                           *)
LEMMA OptionParsed ==
  ASSUME NEW item, parsePipelineStep(item), ~Custom(item), NEW o \in DOMAIN item.options
  PROVE  Value(item, o) = item.options[o] /\ Value(item, o) \in OptionValues(o)
BY DEF parsePipelineStep, parseMapStep, Value

(* The text of an option that must be there survives the trimming.         *)
LEMMA TextThere ==
  ASSUME NEW item, parsePipelineStep(item), ~Custom(item),
         NEW o \in {"container", "manifest"}, Value(item, o) # "none"
  PROVE  Trimmed(Value(item, o)) = "text"
<1>1. o \in DOMAIN item.options
  BY DEF Value
<1>2. Value(item, o) \in Texts
  BY <1>1, OptionParsed DEF OptionValues
<1> QED
  BY <1>2 DEF Texts, StringValues, Trimmed

(* What each kind of item needs, from what is validated of its pipeline.   *)
LEMMA ItemUsable ==
  ASSUME NEW cfg, NEW phase \in {"down", "up"}, NEW items, NEW i \in DOMAIN items,
         parsePipelineList(items), validateExecSteps(items), validateJobSteps(items, phase),
         items[i].kind = "release" => Trimmed(cfg.workspace) = "text",
         ChartInPlace(items[i], phase, cfg)
  PROVE  Usable(items[i], phase, cfg)
<1> DEFINE item == items[i]
<1>1. parsePipelineStep(item)
  BY DEF parsePipelineList
<1>2. CASE item.kind = "custom"
  <2>1. item.path \in Texts
    BY <1>1, <1>2 DEF parsePipelineStep, Custom, parseCustomMapStep
  <2> QED
    BY <1>2, <2>1 DEF Usable, Texts, StringValues
<1>3. CASE item.kind = "exec"
  <2>1. Value(item, "container") # "none" /\ Value(item, "command") = "list"
    BY <1>3 DEF validateExecSteps
  <2>2. Trimmed(Value(item, "container")) = "text"
    BY <1>1, <1>3, <2>1, TextThere DEF Custom
  <2> QED
    BY <1>3, <2>1, <2>2 DEF Usable
<1>4. CASE item.kind = "job"
  <2>1. ASSUME phase = "up"
        PROVE  Trimmed(Value(item, "manifest")) = "text"
    <3>1. Value(item, "manifest") # "none"
      BY <1>4, <2>1 DEF validateJobSteps
    <3> QED
      BY <1>1, <1>4, <3>1, TextThere DEF Custom
  <2> QED
    BY <1>4, <2>1 DEF Usable
<1>5. CASE item.kind = "release"
  BY <1>5 DEF Usable, ChartInPlace
<1>6. CASE item.kind \in {"deployment", "statefulset", "pvc", "cronjob"}
  BY <1>6 DEF Usable
<1>7. item.kind \in StepKinds \cup {"custom"}
  BY <1>1 DEF parsePipelineStep, Custom, parseMapStep
<1> QED
  BY <1>2, <1>3, <1>4, <1>5, <1>6, <1>7 DEF StepKinds

(* Load asks for everything the runner will ask for but the charts.        *)
LEMMA LoadedUsable ==
  ASSUME NEW cfg, Load(cfg)
  PROVE  /\ ModeIsKnown(cfg)
         /\ \A x \in Items(cfg) : ChartInPlace(x[2], x[1], cfg) => Usable(x[2], x[1], cfg)
<1>1. ModeIsKnown(cfg)
  BY DEF Load, validateSchemaAndRun, validateRunExecution, ValidOr, Named, ModeIsKnown,
         ExecutionMode
<1>2. Has(cfg.down, "release") \/ Has(cfg.up, "release") => Trimmed(cfg.workspace) = "text"
  BY DEF Load, validateHelmWorkspaceForReleases
<1>3. \A i \in DOMAIN cfg.down :
        ChartInPlace(cfg.down[i], "down", cfg) => Usable(cfg.down[i], "down", cfg)
  <2> TAKE i \in DOMAIN cfg.down
  <2>1. parsePipelineList(cfg.down) /\ validateExecSteps(cfg.down)
          /\ validateJobSteps(cfg.down, "down")
    BY DEF Load
  <2>2. cfg.down[i].kind = "release" => Trimmed(cfg.workspace) = "text"
    BY <1>2 DEF Has
  <2> QED
    BY <2>1, <2>2, ItemUsable
<1>4. \A i \in DOMAIN cfg.up :
        ChartInPlace(cfg.up[i], "up", cfg) => Usable(cfg.up[i], "up", cfg)
  <2> TAKE i \in DOMAIN cfg.up
  <2>1. parsePipelineList(cfg.up) /\ validateExecSteps(cfg.up)
          /\ validateJobSteps(cfg.up, "up")
    BY DEF Load
  <2>2. cfg.up[i].kind = "release" => Trimmed(cfg.workspace) = "text"
    BY <1>2 DEF Has
  <2> QED
    BY <2>1, <2>2, ItemUsable
<1> QED
  BY <1>1, <1>3, <1>4 DEF Items

(* A configuration that Load accepts, with any items and any options, names*)
(* a mode the executors know and has for each of its steps all that runner *)
(* and executors will ask of the configuration; for an up release of the   *)
(* Helm SDK, given that there is a chart, which Load does not ask for.     *)
THEOREM LoadedIsUsable == Spec => []LoadedStepsRun
<1>1. VerdictInv => LoadedStepsRun
  <2> SUFFICES ASSUME VerdictInv, subject.about = "configuration", "loaded" \in verdict
               PROVE  /\ ModeIsKnown(subject)
                      /\ \A x \in Items(subject) :
                           ChartInPlace(x[2], x[1], subject) => Usable(x[2], x[1], subject)
    BY DEF LoadedStepsRun
  <2>1. Load(subject)
    BY DEF VerdictInv, LoadVerdict
  <2> QED
    BY <2>1, LoadedUsable
<1> QED
  BY <1>1, VerdictHolds, PTL

-----------------------------------------------------------------------------
(* Views.                                                                  *)

(* Each workload of a pipeline has a first step, and it is looked at.      *)
LEMMA FirstIsLookedAt ==
  ASSUME NEW up, NEW len \in Nat, DOMAIN up = 1..len,
         NEW kinds, NEW i \in DOMAIN up, up[i].kind \in kinds
  PROVE  \E j \in FirstOfEach(up, kinds) :
           /\ j \in DOMAIN up
           /\ up[j].kind = up[i].kind /\ up[j].name = up[i].name
<1>1. PICK S : S = {j \in DOMAIN up : up[j].kind = up[i].kind /\ up[j].name = up[i].name}
  OBVIOUS
<1>2. S \in SUBSET Nat /\ S # {}
  BY <1>1
<1>3. PICK m \in S : \A n \in S : m <= n
  BY <1>2, LeastExists
<1>4. m \in DOMAIN up /\ up[m].kind = up[i].kind /\ up[m].name = up[i].name
  BY <1>1
<1>5. ASSUME NEW j \in 1..(m - 1)
      PROVE  <<up[j].kind, up[j].name>> # <<up[m].kind, up[m].name>>
  <2>1. j \in DOMAIN up /\ ~(m <= j)
    BY <1>4
  <2>2. j \notin S
    BY <2>1, <1>3
  <2> QED
    BY <2>1, <2>2, <1>1, <1>4
<1> QED
  BY <1>4, <1>5 DEF FirstOfEach

(* A count the API can hold is converted to itself; no conversion yields   *)
(* no value.                                                               *)
LEMMA Conversion ==
  /\ \A n \in Int : Int32(n) \in Int
  /\ \A n \in 0..MaxInt32 : Int32(n) = n
<1>1. PICK modulus \in Nat \ {0} : modulus = 2 * (MaxInt32 + 1)
  BY ReplicaAssumption
<1>2. \A n \in Int : n % modulus \in 0..(modulus - 1)
  OBVIOUS
<1>3. \A n \in 0..(modulus - 1) : n % modulus = n
  OBVIOUS
<1>4. MaxInt32 \in Nat /\ 0..MaxInt32 \subseteq 0..(modulus - 1)
  BY <1>1, ReplicaAssumption
<1>5. \A n \in Int :
        Int32(n) = IF n % modulus <= MaxInt32 THEN n % modulus ELSE (n % modulus) - modulus
  BY <1>1 DEF Int32
<1> QED
  BY <1>2, <1>3, <1>4, <1>5

(* What is known of the steps and workloads of a view.                     *)
LEMMA ViewTypes ==
  ASSUME NEW view \in Views
  PROVE  /\ \E S : view.up \in Seq(S)
         /\ \E len \in Nat : DOMAIN view.up = 1..len
         /\ \A i \in DOMAIN view.up : ObjectOf(view)[view.up[i]] = view.live[view.up[i].name]
         /\ \A i \in DOMAIN view.up : view.up[i].kind \in Scalable =>
              /\ DesiredReplicas("up", view.up[i]) \in Int
              /\ Or1(view.up[i].replicas) = DesiredReplicas("up", view.up[i])
              /\ view.live[view.up[i].name] # Absent =>
                   /\ view.live[view.up[i].name].replicas \in 0..MaxInt32 \cup {Unset}
                   /\ view.live[view.up[i].name].progressing \in {"fine", "failed", "silent"}
<1>1. /\ view.up \in Seq({view.up[i] : i \in DOMAIN view.up})
      /\ \A i \in DOMAIN view.up : view.up[i].kind \in Scalable =>
           /\ view.up[i].replicas \in Int \cup {Unset}
           /\ view.live[view.up[i].name] # Absent =>
                /\ view.live[view.up[i].name].replicas \in 0..MaxInt32 \cup {Unset}
                /\ view.live[view.up[i].name].progressing \in {"fine", "failed", "silent"}
  BY ViewsAssumption
<1>2. \E S : view.up \in Seq(S)
  BY <1>1
<1>3. \E len \in Nat : DOMAIN view.up = 1..len
  BY <1>2
<1>4. \A i \in DOMAIN view.up : ObjectOf(view)[view.up[i]] = view.live[view.up[i].name]
  BY DEF ObjectOf
<1>5. \A i \in DOMAIN view.up : view.up[i].kind \in Scalable =>
        /\ DesiredReplicas("up", view.up[i]) \in Int
        /\ Or1(view.up[i].replicas) = DesiredReplicas("up", view.up[i])
  BY <1>1 DEF DesiredReplicas, Or1
<1> QED
  BY <1>1, <1>2, <1>3, <1>4, <1>5

(* The workload of a step, and what verify and diff demand of it.          *)
Live(view, i) == view.live[view.up[i].name]

Works(view) == {i \in DOMAIN view.up : view.up[i].kind \in Scalable}

Asked(view, i) == DesiredReplicas("up", view.up[i])

(* What each reader demands, one by one.                                   *)
LEMMA Reading ==
  ASSUME NEW view \in Views
  PROVE  /\ "wait" \in ReadersOf(view)
              <=> \A i \in Works(view) : WaitReady(view.up[i].kind, Live(view, i))
         /\ "verify" \in ReadersOf(view) /\ "workloads_ready" \in view.checks
              => \A i \in FirstOfEach(view.up, Scalable) : workloadReady(view.up[i], Live(view, i))
         /\ view.checks = {"workloads_ready"}
              => ("verify" \in ReadersOf(view)
                    <=> \A i \in FirstOfEach(view.up, Scalable) :
                          workloadReady(view.up[i], Live(view, i)))
         /\ "diff" \in ReadersOf(view)
              <=> \A i \in DOMAIN view.up : LineOK("up", view.up[i], Live(view, i))
         /\ "analyze" \in ReadersOf(view)
              <=> CheckPipelineWorkloads(<<>>, view.up, ObjectOf(view))
<1>1. \A i \in DOMAIN view.up : ObjectOf(view)[view.up[i]] = Live(view, i)
  BY ViewTypes DEF Live
<1>2. "wait" \in ReadersOf(view)
        <=> \A i \in Works(view) : WaitReady(view.up[i].kind, Live(view, i))
  BY <1>1 DEF ReadersOf, Works
<1>3. workloads_ready(view.up, ObjectOf(view))
        <=> \A i \in FirstOfEach(view.up, Scalable) : workloadReady(view.up[i], Live(view, i))
  BY <1>1 DEF workloads_ready, FirstOfEach
<1>4. "verify" \in ReadersOf(view)
        <=> VerifyReady(view.checks, view.up, ObjectOf(view), view.nodes, view.pods)
  BY DEF ReadersOf
<1>5. "workloads_ready" \in view.checks /\ "verify" \in ReadersOf(view)
        => workloads_ready(view.up, ObjectOf(view))
  BY <1>4 DEF VerifyReady
<1>6. view.checks = {"workloads_ready"}
        => ("verify" \in ReadersOf(view) <=> workloads_ready(view.up, ObjectOf(view)))
  BY <1>4 DEF VerifyReady
<1>7. "diff" \in ReadersOf(view)
        <=> \A i \in DOMAIN view.up : LineOK("up", view.up[i], Live(view, i))
  BY <1>1 DEF ReadersOf, DiffClean
<1>8. "analyze" \in ReadersOf(view)
        <=> CheckPipelineWorkloads(<<>>, view.up, ObjectOf(view))
  BY DEF ReadersOf
<1> QED
  BY <1>2, <1>3, <1>5, <1>6, <1>7, <1>8

(* The first step of each workload is one of them, and has its object.     *)
LEMMA FirstOfAll ==
  ASSUME NEW view \in Views
  PROVE  /\ FirstOfEach(view.up, Scalable) \subseteq Works(view)
         /\ \A i \in Works(view) :
              \E j \in FirstOfEach(view.up, Scalable) :
                /\ view.up[j].kind = view.up[i].kind
                /\ Live(view, j) = Live(view, i)
<1>1. FirstOfEach(view.up, Scalable) \subseteq Works(view)
  BY DEF FirstOfEach, Works
<1>2. PICK len \in Nat : DOMAIN view.up = 1..len
  BY ViewTypes
<1>3. ASSUME NEW i \in Works(view)
      PROVE  \E j \in FirstOfEach(view.up, Scalable) :
               /\ view.up[j].kind = view.up[i].kind
               /\ Live(view, j) = Live(view, i)
  BY <1>2, <1>3, FirstIsLookedAt DEF Works, Live
<1> QED
  BY <1>1, <1>3

(* Of a workload that is scaled as asked, the two rules are one.           *)
LEMMA SameRule ==
  ASSUME NEW view \in Views, NEW i \in Works(view),
         Live(view, i) # Absent,
         Live(view, i).replicas = AppliedReplicas("up", view.up[i]),
         Live(view, i).progressing # "silent"
  PROVE  WaitReady(view.up[i].kind, Live(view, i)) <=> workloadReady(view.up[i], Live(view, i))
<1>1. Asked(view, i) \in Int /\ Or1(view.up[i].replicas) = Asked(view, i)
  BY ViewTypes DEF Works, Asked
<1>2. Int32(Asked(view, i)) \in Int /\ Live(view, i).replicas = Int32(Asked(view, i))
  BY <1>1, Conversion DEF AppliedReplicas, Asked
<1>3. Or1(Live(view, i).replicas) = Int32(Asked(view, i))
  BY <1>2, ReplicaAssumption DEF Or1
<1>4. Live(view, i).progressing = "fine" <=> Live(view, i).progressing # "failed"
  BY ViewTypes DEF Works, Live
<1> QED
  BY <1>1, <1>2, <1>3, <1>4 DEF WaitReady, workloadReady, ReplicasReady

(* A workload that verify calls ready and diff as configured is met.       *)
LEMMA ReadyAsConfigured ==
  ASSUME NEW view \in Views, NEW i \in Works(view),
         compareWorkload("up", view.up[i], Live(view, i)),
         workloadReady(view.up[i], Live(view, i))
  PROVE  Met(view.up[i], Live(view, i))
<1>1. /\ Live(view, i) # Absent /\ Live(view, i).replicas # Unset
      /\ Live(view, i).replicas = Asked(view, i)
  BY DEF compareWorkload, Asked
<1>2. Asked(view, i) \in 0..MaxInt32
  BY <1>1, ViewTypes DEF Works, Live
<1>3. Int32(Or1(view.up[i].replicas)) = Asked(view, i)
  BY <1>2, Conversion, ViewTypes DEF Works, Asked
<1>4. Asked(view, i) = 0 \/ ( /\ Live(view, i).current
                              /\ Live(view, i).updated >= Asked(view, i)
                              /\ Live(view, i).ready >= Asked(view, i) )
  BY <1>1, <1>3 DEF workloadReady, ReplicasReady
<1> QED
  BY <1>1, <1>2, <1>4 DEF Met, Asked

(* diff compares the counts of a workload.                                 *)
LEMMA DiffOfWorkload ==
  ASSUME NEW step, NEW o, LineOK("up", step, o), step.kind \in Scalable
  PROVE  compareWorkload("up", step, o)
BY DEF LineOK, Scalable

(* What diff accepts of a step, analyze accepts.                           *)
LEMMA DiffThenAnalyze ==
  ASSUME NEW step, NEW o, LineOK("up", step, o), step.kind # "exec"
  PROVE  ResourceOK(step, o)
BY DEF LineOK, ResourceOK, compareWorkload, compareCronJob, Scalable

(* The readers of the cluster tell one story, of pipelines of any length   *)
(* and of any counts, the ones that do not fit into an int32 included: the *)
(* wait of the native executor, kzero verify, kzero diff and kzero analyze.*)
THEOREM ReadersAgree == Spec => []ObserversAgree
<1>1. VerdictInv => ObserversAgree
  <2> SUFFICES ASSUME VerdictInv, subject.about = "view", verdict # {"open"}
               PROVE  ObserversAgree
    BY DEF ObserversAgree
  <2>1. subject \in Views /\ verdict = ReadersOf(subject)
    BY Subjects DEF VerdictInv
  <2>2. PICK view \in Views : view = subject
    BY <2>1
  <2>3. verdict = ReadersOf(view)
    BY <2>1, <2>2
  <2>4. ASSUME view.checks = {"workloads_ready"},
               \A i \in Works(view) :
                 /\ Live(view, i) # Absent
                 /\ Live(view, i).replicas = AppliedReplicas("up", view.up[i])
                 /\ Live(view, i).progressing # "silent"
        PROVE  "wait" \in verdict <=> "verify" \in verdict
    <3>1. \A i \in Works(view) :
            WaitReady(view.up[i].kind, Live(view, i)) <=> workloadReady(view.up[i], Live(view, i))
      BY <2>4, SameRule
    <3>2. "wait" \in verdict => "verify" \in verdict
      BY <2>3, <2>4, <3>1, Reading, FirstOfAll
    <3>3. ASSUME "verify" \in verdict, NEW i \in Works(view)
          PROVE  WaitReady(view.up[i].kind, Live(view, i))
      <4>1. PICK j \in FirstOfEach(view.up, Scalable) :
              view.up[j].kind = view.up[i].kind /\ Live(view, j) = Live(view, i)
        BY FirstOfAll
      <4>2. j \in Works(view)
        BY FirstOfAll
      <4>3. workloadReady(view.up[j], Live(view, j))
        BY <2>3, <2>4, <3>3, Reading
      <4>4. WaitReady(view.up[j].kind, Live(view, j))
        BY <3>1, <4>2, <4>3
      <4> QED
        BY <4>1, <4>4
    <3>4. "verify" \in verdict => "wait" \in verdict
      BY <2>3, <3>3, Reading
    <3> QED
      BY <3>2, <3>4
  <2>5. ASSUME "workloads_ready" \in view.checks, {"verify", "diff"} \subseteq verdict,
               NEW i \in Works(view)
        PROVE  Met(view.up[i], Live(view, i))
    <3>1. \A j \in Works(view) : compareWorkload("up", view.up[j], Live(view, j))
      <4>1. \A j \in DOMAIN view.up : LineOK("up", view.up[j], Live(view, j))
        BY <2>3, <2>5, Reading
      <4> QED
        BY <4>1, DiffOfWorkload DEF Works
    <3>2. PICK j \in FirstOfEach(view.up, Scalable) :
            view.up[j].kind = view.up[i].kind /\ Live(view, j) = Live(view, i)
      BY <2>5, FirstOfAll
    <3>3. j \in Works(view)
      BY FirstOfAll
    <3>4. workloadReady(view.up[j], Live(view, j))
      BY <2>3, <2>5, Reading
    <3>5. Met(view.up[j], Live(view, j))
      BY <3>1, <3>3, <3>4, ReadyAsConfigured
    <3>6. Asked(view, j) = Asked(view, i)
      BY <2>5, <3>1, <3>2, <3>3 DEF compareWorkload, Asked
    <3> QED
      BY <3>2, <3>5, <3>6 DEF Met, Asked
  <2>6. ASSUME "diff" \in verdict, \A i \in DOMAIN view.up : view.up[i].kind # "exec"
        PROVE  "analyze" \in verdict
    <3>1. \A i \in DOMAIN view.up : ResourceOK(view.up[i], Live(view, i))
      BY <2>3, <2>6, Reading, DiffThenAnalyze
    <3>2. PICK S : view.up \in Seq(S)
      BY ViewTypes
    <3>3. <<>> \o view.up = view.up
      BY <3>2
    <3>4. \A i \in DOMAIN view.up : ResourceOK(view.up[i], ObjectOf(view)[view.up[i]])
      BY <3>1, ViewTypes DEF Live
    <3>5. CheckPipelineWorkloads(<<>>, view.up, ObjectOf(view))
      BY <3>3, <3>4 DEF CheckPipelineWorkloads, FirstOfEach
    <3> QED
      BY <2>3, <3>5, Reading
  <2> QED
    BY <2>2, <2>4, <2>5, <2>6 DEF ObserversAgree, Works, Live
<1> QED
  BY <1>1, VerdictHolds, PTL

=============================================================================
