# kzero in TLA+

kzero scales Kubernetes environments to zero and back. A YAML file lists the steps of a `down` and an
`up` pipeline; `kzero down`, `kzero up` and `kzero reset` run them one after the other against a
cluster, with hooks, retries, timeouts, a watchdog for the API server and alerts for failures.
This directory specifies that behaviour: TLA+ modules translated from the Go code, TLC configurations
that check them on small instances, and theorems that TLAPS proves for all values of the constants.

`PROJECT.json` lists, definition by definition, the source lines each module stands for.

## 1. The system

### Components

| Component | Source | State it keeps | Operations |
|---|---|---|---|
| Engine | `internal/engine/engine.go`, `live_*.go`, `preflight.go` | the position in the pipeline, `lastErr`, the context and its cancel function, `stalled` | RunDown, RunUp, RunReset, retry loop, finishWithError |
| API watchdog | `internal/watchdog`, `engine/api_watchdog.go` | `failed`/`firstFailure`, `tripped`, a ticker | a probe per tick, OnTrip, Stop |
| Retry | `internal/retry` | none | Attempts, Exponential, Backoff, IsRetriable |
| Notifications | `internal/notify` | none | Dispatch to each enabled channel, DispatchTest |
| Workload executors | `internal/executor/native.go`, `shell.go` | the objects of the cluster | Scale (Get, then Update), WaitRollout (poll) |
| Job, CronJob, PVC, exec | `executor/job.go`, `cronjob.go`, `pvc.go`, `podexec.go` | the objects of the cluster | create, wait, delete, suspend, exec |
| Error classification | `executor/errors.go`, `subprocess.go` | none | WrapAPIError, WrapSubprocess, sentinels that decide retries and exit codes |
| Helm | `executor/helm_*.go`, `registry_auth.go`, `chartspec.go` | the releases; a cache of registry logins | Uninstall, UpgradeInstall |
| Infra probe | `internal/probe` | a cache file on disk | ShouldGate, Run, RunGate, the checks, the teardown |
| Commands | `internal/cli`, `internal/exitcode` | the signal context | runPipelineCommand, runVerify, exit codes |
| Verify, diff, analyze | `internal/verify`, `diff`, `validate` | none (they read the cluster) | readiness, replicas, schedulability |
| Configuration | `internal/config` | none | Load, defaults, validation |
| Dry run | `engine/dry_runner*.go` | none | the checks a step makes instead of its action |
| Doctor, logging, redaction, cluster target, correlation | the rest of `internal` | none | output and set-up |

### How they interact

A command loads its configuration, may run the infra probe as a gate, sends the start event, and
creates an engine. The engine makes one context, limited by `run.timeout`, and hands it to
everything: scripts, Kubernetes requests, Helm operations, POSTs of notifications. Three parties
cancel it from goroutines of their own: the operator (SIGINT, SIGTERM), the clock of `run.timeout`,
and the API watchdog, which first sets `Engine.stalled` and then cancels. The engine only sees an
error come back from the call that was in flight. What happened must be read off that error and the
flag, and on the reading depend the interrupt line in the log, the event that is sent, whether
`hooks.on-error` runs, whether the step is tried again, and the exit code.

### What is hard about it

* **Cancellation.** It hits at every point: in a call, between calls, in the backoff, during the
  notification. The alert and the on-error hook use the same context as the work that failed.
* **Two writers.** The watchdog's flag and cancellation are two steps beside a running engine.
* **Retries.** A step is pre script, action and post script; an attempt starts from the beginning,
  the number of attempts is limited, only some errors qualify.
* **Time.** The watchdog's probes may last as long as its interval, and the ticker drops ticks.
  Outages may begin and end at any moment.
* **Arithmetic.** `retry.delay` has no upper bound; the doubling can overflow.
* **The cluster.** Objects change under kzero: an Update conflicts, a reply is lost and the request
  is repeated, a rollout's status is older than its specification.
* **Partial failure.** One channel of several, one check of several, a teardown after half a set-up.

### What makes each part correct

* *Engine*: units of work succeed strictly in order; the first failure ends the command; a reset
  reaches `up` only after all of `down` and the boundary preflight; exit code 0 exactly when all
  succeeded; retries only as configured; failures classified by what caused them; the report in
  order (log, alert, hook, exit code); every command ends, and a cancelled one even if calls hang.
* *Watchdog*: trips once, never before `fail_after` without a good probe, soon after it in an
  outage, forgets an outage after a recovery, always exits.
* *Retry*: waits are non-negative, capped, exponential.
* *Executors*: no other client's change is lost; ready means ready for this generation; success means
  the change took effect; a repeated create or delete does no harm; a dry run does none at all.
* *Helm*: whatever state an interrupted operation has left the release in, the next reset gets out of it.
* *Error classification*: what is not there or not allowed is not retried, whatever words stand beside it. (The
  code keeps this on every path but one, the Helm SDK's; see section 3.)
* *Configuration*: what is loaded can be run, as far as the configuration itself goes.
* *Verify, diff, analyze*: they do not contradict each other nor the wait of the step.
* *Probe*: what was set up is torn down or the probe has failed; a success is believed only if one of the
  same key was earned within `cache_ttl`.
* *Commands*: nothing runs behind a closed gate; exit code and events tell what happened.

## 2. Modules

| Module | What it is |
|---|---|
| `Units` | units of work (preflight, hook, step, ...) and the order they are planned in |
| `Pipeline` | abstract specification of a command: a plan, the units done, the outcome |
| `Tripwire` | abstract specification of the API watchdog, as the engine knows it |
| `Engine` | one command as `internal/engine` runs it, with operator, clock and watchdog beside it |
| `MCEngine` | configurations of `Engine` for TLC |
| `EngineProofs` | types, causes of cancellation, attempts, the failure report; `Engine` implements `Pipeline` and its watchdog `Tripwire` |
| `Watchdog`, `MCWatchdog` | the watchdog goroutine against a clock and an API that comes and goes |
| `WatchdogProofs` | one trip, in time, never early; `Watchdog` implements `Tripwire` |
| `Backoff`, `MCBackoff` | the loop of `Exponential` and the jitter, with integers of fixed width |
| `BackoffProofs` | no overflow reaches the caller; the ceiling doubles |
| `InductionLemmas` | induction over the natural numbers, for sets of them |
| `Rollout`, `MCRollout` | a native scale step against other clients, a controller and an unreliable network |
| `RolloutProofs` | no lost deployment, success is earned, ready is true |
| `Probe` | state and steps of the infra probe: cache, up, checks, teardown |
| `Command`, `MCCommand` | processes of one host from start to exit code: target, events, gate, engine, verification |
| `CommandProofs` | types, the gate holds, skips are earned, exit codes and events tell, no litter |
| `Errors` | what becomes of a failed call: wrapping, classification, IsRetriable, as operators |
| `StepConfig` | what Load accepts, and what the runner demands of a step, as operators |
| `Observe` | the readers of the cluster: the wait of a step, verify, diff, analyze, as operators |
| `Rules`, `MCRules` | one decision of these operators per behaviour, with the properties that relate them |
| `RulesProofs` | refusals are final, what loads can run, the readers agree |
| `Cluster` | external: objects, API server, controllers, network and other operators |
| `Helm` | a release step, operation by operation, with the SDK or the helm binary |
| `Steps`, `MCSteps` | processes that run the main actions of pipelines, live or dry, against `Cluster` and `Helm` |
| `StepsProofs` | types, jobs, dry runs, fresh claims, promises |

`EngineProofs` shows `Engine` to implement `Pipeline`, and `Command` runs `Pipeline` in its place: what
is shown of a command there needs no more of the engine than its contract. `Steps` extends `Cluster` and
`Helm`, takes its errors from `Errors` and says what a step has promised with the lines of diff in `Observe`.

### Engine and the code

`pc` names the place in RunDown, RunUp or RunReset; `phase` and `index` are the loop over the steps,
`try` the loop of runPipelineStepWithRetry, `part` the place in RunPipelineStep. A call begins
(`BeginCall`, `busy`) and returns (`Returns(e)`) in two steps, so that anything can happen while it
is in flight. `Results` is the set of what it may return: a member of `Errors`, the classes that
`retry.IsRetriable` and `isUserInterrupt` tell apart. The set depends on the context as it does in
the code: exec does not start a process under a context that is over; a process killed by its
context reports the signal (`"killed"`), an API request reports the context's error (`"canceled"`,
`"deadline"`); the preflight takes no context at all.

A subprocess that fails by itself, for a reason classifySubprocess does not recognise, is `"exited"`, or
`"exitedFlaky"` if what it wrote speaks of a timeout, which is enough for a retry. exec's error is then still in
the chain, and it has a method ExitCode, which makes it an `exitcode.Coder`: `Ensure` and `Of` pass its code on.
`ExitCodes(e)` is what the process exits with once the command has returned e: a member of `ScriptCodes`, 255 for
a process that a signal ended (exec says -1), or 3. A required alert that did not arrive comes first in the chain
and gives 4 whatever has failed.

`completed` and `succeeded` are history variables: units and parts of an attempt that have succeeded.
They are read by properties alone.

Left out: what scripts print, the names of objects, the `success` and `start` events (sent by the
command, not by the engine), and what each kind of step does in the cluster. A step's main action
is one call with every result the code passes on.

### Watchdog and the code

The goroutine is the `select` of `run`, the probe, and the two writes of OnTrip. `time.Ticker` is
`nextTick` and a channel that holds one tick. A probe returns as soon as the API answers or its
deadline (`Interval`) passes, and may fail only if the API was down at some moment of it
(`disturbed`) or its context is over. `Advance` lets time pass only when the goroutine has nothing to
do: computation takes no time compared with intervals of seconds. `lastGood`, `since` and
`trips` are history.

`Engine` contains the watchdog once more, without its clock: there, OnTrip may happen at any time. `Tripwire`
joins the two. `Watchdog` implements it, the watchdog inside of `Engine` implements it, and `Engine` allows
whatever it allows (`EngineProofs!EngineAllowsTripwire`); so each behaviour of `Watchdog` is among those under
which `Engine` is shown to keep its properties. Stop, in `Watchdog` one of the ways the context ends, is the
return of the command in `Engine`.

### Backoff and the code

`Normalise`, `Double`, `LoopEnds` are the lines of `Exponential`, `Jitter` is `fullJitter`. `Wrap` is
two's complement. `FailAgain` calls it again after the next failure, so that waits can be compared.

### Rollout and the code

`Get` and `SendUpdate` are the two requests of scaleDeployment and scaleStatefulSet, which differ only in
the type of the object; `Ready` is deploymentReady and statefulSetReady, `PollPasses` the poll of WaitRollout
that returns true, `Fail` the engine's retry loop (its backoff is in `Engine`). A call may fail at any
time with any class of error (`CallFails`).

The rest is outside of kzero and modelled from how the code relies on it. `pending` holds updates on
their way: the server may take one after kzero has given it up and is on another attempt (`Land`), or
never (`Lose`). It takes an update only if its resourceVersion is the current one or is not set. Other clients
deploy a new template or scale; the controller creates, starts and removes pods and writes the status,
which makes a new version too, so that kzero may meet a conflict with nobody but the controller.
`template`, `applied` and `attained` are history.

The native wait counts ready pods of the previous template, as `readyReplicas` does. `attained`
counts them too: `ReadyIsBelieved` says that the status is not an old one, not that the new template has
been rolled out.

### Probe, Command and the code

`Command` starts one process after the other, each with one of the setups; `pc` is the place in
runPipelineCommand or newProbeCmd and, from `"probe"` to `"probed"`, in probe.Run, whose steps are in `Probe`.
What outlives a process is the cache file (`cache`), the clock, and what probe pipelines have
left in the clusters (`remains`). `entry` is the entry WriteOK has made and not yet written: in between
the file is truncated. `passed` and `found` are history.

A pipeline step of the probe is one step that succeeds, or fails and may have had its effect; the retries
inside are `Engine`'s. Cache and checks are as in the code, so that `Key` leaves `pods_schedulable` out, and
an unreadable file, one that does not parse and one that is missing all are a miss. `Signal` ends the context
that notifications, probe and engine share; the verification takes another one. A step in flight may
still succeed after the signal, which is the same as a signal just after it. Processes can be
killed at any step. `AnotherPasses` is another kzero process that passes a probe meanwhile and writes
the same file, at once.

Errors are the exit code they carry, or `Plain`; `Ensure` and `CodeOf` are exitcode.Ensure and exitcode.Of. A
failed step is `Plain` or, if a subprocess was behind it, one of `ScriptCodes`; `Abort` is what becomes of it at the
end of the command, `author` the history of whose code it is. A probe is `"broken"` by the error of a step, which
keeps such a code, and `"failed"` by anything else: after failed checks the teardown's error is kept as text only.
The plan of the engine is cut down to two units for each phase, a preflight, which ignores the context, and a
step, which does not.

Left out: log files and flags, before the target is printed; the options of steps, which CacheKey does not
see either; a wall clock that is set back.

### Errors, StepConfig, Observe, Rules and the code

An error is the set of things the code can find in it: the sentinels `errors.Is` finds, the API status
`errors.As` finds, whether a SubprocessError is in the chain, and which groups of substrings are in its text
(`Phrase`, grouped by the lists of classifySubprocess, WrapPodExec and retriableMessage that hold them).
`joinSentinel` keeps the text of its cause and not the cause, as `"%w: %v"` does; a subprocess that exited says
the first 200 characters of its output, one that did not says its cause. WrapPodExec never sees an exit code:
exitCodeFrom looks for an error of `os/exec`, remotecommand returns one of its own.

The errors of the Helm SDK (`HelmError`) get a prefix and are not wrapped: WrapAPIError is called by nobody on that
path, so there is no sentinel, and IsRetriable goes by the API status, if Helm has kept it in the chain
(`chained`), and by the text. `Misleading` says when the text has a phrase of retriableMessage.

A configuration is two lists of items with the class of each option's value. `Usable` says what
runMainPipelineStep, the executors and ResolveChartSpec demand of the step; StepConfig would show a kind, an option
or a blank value that passes the one and not the other. Values are trimmed at load where the code trims. A release
has its chart in the step or in `<helm.workspace>/<name>.yaml`, which is read at run time: `file` is what is found
there. Load neither opens the file nor asks for the option, so `LoadedStepsRun` assumes a chart (`ChartInPlace`) and
nothing else. What the step refers to and the configuration cannot hold (scripts, job manifests, the chart itself,
`password_env`) may be missing as well, and is not looked at.

A view is an up pipeline, the object of each step, nodes, pods and the checks to make. `Int32` is Go's conversion:
the engine applies int32(replicas), verify compares with int32(replicas), diff with replicas. The wait stops at a
condition Progressing=False, verify at its message: one without a message (`"silent"`), which no controller
writes, is the one case in which the two rules differ, and `ObserversAgree` leaves it out.

`Rules` has no more behaviour than one decision; its runs enumerate the inputs.

### Steps, Helm, Cluster and the code

`plan` is the configuration. A process (`Start`) has its steps in `Todo`, `at` and `try` are the place and the
attempt; `pc` is `"begin"` at the start of an attempt, `"sent"` while its request is with the server, `"wait"` in
WaitRollout or WaitComplete, `"post"` in the post script, `"helm"` in a release step. `Send` is the read and
the request of Scale and Suspend or the request of Delete and Create; `Answered` is the server's reply and
what the executor makes of it; `StepFails` is the engine's retry of the whole step. What a dry run sends and
what it only announces is in `Announced` and `DryRunAll`, mode `"plan"` being a dry run whose client could not
be built.

`Helm` follows UpgradeInstall: chart, namespace (read, then made), login, fetch, history, install or upgrade;
Uninstall; and the shell's script and binary. The release is the status of the last revision, written before and
after each operation as Helm does, so that a process killed in between leaves `pending-install`,
`pending-upgrade` or `uninstalling` behind. Which of them Helm lets which operation start from is Helm's rule.
`loggedIn` is the process's cache, `stored` the credentials on disk that `registry.NewClient` reads every time.

`Cluster` is written from what the code relies on: an update names the version it has read, a delete and a create
name the object alone; a claim in use stays until its pod is gone; a pod waits for a claim that is going;
Background deletion removes a job at once. A request that kzero has given up is in `late` until it arrives
or vanishes.

`promised`, `began`, `created`, `calm` and `touched` are history. The post script of the statefulset waits for
the pods to go, as in `docs/examples/pvc-statefulset-data-strategy.md`, pattern A: it stands for the operator's
script, which is no part of kzero. Left out: pre scripts, hooks and notifications (`Engine`, `Command`); the
clients a runner caches, one for each kubeconfig; deployments, which `Rollout` has.

## 3. What the runs check

| Run | States | Shows |
|---|---|---|
| `engine` (`MCEngine.cfg`) | 169 892 | types, the causes behind interrupt line and event, order of the report, exit codes, refinement of `Pipeline`, retries |
| `engine_liveness` | 74 528 | every command ends when its calls return; one whose context ends, ends even if calls hang |
| `watchdog` | 273 387 | one trip, not before `fail_after`, at most four intervals after it; recovery noticed within two; the goroutine exits when its context ends; refinement of `Tripwire` |
| `backoff` | 77 425 | capped, exponential, no panic |
| `rollout` | 2 177 850 | other clients' deployments survive raced, repeated and late updates; success means the scaling took effect; ready means enough pods since the specification last changed |
| `rollout_succeeds` | 76 442 | with a server that answers, a waiting step succeeds through its conflicts |
| `command` | 1 018 472 | nothing runs behind a closed gate; no litter after success; exit codes and events agree with what happened; skipped probes were earned |
| `rules` | 40 886 | NotFound and Forbidden are final, but for a misleading text of the Helm SDK; what loads can run, given its charts; wait, verify, diff and analyze agree |
| `steps` | 1 235 759 | announced changes hold, jobs are the process's own and run once, claims are fresh after a reset, dry runs change nothing |
| `steps_recover` | 195 684 | an undisturbed reset succeeds after any kill, failure or interference, and leaves what is configured |

Two more runs check one sentence of the documentation each, and TLC shows a behaviour of the code that
contradicts it (`findings` in `PROJECT.json`):

* `stall_alert`: OnTrip cancels the context with which `pipeline.stalled` is then posted, so the
  alert reaches nobody (`engine.go:264`; SPECIFICATIONS.md:164).
* `retry_only_transient`: the words that make an error retriable are looked for in the whole text, with the
  name of the object and the command line in it: `kubectl rollout status --timeout=...` is retried whatever it
  fails with, if no other class applies (`retry.go:101`; README.md:396).

### Divergences without a run

What follows is in the models, was seen in their behaviours, and has no run of its own.

* A failed pipeline exits with 3, or with 4 if a required alert was not delivered, says the table of exit codes; but
  with the code of the script, kubectl or helm that failed, if that is not recognised otherwise: Ensure passes it on
  (`exitcode.go:95`; exitcode.go:11-21, SPECIFICATIONS.md:711-720). A script's 1 passes for a rejected configuration,
  its 4 for an undelivered alert, and a script ended by a signal gives 255. `ExitCodeTells` and
  `FailureIsAccountedFor` say what is left of the table.
* NotFound and Forbidden "fail immediately", but not by way of the Helm SDK, the default for releases: its errors
  have no sentinel, and a namespace called `team-503` is enough for a retry (`helm_sdk.go:79`, also 64, 151, 177, 250,
  255; README.md:396). `PermanentIsFinal` excepts what is `Misleading`.
* A reset that fails at the boundary preflight returns without finishWithError, so `hooks.on-error` does
  not run (`engine.go:136`; SPECIFICATIONS.md:701).
* After `run.timeout` the on-error hook is refused, its context being over (`engine.go:233`; SPECIFICATIONS.md:701).
* A script killed by the operator's signal returns an exit error, which isUserInterrupt does not
  recognise (`engine.go:304`; CHANGELOG.md:160).
* The watchdog is started in dry-run mode too (`engine.go:60`; SPECIFICATIONS.md:207).
* One failing channel of two fails the run; the comment says one must succeed (`notify.go:97`;
  `config/types.go:95`).
* A success recorded without the check `pods_schedulable` lets the probe with it be skipped, since CacheKey
  leaves the check out (`cache.go:32`; docs/examples/infra-probe.md:139).
* `kzero probe`, said to always run, is skipped on a fresh cache entry (`probe.go:36`;
  docs/examples/infra-probe.md, Commands).
* A job step is retried, but cannot succeed once its Create has landed: the next attempt meets AlreadyExists,
  which is final and hides the first error (`job.go:104`). `JobIsOurs` and `JobRunsOnce` need just that.
* A delete that was given up may arrive after the up phase has created the job again, and takes the new one
  away; a retry of the step then creates another. `JobRunsOnce` excepts it (`job.go:63`).
* The dry run of an up step fails on a job that a reset would delete first (`dry_runner_native.go:107`).
* After `helm uninstall --keep-history` releaseNeedsInstall says install, and helmInstall does not ask for
  Replace, so Helm refuses the name (`helm_sdk.go:160`); the down phase of a reset purges the record.
* ensureNamespace fails if somebody makes the namespace between its Get and its Create (`helm_sdk.go:252`).
* The Helm uninstall does not take the context (`helm_sdk.go:62`).
* verify takes any workload scaled to 0 for ready, also one that should have replicas (`verify.go:216`;
  SPECIFICATIONS.md, kzero verify: "ReadyReplicas ... ≥ desired count"); `ObserversAgree` therefore asks diff as well.
* replicas beyond 32 bits is applied as another number; verify agrees with the number applied, diff does not
  (`live_kubectl.go:64`, `verify.go:192`, `diff.go:97`).
* A step's `timeout` longer than `run.operation_timeout` is cut to it (`live_kubectl.go:56`;
  configs/kzero.sample.yml:104 and 150).
* analyze and verify take the first step of each object: a second exec into another container of the same
  pod is not checked (`workloads.go:68`), a second scale of the same workload is not verified (`verify.go:172`).
* A release without a chart, in the step or in `helm.workspace`, is loaded; analyze and dry run leave the refusal of
  ResolveChartSpec unsaid (`describe.go:62`, `dry_runner.go:104`), and a native run fails half way
  (`chartspec.go:64`). No document promises otherwise, so it is a limit and not a contradiction.
* A blank-padded name in `verify.checks` or `verify.format` passes Load and is not trimmed in use.

### Bounds

* *Engine.* Five configurations: two steps down (one with both scripts, one with none) and one up,
  hooks at one end of each phase, two channels of which one may fail, two and three attempts; the
  same without hooks, channels, retries and down steps (`retry.attempts: 0`, which counts as one); a
  dry run; no on-error hook and no operation timeout; delivery not required. Scripts exit with 1, a code kzero uses
  for something else, or with 4, its code for an undelivered alert. This reaches each kind
  of unit next to each other kind, the empty pipeline, first and last steps, every branch of the
  report. Nothing in the code looks further than the neighbouring step. The liveness run takes
  three of the configurations.
* *Watchdog.* `MaxTime = 16` units with `fail_after` a multiple of the interval, not a multiple, shorter
  than the interval, and both defaulted. Outages may begin, end and begin again at any unit.
  The latest possible trip needs `fail_after + 4 * interval`, which fits.
* *Backoff.* Eight-bit durations with a cap of 24, all delays from -2 to 127, eight attempts: every
  delay reaches the cap, and those above 63 overflow when doubled, above the cap as in the code.
* *Rollout.* One replica at most (so that old and new pods can make up for each other), two attempts (so
  that an update of the first can arrive in the second), two disturbances (a deployment and a scaling or a
  crash); a waiting step up, a step down, a dry run. The liveness run takes two replicas, one
  disturbance, and twelve attempts, more than there are writes of others.
* *Command.* Two processes, the least that lets one read what another has left, of any two setups: one
  gated by a probe of one release; the same name for another cluster with one check more; two steps, another check
  and failures that do not count; no probe; a dry run. Subprocesses exit with 1 or 4, as above. The clock takes two values and `cache_ttl` is one, so that
  an entry is fresh or has just expired.
* *Rules.* Failures with every status, one or two other groups of words, in the part of the output that is kept or
  behind it; of the Helm SDK, with and without the API's error in the chain. Items of every kind with up to two options of five classes of values, in either phase; the other
  settings one at a time; chart manifests that are missing, broken, blank or good. Views with one or two steps, replicas up to 2, and 3-bit replica counts so that 5 and 9
  are out of range.
* *Steps.* Two processes, so that the second finds what the first has left, or is met by its late
  requests; two attempts, so that an update or a create of the first meets the second; three faults (failed,
  refused or lost calls, failing jobs and scripts, kills) and one change by others. Five pipelines: four each with the
  kinds that touch the same objects (statefulset, claim and exec; job and cronjob; a release by SDK; one by
  script), and one with nothing to do down. The liveness run has live commands and two faults.

### Fairness

`Engine!FairSpec`: the engine goroutine runs, the second write of OnTrip happens, and the watchdog goroutine takes
the end of its context. Nothing is assumed of operator, clock or API, and a call may hang for ever
(`MayHang`), unless the context it was given has ended (exec kills the process, client-go gives up
the request) or it is the preflight request, which takes no context and gives up by itself.
`Termination` is under the premise that no call hangs for ever, `CancelTerminates` is not. Two
exceptions in the code are not modelled: a grandchild process that keeps a script's output pipe open,
and the Helm uninstall, which ignores the context but has a timeout.

`Watchdog!FairSpec`: the goroutine runs. It needs no strong fairness for `select`: the ticker's channel
holds one tick, so ticks cannot win for ever.

`Command` has no liveness property: whether a command ends is `Engine`'s matter.

`Steps!FairSpec`: processes go on, the controllers work, requests arrive or vanish, and processes are started
as long as the bound allows. Failures and interference need no fairness: `ResetRecovers` speaks of a reset that
begins when their budget is spent and nothing is on its way. Its premise that the cronjob is there is needed:
no step creates one.

`Rollout!ReliableSpec` leaves out failing calls and lost updates: kzero polls, the server answers, the controller
works. The other clients may do what their bound allows, or nothing.

## 4. What is proved

Every invariant and every action property of the runs, and the refinements of `Pipeline` and `Tripwire`, for every value of
the constants under their stated assumptions:

* `Engine`: the configurations are records of the right type (`ConfigsAssumption`), with pipelines,
  channel lists and attempts of any size; the exit codes of subprocesses are from 1 to 255, but 137 and 143, which
  classifySubprocess takes for transient (`CodesAssumption`);
* `Watchdog`: the settings are integers and the defaults positive;
* `Backoff`: twice the cap fits the width (2 minutes in 63 bits of nanoseconds) and the default delay does not
  exceed the cap;
* `Rollout`: the bounds are any natural numbers, with at least one attempt;
* `Command`: the setups are records of the right type (`SetupsAssumption`), the exit codes of subprocesses as in
  `Engine` (`CodesAssumption`), the bounds any natural numbers;
* `Rules`: failures, configurations and views are of the right shape (`FailuresAssumption`,
  `ConfigurationsAssumption`, `ViewsAssumption`), as many and as long as one likes, with any option values, any
  counts and any width of an int32;
* `Steps`: pipelines of any number of steps, but with one step of a kind in each phase, since the cluster has
  one object of a kind (`PlansAssumption`); any commands, attempts, processes, failures and changes by others
  (`StepsAssumption`); and a value for "no object" that is none (`AbsentAssumption`).

### Engine

* `EngineProofs!TypeCorrect`. `TypeOK` is inductive. It is split into `FlagsOK` (Booleans) and `DataOK`.
* `OnlySignalsInterrupt`, `TripsAreStalls`. The properties speak of the end of a run, their reason is
  the order of OnTrip's writes: `CauseInv` adds that whenever the context was ended by the trip the
  flag is set, and that an error `"canceled"` has its cause in the context.
* `RetriesAreBounded`. `BackoffInv`: the engine waits only for an attempt it may make. The action
  property follows for BackoffExpires and is vacuous elsewhere.
* `AttemptsAreWhole`. `AttemptInv`: the parts that have succeeded are those before the current one, and none
  outside of a step; so a step completed by its post script has had the others in the same attempt.
* `OnErrorIsLast`. `ReportInv` ties what has been sent and run to the place in the report.
* `EngineImplementsPipeline`. `PositionInv`: what has succeeded is exactly what the plan puts before the
  engine's position. Each passing step then completes the next unit (`Advance`: two neighbouring positions have
  nothing between them in the order of `Units`), each failing one is `Fail`, the others leave the contract's
  state alone.
* `FailuresAreAccountedFor`. `AccountInv`: an event is posted only if it was chosen, and what the exit code says of
  its delivery and of the failed process is so when the engine returns (`FailureCode`, `CodeHasSource`). It needs `PositionInv` to know that only the boundary of a reset ends
  a command outside of finishWithError, and `ReportInv` for what was delivered.

* `EngineSeesTripwire` (`WatchdogContract`, which no run repeats), and the lemma `EngineAllowsTripwire` in the other direction, which needs `StopInv`: no
  goroutine is left behind by a command that is over (`WatchdogIsGone`).

### Watchdog, Backoff, Rollout

* `WatchdogProofs!TripsOnce`, `TripsAfterOutage`. `TripInv`: the flag `tripped` guards the call, and the
  first failure of an outage is later than the last good probe.
* `OutagesAreNoticed`, `RecoveriesAreNoticed`. `TimeInv` bounds when the next probe begins or the current one
  ends, before and after the first failure.
* `WatchdogImplementsTripwire`. `MarkInv` ties `Engine.stalled` to the calls of OnTrip; that OnTrip finds the stall
  not marked yet is `TripInv` again.
* `BackoffProofs!TypeCorrect`, `EveryWaitIsSafe`, `CeilingInRange`. `CapInv`: past its first round the
  loop's value is below the cap, so the overflow of the first doubling, which ends or starves the
  loop, cannot reach the jitter as a value it panics on.
* `CeilingsDouble`. `PowerInv`: after i - 1 rounds the loop holds the base times the (i - 1)-th power of two. The
  provers know no exponentiation, so `Power` is a recursive function; that there is one (`PowerUnfolds`), that it is
  positive and that it grows are shown by induction.
* `RolloutProofs!TypeCorrect`, `NoDeploymentIsUndone`, `SuccessIsEarned`, `ReadyIsTrue`. `VersionInv`: whatever
  carries the current version, the copy or an update on its way, carries the current template.
  `AppliedInv`: the answer `"nil"` comes with the effect. `StatusInv`: a status of the current generation
  that shows enough pods was taken at a moment when there were enough since that generation.

### Command

* `CommandProofs!TypeCorrect`. Types of a process, of its probe and of what outlives it, with the place.
* `SkipsAreEarned`. `RecordInv`: a valid entry, in the file or about to be written, is of
  the key of a setup that had passed when the entry was stamped; from the first process on, through
  kills, half-written files and other processes. The action property needs it only at CacheHit.
* `NothingPassesTheGate`. `GateInv`: a gated command before its probe's end has done nothing, and is behind it
  only with a probe that passed or was skipped.
* `ExitCodesTell`. `ExitInv`: what has been achieved at each place in the command, so that each of its exits
  knows what its code means: a code of kzero's own by the place it is given at, a subprocess's by the step
  it comes from (`AbortCode`). It does not say that the number alone tells the two apart, which is false.
* `EventsAreTrue`. `SentInv`: which events have been sent at each place; it rests on `ExitInv`, since the success
  event means what has been achieved. A subprocess that failed has no exit code 0, so neither has the command.
* `NothingIsLeftBehind`. `LitterInv`: what is there and was not found is named by the probe's up pipeline, there is
  none of it outside of a live probe or before one, and nothing its down pipeline names is left once the probe
  has passed.

### Rules

* `RefusalsAreFinal`, by cases of the path a failure takes. The order of the lists in classifySubprocess decides: the
  words of a refusal are looked for before the transient ones, and what joinSentinel leaves of the cause is its text.
  On the Helm SDK's path (`PermanentByHelm`) it is the premise on the text that decides.
* `LoadedIsUsable`, kind by kind: what Load asks for implies what the runner and the executors ask for; the chart of
  an up release is its premise.
* `ReadersAgree`: each reader is spelled out (`Reading`); verify and analyze look at the first step of each object
  only, which is enough for the claim, and that there is a first is `LeastExists`.

`VerdictInv` says that a verdict is the operators' answer on its subject.

### Steps

* `StepsProofs!TypeCorrect`. `TypeInv`: the types of process, cluster, Helm and of every request that may arrive
  late, and that the place is one of the plan.
* `DryRunIsDry`. `SentInv`: the request on its way is that of the step, and marked DryRun unless the process is live;
  waiting, post scripts and Helm are for live processes. What was given up keeps its mark.
* `WaitsForItsOwn`. `JobInv`: the job that is waited for is younger than the step. A create succeeds only where there
  is no job, so an old one has gone before.
* `CreatesItsJobOnce`. `OnceInv`: once the process has created its job the job is there, and no create is on its way
  before the up phase. Late requests are what makes it hard: each create the process has given up may still arrive.
* `ResetWipes`. `FreshInv`: what each down step that is over has left behind: the claim that was there is gone or
  going, no pod is left and no request on its way scales up.
* `PromisesAreKept`. `PromiseInv`: what is promised of an object nobody has touched holds of it; nothing is promised
  while a step is at work on it; and what a request has done is still so while its step waits or runs its post
  script. It needs all of the invariants above.

### Induction, and what is only model-checked

The induction theorems of the library take the statement as an operator, which the provers cannot instantiate.
`InductionLemmas` has induction for a set instead: initial segments of the natural numbers are finite sets, finite
sets are well-founded by strict inclusion, which the library states without an operator, so every set of
numbers that is not empty has a least one.

Where the guards of a CASE overlap, TLA+ does not say which arm is taken, though TLC takes the first. The
proofs would not go through where the model had relied on it: in `classifySubprocess`, in WrapPodExec and in
`Results`, whose code decides by order. They are nested IFs for that reason.

Only model-checked: `Termination`, `CancelTerminates`, `Exits`, `Succeeds` and `ResetRecovers`. They are liveness
properties, which are out of the provers' reach. The two violations are counterexamples.

## 5. Plan

The engine comes first, because everything the tool promises depends on its order of work and its
handling of failure; then what decides about retries; then the cluster; then the rest.

1. *Done:* `Units`, `Pipeline`, `Engine`, `Tripwire`, `Watchdog`, `Backoff`, `Rollout`, `Probe`, `Command`; `Errors`, `StepConfig`,
   `Observe` and `Rules`; `Cluster`, `Helm` and `Steps`; proofs of all their invariants and action properties.
2. `Steps` as an implementation of `Pipeline`, next to `Engine`.
3. `Engine` and `Watchdog` side by side, to say of the event `pipeline.stalled` itself that there was an outage.

## 6. Not modelled

Doctor (one pass of independent, read-only checks), logging, redaction, correlation and the choice of the
cluster target are output and set-up without state that later steps rely on. Parsing of YAML, decoding of job
manifests, chart references, versions and values are left to tests. Which client or executor a runner has
cached, and the fallback of `auto` from SDK to shell when the client cannot be built, are fixed for a process and
appear as parameters of a step (`sdk`) or of the process (`"plan"`). Secrets and credentials are not modelled
beyond their presence. The infra probe's mini pipelines and checks are `Probe`'s.

## 7. Running

    tlc -config MCEngine.cfg MCEngine.tla
    tlapm EngineProofs.tla

No run takes more than two minutes on two workers.
