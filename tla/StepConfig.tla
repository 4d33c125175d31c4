----------------------------- MODULE StepConfig -----------------------------
(***************************************************************************)
(* What loading a configuration accepts (internal/config/load.go), and the *)
(* demands the runner makes of a step when it executes it                  *)
(* (internal/engine/live_runner.go, internal/executor).                    *)
(*                                                                         *)
(* A value of the YAML is the class the parser tells apart:                *)
(*   "blank" (empty or spaces only), "text", "padded" (text in spaces),    *)
(*   "duration" (text that is one), "bool", "integer", "fraction",         *)
(*   "list" (non-empty, of texts), "emptyList", "blankList" (a blank among *)
(*   its items), "other" (a map, null)                                     *)
(***************************************************************************)
EXTENDS Sequences

StringValues == {"blank", "text", "padded", "duration"}
Texts == StringValues \ {"blank"}
Lists == {"list", "emptyList"}

StepKinds ==
  {"deployment", "statefulset", "release", "pvc", "exec", "job", "cronjob"}

Options ==
  {"replicas", "wait_for_ready", "timeout", "pre", "post", "script", "chart", "version",
   "values_files", "create_namespace", "container", "command", "stdin", "manifest",
   "wait_for_complete"}

(* The kinds an option is accepted on: the common ones on any.             *)
OptionKinds(o) ==
  CASE o \in {"script", "chart", "version", "values_files", "create_namespace"} -> {"release"}
    [] o \in {"container", "command", "stdin"}     -> {"exec"}
    [] o \in {"manifest", "wait_for_complete"}     -> {"job"}
    [] o \in {"replicas", "wait_for_ready", "timeout", "pre", "post"} -> StepKinds
    [] OTHER -> {}

(* The values it accepts; the texts are trimmed when they are stored.      *)
OptionValues(o) ==
  CASE o = "replicas"                  -> {"integer"}
    [] o = "timeout"                   -> {"duration"}
    [] o \in {"wait_for_ready", "create_namespace", "wait_for_complete"} -> {"bool"}
    [] o \in {"values_files", "command"} -> Lists
    [] o \in {"version", "stdin"}      -> StringValues
    [] o \in {"pre", "post", "script", "chart", "container", "manifest"} -> Texts
    [] OTHER                           -> {}

(* An item of a pipeline: a reference of some kind, or a custom script,    *)
(* with the options it has.  A release also has file: what its chart       *)
(* manifest, <helm.workspace>/<name>.yaml, is found to be at run time,     *)
(*   "none" (no such file), "broken" (unreadable, not YAML, a timeout that *)
(*   is none), "blank" (names no chart), "text" (names one)                *)
Custom(item) == item.kind = "custom"

parseCustomMapStep(item) ==
  /\ item.path \in Texts
  /\ \A o \in DOMAIN item.options : o \in {"pre", "post"} /\ item.options[o] \in Texts

(* parseReferenceStep, parseMapStep, applyStepOptions                      *)
parseMapStep(item) ==
  /\ item.kind \in StepKinds
  /\ \A o \in DOMAIN item.options :
       item.kind \in OptionKinds(o) /\ item.options[o] \in OptionValues(o)

parsePipelineStep(item) ==
  IF Custom(item) THEN parseCustomMapStep(item) ELSE parseMapStep(item)

parsePipelineList(items) == \A i \in DOMAIN items : parsePipelineStep(items[i])

-----------------------------------------------------------------------------
(* Validation of the whole.                                                *)

Value(item, o) == IF o \in DOMAIN item.options THEN item.options[o] ELSE "none"

Has(items, kind) == \E i \in DOMAIN items : items[i].kind = kind

(* An item that will be asked for: a blank one counts as none.             *)
Trimmed(value) == IF value \in {"none", "blank"} THEN "none" ELSE "text"

validateHelmWorkspaceForReleases(cfg) ==
  Has(cfg.down, "release") \/ Has(cfg.up, "release") => Trimmed(cfg.workspace) = "text"

validateExecSteps(items) ==
  \A i \in DOMAIN items : items[i].kind = "exec" =>
    Value(items[i], "container") # "none" /\ Value(items[i], "command") = "list"

(* Faulty variant: the manifest is looked for on the wrong phase.          *)
ManifestGoingDown(items, phase) ==
  \A i \in DOMAIN items : items[i].kind = "job" /\ phase = "down" =>
    Value(items[i], "manifest") # "none"

validateJobSteps(items, phase) ==
  \A i \in DOMAIN items : items[i].kind = "job" /\ phase = "up" =>
    Value(items[i], "manifest") # "none"

(* A name that is one of these once it is trimmed; nothing is stored.      *)
Named(names, value) == value[2] \in names

(* A blank value takes the default.                                        *)
ValidOr(names, value) == value[2] = "" \/ Named(names, value)

validateVerify(cfg) ==
  /\ ValidOr({"text", "json"}, cfg.format)
  /\ \A c \in cfg.checks : Named({"workloads_ready", "nodes_ready", "pods_schedulable"}, c)

validateRunExecution(cfg) == ValidOr({"shell", "native", "auto"}, cfg.execution)

(* Hosts are told apart without regard to case or surrounding spaces.      *)
validateHelmRegistries(registries) ==
  /\ \A i \in DOMAIN registries :
       /\ registries[i].host # ""
       /\ Trimmed(registries[i].username) = "text"
       /\ Trimmed(registries[i].password) = "text" \/ Trimmed(registries[i].password_env) = "text"
  /\ \A i, j \in DOMAIN registries :
       registries[i].host = registries[j].host => i = j

(* A run section that names its mode, of the supported schema.             *)
validateSchemaAndRun(cfg) ==
  /\ cfg.schema = "1.0"
  /\ cfg.mode \in {"dry-run", "live"}
  /\ validateRunExecution(cfg)
  /\ ValidOr({"auto", "always", "never"}, cfg.color)

(* Load, with the pipelines of the infra probe left to Probe.  given: the  *)
(* pipelines that are there at all.                                        *)
Load(cfg) ==
  /\ cfg.given # {}
  /\ parsePipelineList(cfg.down) /\ parsePipelineList(cfg.up)
  /\ validateSchemaAndRun(cfg)
  /\ validateHelmWorkspaceForReleases(cfg)
  /\ validateHelmRegistries(cfg.registries)
  /\ validateExecSteps(cfg.down) /\ validateExecSteps(cfg.up)
  /\ validateJobSteps(cfg.down, "down") /\ validateJobSteps(cfg.up, "up")
  /\ validateVerify(cfg)

-----------------------------------------------------------------------------
(* What the runner and the executors refuse to work with.                  *)

(* The mode NewWorkload and NewHelmReleases go by, trimmed.                *)
ExecutionMode(cfg) == IF cfg.execution[2] = "" THEN "native" ELSE cfg.execution[2]

ModeIsKnown(cfg) == ExecutionMode(cfg) \in {"native", "shell", "auto"}

(* WantHelmSDK: releases are the Helm SDK's business, not a script's.      *)
UsesSDK(cfg) == ExecutionMode(cfg) \in {"native", "auto"}

(* ResolveChartSpec: the chart manifest, if there is one, can be read; the *)
(* step's own chart comes before the manifest's.                           *)
ChartKnown(item) ==
  /\ item.file # "broken"
  /\ Trimmed(Value(item, "chart")) = "text" \/ item.file = "text"

(* runMainPipelineStep knows the kinds; RemotePodExec.Run wants both; a    *)
(* manifest is read; ResolveChartSpec and resolveReleaseScript want a      *)
(* workspace, the former a chart.                                          *)
Usable(item, phase, cfg) ==
  CASE item.kind = "custom"  -> item.path # "blank"
    [] item.kind = "exec"    -> /\ Trimmed(Value(item, "container")) = "text"
                                /\ Value(item, "command") = "list"
    [] item.kind = "job"     -> phase = "up" => Trimmed(Value(item, "manifest")) = "text"
    [] item.kind = "release" ->
         phase = "up" => ( /\ Trimmed(cfg.workspace) = "text"
                           /\ UsesSDK(cfg) => ChartKnown(item) )
    [] item.kind \in {"deployment", "statefulset", "pvc", "cronjob"} -> TRUE
    [] OTHER -> FALSE
=============================================================================
