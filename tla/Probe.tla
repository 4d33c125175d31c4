------------------------------- MODULE Probe --------------------------------
(***************************************************************************)
(* The infra probe (internal/probe): before a destructive command, or for  *)
(* `kzero probe`, a throwaway pipeline goes up, is checked and goes down.  *)
(* Its success is recorded in a cache file that later processes read, and  *)
(* that every kzero process of the host shares.                            *)
(*                                                                         *)
(* This module holds the probe's state and steps; Command runs them.  A    *)
(* pipeline step is one step here: it succeeds, or it fails after its      *)
(* retries (Engine) and may have had its effect.                           *)
(***************************************************************************)
EXTENDS Naturals, Sequences

CONSTANTS
  Setups,    (* the configurations processes are started with               *)
  Refs,      (* the things a probe pipeline sets up                         *)
  Clusters,  (* where a kubeconfig may point                                *)
  Names      (* values of cluster.name                                      *)

Checks == {"pvc_bound", "release_ready", "pods_schedulable"}

Setup == [cluster  : Clusters,
          name     : Names,
          mode     : {"live", "dry-run"},
          enabled  : BOOLEAN,                   \* infra_probe.enabled
          before   : SUBSET {"down", "reset"},
          failFast : BOOLEAN,
          ttl      : Nat,                       \* infra_probe.cache_ttl
          up       : Seq(Refs),                 \* infra_probe.pipeline
          down     : Seq(Refs),
          checks   : SUBSET Checks,
          verify   : BOOLEAN,                   \* run.verify
          notify   : BOOLEAN]                   \* any channel enabled

ASSUME SetupsAssumption == Setups \subseteq Setup

VARIABLES
  cfg, command,  \* fixed when the process starts
  pc, index,     \* where the process is, and in which step of the probe
  ctx,           \* "live", or "signal": pipelineRunContext is over
  checked,       \* the checks have passed
  probe,         \* what the probe has come to
  entry,         \* the cache entry being written, or NoEntry
  cache,         \* the cache file
  clock,         \* the wall clock; it is never set back
  remains,       \* what probe pipelines have set up and not torn down
  passed         \* history: when a probe of each setup last passed, or 0

place     == <<cfg, command, ctx>>
memory    == <<entry, cache, clock, passed>>
progress  == <<index, checked, probe>>
probeVars == <<place, pc, progress, memory, remains>>

Live   == cfg.mode = "live"
Cached == Live /\ cfg.ttl > 0

(* Faulty variant: the checks are not part of the key.                     *)
KeyOfPipeline(c) == [name |-> c.name, up |-> c.up, down |-> c.down, checks |-> {}]

(* CacheKey                                                                *)
Key(c) == [name |-> c.name, up |-> c.up, down |-> c.down,
           checks |-> c.checks \ {"pods_schedulable"}]

(* A file that is missing or does not parse holds NoEntry.                 *)
Entry(c, t) == [valid |-> TRUE, key |-> Key(c), at |-> t]
NoEntry     == [valid |-> FALSE]

(* IsFresh                                                                 *)
Fresh == cache.valid /\ cache.key = Key(cfg) /\ clock < cache.at + cfg.ttl

Thing(r) == <<cfg.cluster, r>>

Things(s) == {Thing(s[i]) : i \in 1..Len(s)}

-----------------------------------------------------------------------------
(* Run                                                                     *)

(* A probe fails on its own account, or is broken by the error of a step.  *)
Failed == {"failed", "broken"}

ProbeEnds(result) == pc' = "probed" /\ probe' = result /\ UNCHANGED index

(* Faulty variant: steps counted from 0.                                   *)
GoToZero(where) == pc' = where /\ index' = 0 /\ UNCHANGED probe

GoTo(where) == pc' = where /\ index' = 1 /\ UNCHANGED probe

NoPipeline ==
  /\ pc = "probe" /\ cfg.up = << >>
  /\ ProbeEnds("failed")
  /\ UNCHANGED <<place, checked, memory, remains>>

CacheHit ==
  /\ pc = "probe" /\ cfg.up # << >>
  /\ Cached /\ Fresh
  /\ ProbeEnds("skipped")
  /\ UNCHANGED <<place, checked, memory, remains>>

(* Also when the file is there and cannot be read.                         *)
CacheMiss ==
  /\ pc = "probe" /\ cfg.up # << >>
  /\ GoTo("probeUp")
  /\ UNCHANGED <<place, checked, memory, remains>>

(* RunSteps.  A step starts only under a live context.                     *)
StepPasses(steps, next) ==
  /\ ctx = "live"
  /\ IF index < Len(steps)
       THEN pc' = pc /\ index' = index + 1 /\ UNCHANGED probe
       ELSE GoTo(next)

UpStep ==
  /\ pc = "probeUp" /\ StepPasses(cfg.up, "checks")
  /\ remains' = IF Live THEN remains \cup {Thing(cfg.up[index])} ELSE remains
  /\ UNCHANGED <<place, checked, memory>>

(* What was set up so far stays: Run returns at once.                      *)
UpFails ==
  /\ pc = "probeUp"
  /\ remains' \in {remains} \cup (IF Live THEN {remains \cup {Thing(cfg.up[index])}} ELSE {})
  /\ ProbeEnds("broken")
  /\ UNCHANGED <<place, checked, memory>>

(* RunChecks: release_ready asks for nothing that is not known already.    *)
ChecksPass ==
  /\ pc = "checks"
  /\ Live /\ ctx # "live" => cfg.checks \subseteq {"release_ready"}
  /\ checked' = TRUE
  /\ GoTo("probeDown")
  /\ UNCHANGED <<place, memory, remains>>

ChecksFail ==
  /\ pc = "checks" /\ Live /\ cfg.checks # {}
  /\ GoTo("probeDown")
  /\ UNCHANGED <<place, checked, memory, remains>>

(* runProbeDown                                                            *)
DownStep ==
  /\ pc = "probeDown" /\ index <= Len(cfg.down) /\ ctx = "live"
  /\ index' = index + 1
  /\ remains' = IF Live THEN remains \ {Thing(cfg.down[index])} ELSE remains
  /\ UNCHANGED <<place, pc, probe, checked, memory>>

(* Faulty variant: the error of the teardown is dropped.                   *)
DownFailureDropped ==
  /\ pc = "probeDown" /\ index <= Len(cfg.down)
  /\ ProbeEnds("ok")
  /\ UNCHANGED <<place, checked, memory, remains>>

(* After failed checks, of a failed teardown only the text is kept.        *)
DownFails ==
  /\ pc = "probeDown" /\ index <= Len(cfg.down)
  /\ remains' \in {remains} \cup (IF Live THEN {remains \ {Thing(cfg.down[index])}} ELSE {})
  /\ ProbeEnds(IF checked THEN "broken" ELSE "failed")
  /\ UNCHANGED <<place, checked, memory>>

(* Faulty variant: a teardown after failed checks counts as a success.     *)
TornDownIsEnough == TRUE

ProbePassed == checked

DownReturns ==
  /\ pc = "probeDown" /\ index > Len(cfg.down)
  /\ IF ~ProbePassed
       THEN ProbeEnds("failed")
       ELSE IF Cached THEN GoTo("record") ELSE ProbeEnds("ok")
  /\ UNCHANGED <<place, checked, memory, remains>>

(* WriteOK reads the clock, truncates the file and fills it; an error is   *)
(* only logged.  The probe has passed if its checks have and what its down *)
(* pipeline names is gone.                                                 *)
Record ==
  /\ pc = "record"
  /\ entry' = Entry(cfg, clock)
  /\ cache' = NoEntry
  /\ passed' = IF checked /\ Things(cfg.down) \cap remains = {}
                 THEN [passed EXCEPT ![cfg] = clock] ELSE passed
  /\ GoTo("write")
  /\ UNCHANGED <<place, checked, clock, remains>>

RecordFails ==
  /\ pc = "record"
  /\ ProbeEnds("ok")
  /\ UNCHANGED <<place, checked, memory, remains>>

Write ==
  /\ pc = "write"
  /\ cache' \in {entry, NoEntry} /\ entry' = NoEntry
  /\ ProbeEnds("ok")
  /\ UNCHANGED <<place, checked, clock, passed, remains>>

ProbeStep ==
  \/ NoPipeline \/ CacheHit \/ CacheMiss
  \/ UpStep \/ UpFails
  \/ ChecksPass \/ ChecksFail
  \/ DownStep \/ DownFails \/ DownReturns
  \/ Record \/ RecordFails \/ Write

(* Another process of the host passes the probe of setup c and records it. *)
AnotherPasses(c) ==
  /\ c.mode = "live" /\ c.ttl > 0 /\ c.up # << >>
  /\ cache' = Entry(c, clock)
  /\ passed' = [passed EXCEPT ![c] = clock]
  /\ UNCHANGED <<place, pc, progress, entry, clock, remains>>
=============================================================================
