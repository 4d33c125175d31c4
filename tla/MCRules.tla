------------------------------ MODULE MCRules -------------------------------
(* Small sets of failures, configurations and views for TLC.               *)
EXTENDS Rules

CONSTANTS none, unset

UpTo(n, S) == {T \in SUBSET S : \E f \in [1..n -> S \cup {none}] : T = {f[i] : i \in 1..n} \ {none}}

(* Only kubectl rollout status has a phrase of its own in its command: its *)
(* --timeout.  An object may be called "timeout" or "forbidden", too.      *)
MCFailures ==
  [about : {"failure"}, path : {"api"}, told : Reason,
   command : {{}, {"timeout"}, {"forbidden"}},
   noise : {{}}, long : {FALSE}, exit : {"none"}, chained : {TRUE}] \cup
  [about : {"failure"}, path : {"helm"}, told : Reason \cup {"none"},
   command : {{}, {"timeout"}, {"forbidden"}}, noise : {{}, {"outage"}, {"missing"}},
   long : {FALSE}, exit : {"none"}, chained : BOOLEAN] \cup
  [about : {"failure"}, path : {"shell"}, told : Reason \cup {"none"},
   command : {{}, {"timeout"}}, noise : UpTo(2, Phrase), long : BOOLEAN,
   exit : {"code", "killed", "none"}, chained : {TRUE}] \cup
  [about : {"failure"}, path : {"exec"}, told : {"none", "NotFound", "Forbidden"},
   command : {{}, {"timeout"}, {"outage"}}, noise : UpTo(2, Phrase), long : BOOLEAN,
   exit : {"none"}, chained : {TRUE}]

(* Pipelines of one item with up to two options ...                        *)
OptionMaps ==
  UNION {[O -> {"blank", "text", "list", "emptyList", "integer"}] :
           O \in UpTo(2, {"replicas", "container", "command", "manifest", "chart", "post"})}

OneItem ==
  [kind : (StepKinds \ {"release"}) \cup {"daemonset"}, options : OptionMaps] \cup
  [kind : {"release"}, options : OptionMaps, file : {"none", "broken", "blank", "text"}] \cup
  [kind : {"custom"}, path : {"blank", "text"}, options : OptionMaps]

Plain0 == [about |-> "configuration", given |-> {"down", "up"}, down |-> <<>>, up |-> <<>>,
           workspace |-> "text", registries |-> <<>>, format |-> <<FALSE, "">>,
           checks |-> {}, execution |-> <<FALSE, "native">>, color |-> <<FALSE, "">>,
           schema |-> "1.0", mode |-> "live"]

(* ... and other settings with one step of the kind they matter to.        *)
Release(f) == [kind |-> "release", options |-> [o \in {} |-> "text"], file |-> f]
Hosts == [host : {"", "h"}, username : {"blank", "text"}, password : {"none", "text"},
          password_env : {"none", "text"}]

MCConfigurations ==
  {[Plain0 EXCEPT !.up = <<i>>] : i \in OneItem} \cup
  {[Plain0 EXCEPT !.down = <<i>>] : i \in OneItem} \cup
  {[Plain0 EXCEPT !.up = <<Release(f)>>, !.workspace = w, !.execution = e, !.schema = s, !.mode = m] :
     f \in {"none", "text"}, w \in {"none", "blank", "text"}, e \in BOOLEAN \X {"", "native", "shell", "auto", "bash"},
     s \in {"1.0", "0.9"}, m \in {"", "dry-run", "live"}} \cup
  {[Plain0 EXCEPT !.registries = <<a, b>>, !.checks = {c}] :
     a \in Hosts, b \in Hosts, c \in BOOLEAN \X {"", "nodes_ready", "other"}} \cup
  {[Plain0 EXCEPT !.given = {}]}

(* Workloads, alone or with an object of another kind.                     *)
Workloads ==
  [replicas : {unset, 0, 1, 2}, current : BOOLEAN, updated : 0..2, ready : 0..2,
   progressing : {"fine", "failed", "silent"}] \cup {none}

(* Of three bits, 5 is applied as -3 and 9 as 1.                           *)
WorkStep(k, n) ==
  [kind |-> k, name |-> "w", namespace |-> "ns", replicas |-> n, container |-> "c"]

OtherStep(k) == [WorkStep(k, unset) EXCEPT !.name = "o"]

Others(k) ==
  CASE k = "cronjob" -> {none} \cup [suspend : {TRUE, FALSE, unset}]
    [] k = "exec"    -> {none} \cup [containers : {{"c"}, {"d"}}]
    [] OTHER         -> {none} \cup [there : {TRUE}]

View(up, w, o, c, n, p) ==
  [about |-> "view", up |-> up, live |-> [x \in {"w", "o"} |-> IF x = "w" THEN w ELSE o],
   checks |-> c, nodes |-> n, pods |-> p]

Nodes == {{}, {[ready |-> TRUE]}, {[ready |-> TRUE], [ready |-> FALSE]}}
Pods  == {{}} \cup {{p} : p \in [namespace : {"ns", "else"}, phase : {"Pending", "Running"},
                                 unschedulable : BOOLEAN]}

Ready2 == [replicas |-> 2, current |-> TRUE, updated |-> 2, ready |-> 2,
           progressing |-> "fine"]

MCViews ==
  {View(<<WorkStep(k, n)>>, w, none, {"workloads_ready"}, {}, {}) :
     k \in Scalable, n \in {unset, 0, 1, 2, 5, 9}, w \in Workloads} \cup
  {View(<<WorkStep("deployment", m), WorkStep("deployment", n)>>, w, none,
        {"workloads_ready"}, {}, {}) :
     m \in {1, 2}, n \in {1, 2}, w \in Workloads} \cup
  UNION {{View(<<WorkStep("statefulset", 2), OtherStep(k)>>, Ready2, o, {"workloads_ready"}, {}, {}) :
            o \in Others(k)} : k \in {"cronjob", "exec", "job", "pvc", "release", "custom"}} \cup
  {View(<<WorkStep("deployment", 2)>>, Ready2, none, c, n, p) :
     c \in UpTo(2, {"workloads_ready", "nodes_ready", "pods_schedulable", "other"}),
     n \in Nodes, p \in Pods}
=============================================================================
