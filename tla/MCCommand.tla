----------------------------- MODULE MCCommand ------------------------------
(* Small setups of Command for TLC.                                        *)
EXTENDS Command

(* One release goes up, is checked and goes down before down and reset.    *)
Gating ==
  [cluster |-> "prod", name |-> "main", mode |-> "live", enabled |-> TRUE,
   before |-> {"down", "reset"}, failFast |-> TRUE, ttl |-> 1,
   up |-> <<"release">>, down |-> <<"release">>, checks |-> {"pvc_bound"},
   verify |-> TRUE, notify |-> TRUE]

(* The same name for another cluster and with another check; failures that *)
(* do not count, and a pipeline of two; no probe; a dry run.               *)
SmallSetups ==
  {Gating,
   [Gating EXCEPT !.cluster = "test", !.checks = {"pvc_bound", "pods_schedulable"}],
   [Gating EXCEPT !.failFast = FALSE, !.checks = {"release_ready"},
                  !.up = <<"release", "claim">>, !.down = <<"claim", "release">>],
   [Gating EXCEPT !.enabled = FALSE, !.up = << >>, !.down = << >>, !.notify = FALSE],
   [Gating EXCEPT !.mode = "dry-run"]}
=============================================================================
