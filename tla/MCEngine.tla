------------------------------ MODULE MCEngine ------------------------------
(* Small configurations of Engine for TLC.                                 *)
EXTENDS Engine

(* Two steps down and one up: scripts around the first, none around the    *)
(* others; a hook before down and one after up.                            *)
Base ==
  [mode |-> "live", attempts |-> 2,
   steps |-> [down |-> <<{"pre", "main", "post"}, {"main"}>>, up |-> <<{"main", "post"}>>],
   hooks |-> {<<"down", "pre">>, <<"up", "post">>},
   onError |-> TRUE, timeout |-> TRUE, opTimeout |-> TRUE, watchdog |-> TRUE,
   channels |-> <<"slack", "webhook">>, notifyError |-> TRUE, require |-> TRUE]

(* No channel, no hook, no retry, no steps going down.                     *)
Bare ==
  [Base EXCEPT !.attempts = 0, !.steps.down = << >>, !.hooks = {}, !.channels = << >>]

SafetyConfigs ==
  {Base, Bare,
   [Base EXCEPT !.mode = "dry-run"],
   [Base EXCEPT !.attempts = 3, !.steps.down = <<{"main"}>>, !.require = FALSE],
   [Base EXCEPT !.onError = FALSE, !.opTimeout = FALSE, !.notifyError = FALSE]}

LivenessConfigs == {Base, Bare, [Base EXCEPT !.mode = "dry-run", !.require = FALSE]}

ReliableConfigs == {[Base EXCEPT !.require = FALSE]}
=============================================================================
