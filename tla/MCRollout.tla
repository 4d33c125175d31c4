----------------------------- MODULE MCRollout ------------------------------
(* Small steps of Rollout for TLC.                                         *)
EXTENDS Rollout

(* Up with the wait, down, and a dry run.                                  *)
Up   == [kind |-> "deployment", replicas |-> 1, wait |-> TRUE, dryRun |-> FALSE]
Down == [Up EXCEPT !.replicas = 0, !.wait = FALSE]

SmallSteps == {Up, Down, [Up EXCEPT !.dryRun = TRUE]}

WaitSteps == {Up, [Up EXCEPT !.kind = "statefulset"]}
=============================================================================
