------------------------------ MODULE Pipeline ------------------------------
(***************************************************************************)
(* What a kzero command promises (SPECIFICATIONS.md, Failure Policy): the  *)
(* units of its plan succeed one at a time and in order, the first failure *)
(* ends the command, and the command succeeds exactly when all of them     *)
(* have.                                                                   *)
(***************************************************************************)
EXTENDS Units

VARIABLES
  plan,     \* the units of the command
  done,     \* those that have succeeded
  outcome   \* "running", "succeeded" or "failed"

vars == <<plan, done, outcome>>

Init ==
  /\ plan \in SUBSET Unit
  /\ done = {}
  /\ outcome = "running"

Succeed(u) ==
  /\ outcome = "running"
  /\ u \in plan \ done
  /\ \A v \in plan : Precedes(v, u) => v \in done
  /\ done' = done \cup {u}
  /\ outcome' = IF done' = plan THEN "succeeded" ELSE "running"
  /\ UNCHANGED plan

Fail ==
  /\ outcome = "running"
  /\ outcome' = "failed"
  /\ UNCHANGED <<plan, done>>

Next == Fail \/ \E u \in plan : Succeed(u)

Spec == Init /\ [][Next]_vars
=============================================================================
