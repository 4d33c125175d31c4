------------------------------ MODULE Tripwire ------------------------------
(***************************************************************************)
(* What the API watchdog promises the engine it watches (watchdog.Config,  *)
(* startAPIObserver): it trips at most once, the mark of a stall comes     *)
(* before the cancellation it explains, and the goroutine goes away between*)
(* trips, not in the middle of one, and only when its context is over.     *)
(* When it trips is its own affair.                                        *)
(***************************************************************************)

VARIABLES
  guard,    \* "armed", "tripping", "tripped", "stopped"
  mark,     \* the stall has been marked
  context   \* "live" or "over"

vars == <<guard, mark, context>>

(* Without a watchdog there is nothing to trip.                            *)
Init == guard \in {"armed", "stopped"} /\ mark = FALSE /\ context = "live"

Mark ==
  /\ guard = "armed" /\ guard' = "tripping"
  /\ mark' = TRUE
  /\ UNCHANGED context

CancelContext ==
  /\ guard = "tripping" /\ guard' = "tripped"
  /\ context' = "over"
  /\ UNCHANGED mark

(* The operator, the clock, or the end of the command.                     *)
EndContext ==
  /\ context = "live" /\ context' = "over"
  /\ UNCHANGED <<guard, mark>>

Leave ==
  /\ guard \in {"armed", "tripped"} /\ guard' = "stopped"
  /\ context = "over"
  /\ UNCHANGED <<mark, context>>

Next == Mark \/ CancelContext \/ EndContext \/ Leave

Spec == Init /\ [][Next]_vars
=============================================================================
