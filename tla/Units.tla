------------------------------- MODULE Units --------------------------------
(***************************************************************************)
(* The units of work of a kzero command and the order they are planned in: *)
(* for each phase its preflight, its pre hook, its pipeline steps and its  *)
(* post hook; between the phases of a reset, the boundary preflight.       *)
(***************************************************************************)
EXTENDS Naturals

Phases == {"down", "up"}
Kinds  == {"preflight", "preHook", "step", "postHook", "boundary"}

Unit == [phase : Phases, kind : Kinds, index : Nat]

UnitAt(p, k, i) == [phase |-> p, kind |-> k, index |-> i]

(* The boundary preflight closes the down phase of a reset.                *)
KindRank == [k \in Kinds |->
  CASE k = "preflight" -> 1
    [] k = "preHook"   -> 2
    [] k = "step"      -> 3
    [] k = "postHook"  -> 4
    [] k = "boundary"  -> 5]

Precedes(u, v) ==
  \/ u.phase = "down" /\ v.phase = "up"
  \/ /\ u.phase = v.phase
     /\ \/ KindRank[u.kind] < KindRank[v.kind]
        \/ u.kind = v.kind /\ u.index < v.index
=============================================================================
