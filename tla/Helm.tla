-------------------------------- MODULE Helm --------------------------------
(***************************************************************************)
(* A release step: UpgradeInstall and Uninstall with the Helm SDK          *)
(* (internal/executor/helm_sdk.go, chartspec.go, registry_auth.go), or the *)
(* helm binary and the release script (helm_shell.go, release_script.go).  *)
(*                                                                         *)
(* The status of the release is what Helm writes in the cluster before and *)
(* after each of its operations: a process that dies in between leaves a   *)
(* pending or uninstalling release behind.                                 *)
(***************************************************************************)
EXTENDS Errors

CONSTANTS
  NoRelease, NotGiven,  (* no record of a release; a field left out *)
  OtherRelease          (* may other operators touch the release and its registry *)

Statuses == {"deployed", "failed", "pending-install", "pending-upgrade", "uninstalling",
             "uninstalled"}

ASSUME ReleaseAssumption == OtherRelease \in BOOLEAN /\ NoRelease \notin Statuses

Pending == {"pending-install", "pending-upgrade"}

VARIABLES
  release,    \* status of the last revision, or NoRelease
  namespace,  \* the namespace is there
  stored,     \* the registry's credentials are on disk
  loggedIn,   \* the cache of the process: it has logged in
  op,         \* where the operation is, "idle" if there is none
  result      \* its error once op is "returned", {} if it has none

helm == <<release, namespace, stored, loggedIn, op, result>>

Ops == {"idle", "namespace", "create", "login", "locate", "history", "install",
        "upgrade", "uninstall", "script", "returned"}

HelmTypeOK ==
  /\ release \in Statuses \cup {NoRelease}
  /\ namespace \in BOOLEAN /\ stored \in BOOLEAN /\ loggedIn \in BOOLEAN
  /\ op \in Ops
  /\ \A e \in result : e \in Error

-----------------------------------------------------------------------------
(* The chart of a step: <workspace>/<release>.yaml, overridden by the step.*)

Either(first, second, default) ==
  IF first # NotGiven THEN first ELSE IF second # NotGiven THEN second ELSE default

(* Version, values, wait and timeout are left out.                         *)
ResolveChartSpec(step, file) ==
  [chart           |-> Either(step.chart, file.chart, NotGiven),
   createNamespace |-> Either(step.createNamespace, file.createNamespace, FALSE)]

SpecOf(step) == ResolveChartSpec(step, step.file)

(* The script of the shell path: the step's, or <release>.sh; it must be   *)
(* there.                                                                  *)
resolveReleaseScript(step) == Either(step.script, "<release>.sh", NotGiven)

(* A chart of a registry that kzero has to log in to.                      *)
Private(step) == SpecOf(step).chart = "oci" /\ step.registry

Return(errors) == op' = "returned" /\ result' = errors

OpFails(e) == Return({e})

-----------------------------------------------------------------------------
(* UpgradeInstall.                                                         *)

Fetch(step) == op' = IF Private(step) THEN "login" ELSE "locate"

BeginUp(step) ==
  /\ op = "idle"
  /\ IF ~step.sdk
       THEN IF resolveReleaseScript(step) \in step.files
              THEN op' = "script" /\ UNCHANGED result
              ELSE OpFails(Plain({}))
       ELSE IF SpecOf(step).chart = NotGiven
              THEN OpFails(Plain({}))
              ELSE /\ IF SpecOf(step).createNamespace THEN op' = "namespace" ELSE Fetch(step)
                   /\ UNCHANGED result
  /\ UNCHANGED <<release, namespace, stored, loggedIn>>

(* ensureNamespace: Get, then Create.                                      *)
GetNamespace(step) ==
  /\ op = "namespace"
  /\ IF namespace THEN Fetch(step) ELSE op' = "create"
  /\ UNCHANGED <<release, namespace, stored, loggedIn, result>>

CreateNamespace(step) ==
  /\ op = "create"
  /\ IF namespace
       THEN OpFails(Status("AlreadyExists")) /\ UNCHANGED namespace
       ELSE Fetch(step) /\ namespace' = TRUE /\ UNCHANGED result
  /\ UNCHANGED <<release, stored, loggedIn>>

(* EnsureOCIRegistryAuth: once per process.                                *)
Login ==
  /\ op = "login"
  /\ op' = "locate"
  /\ loggedIn' = TRUE /\ stored' = (stored \/ ~loggedIn)
  /\ UNCHANGED <<release, namespace, result>>

(* The chart is fetched with the credentials on disk.                      *)
Locate(step) ==
  /\ op = "locate"
  /\ IF Private(step) /\ ~stored
       THEN OpFails(Plain({"denied"}))
       ELSE op' = "history" /\ UNCHANGED result
  /\ UNCHANGED <<release, namespace, stored, loggedIn>>

releaseNeedsInstall == release \in {NoRelease, "uninstalled"}

(* helmInstall does not ask for Replace: any record of the name is in its  *)
(* way.  An upgrade wants a last revision that is deployed or failed.      *)
History ==
  /\ op = "history"
  /\ \/ /\ releaseNeedsInstall
        /\ IF release = NoRelease
             THEN op' = "install" /\ release' = "pending-install" /\ UNCHANGED result
             ELSE OpFails(Plain({})) /\ UNCHANGED release
     \/ /\ ~releaseNeedsInstall
        /\ IF release \in {"deployed", "failed"}
             THEN op' = "upgrade" /\ release' = "pending-upgrade" /\ UNCHANGED result
             ELSE OpFails(Plain({})) /\ UNCHANGED release
  /\ UNCHANGED <<namespace, stored, loggedIn>>

(* The script is the operator's: taken to run helm upgrade --install.      *)
Finish ==
  /\ op \in {"install", "upgrade", "script"}
  /\ IF op = "script" /\ release \notin {NoRelease, "deployed", "failed", "uninstalled"}
       THEN OpFails(Plain({})) /\ UNCHANGED release
       ELSE Return({}) /\ release' = "deployed"
  /\ UNCHANGED <<namespace, stored, loggedIn>>

(* The resources are refused, do not become ready in time, or the context  *)
(* ends: Helm marks the revision failed.                                   *)
Break ==
  /\ op \in {"install", "upgrade"}
  /\ release' = "failed"
  /\ \E e \in {Plain({}), Deadline} : OpFails(e)
  /\ UNCHANGED <<namespace, stored, loggedIn>>

-----------------------------------------------------------------------------
(* Uninstall: a release that is not there is no error, and one in whatever *)
(* state can be uninstalled.                                               *)

(* Faulty variant: a release in the middle of an operation is left alone.  *)
NotWhilePending ==
  /\ op = "idle"
  /\ IF release \in Pending
       THEN OpFails(Plain({})) /\ UNCHANGED release
       ELSE IF release \in {NoRelease, "uninstalled"}
              THEN Return({}) /\ release' = NoRelease
              ELSE op' = "uninstall" /\ release' = "uninstalling" /\ UNCHANGED result
  /\ UNCHANGED <<namespace, stored, loggedIn>>

BeginDown ==
  /\ op = "idle"
  /\ IF release \in {NoRelease, "uninstalled"}
       THEN Return({}) /\ release' = NoRelease
       ELSE op' = "uninstall" /\ release' = "uninstalling" /\ UNCHANGED result
  /\ UNCHANGED <<namespace, stored, loggedIn>>

Purge ==
  /\ op = "uninstall"
  /\ Return({}) /\ release' = NoRelease
  /\ UNCHANGED <<namespace, stored, loggedIn>>

(* Deleting fails, or waiting for it: the records may be purged or not.    *)
PurgeFails ==
  /\ op = "uninstall"
  /\ release' \in {"uninstalling", NoRelease}
  /\ OpFails(Plain({}))
  /\ UNCHANGED <<namespace, stored, loggedIn>>

-----------------------------------------------------------------------------

(* Any call to the cluster, the registry or the chart repository can fail. *)
CallBreaks ==
  /\ op \in {"namespace", "create", "login", "locate", "history", "script"}
  /\ \E e \in {NoConnection, Plain({"denied"})} : OpFails(e)
  /\ UNCHANGED <<release, namespace, stored, loggedIn>>

HelmFails == Break \/ PurgeFails \/ CallBreaks

HelmWorks(step) ==
  \/ GetNamespace(step) \/ CreateNamespace(step) \/ Login \/ Locate(step)
  \/ History \/ Finish \/ Purge

(* The process has ended: the cache goes with it, the cluster stays.       *)
Forget == op' = "idle" /\ result' = {} /\ loggedIn' = FALSE
          /\ UNCHANGED <<release, namespace, stored>>

(* The step takes the result and goes on in the same process.              *)
Collect == op = "returned" /\ op' = "idle" /\ result' = {}
           /\ UNCHANGED <<release, namespace, stored, loggedIn>>

(* Somebody uninstalls and keeps the history, makes the namespace, or logs *)
(* out of the registry.                                                    *)
OtherOnRelease ==
  /\ OtherRelease
  /\ \/ /\ release = "deployed" /\ release' = "uninstalled"
        /\ UNCHANGED <<namespace, stored>>
     \/ ~namespace /\ namespace' = TRUE /\ UNCHANGED <<release, stored>>
     \/ stored /\ stored' = FALSE /\ UNCHANGED <<release, namespace>>
  /\ UNCHANGED <<loggedIn, op, result>>
=============================================================================
