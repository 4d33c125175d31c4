------------------------------ MODULE MCSteps -------------------------------
(* Small pipelines of Steps for TLC.                                       *)
EXTENDS Steps

CONSTANTS none, unset

Plain1(kind) ==
  [kind |-> kind, name |-> kind, namespace |-> "ns", replicas |-> unset, container |-> "c",
   wait |-> TRUE, post |-> FALSE]

File == [chart |-> "oci", createNamespace |-> unset]

(* A release of a private chart, its namespace made if need be.            *)
SDK ==
  [kind |-> "release", name |-> "release", namespace |-> "ns", replicas |-> unset,
   wait |-> TRUE, post |-> FALSE, sdk |-> TRUE, registry |-> TRUE, file |-> File,
   chart |-> unset, createNamespace |-> TRUE, script |-> unset, files |-> {"<release>.sh"}]

Shell == [SDK EXCEPT !.sdk = FALSE]

(* Scale, wait for the pods to go, delete the claim (pattern A).           *)
Data == [down |-> <<[Plain1("statefulset") EXCEPT !.post = TRUE], Plain1("pvc")>>,
         up   |-> <<Plain1("statefulset"), Plain1("exec")>>]

Batch == [down |-> <<Plain1("cronjob"), Plain1("job")>>,
          up   |-> <<Plain1("job"), Plain1("cronjob")>>]

Releases(s) == [down |-> <<s>>, up |-> <<s>>]

UpOnly == [down |-> <<>>, up |-> <<Plain1("cronjob")>>]

MCPlans == {Data, Batch, Releases(SDK), Releases(Shell), UpOnly}

MCCommands ==
  {<<"down", "live">>, <<"up", "live">>, <<"reset", "live">>, <<"reset", "dry">>, <<"up", "plan">>}

LiveCommands == {<<"up", "live">>, <<"reset", "live">>}
=============================================================================
