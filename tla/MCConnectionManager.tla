------------------------ MODULE MCConnectionManager ------------------------
(* ConnectionManager for TLC: a cluster with a Sensor that reconnects and a  *)
(* second deployment, and another cluster.                                   *)
EXTENDS ConnectionManager

CONSTANTS a1, a2, b1, A, B

Id(ns, system, app) ==
    [appNamespace |-> ns, systemNamespaceId |-> system, defaultNamespaceId |-> "",
     appNamespaceId |-> app, appServiceaccountId |-> ""]

MCClusterOf == [c \in Conns |-> IF c = b1 THEN B ELSE A]
\* a1 and b1 belong to the deployment of their cluster, a2 also to a second one for A.
MCIds == [c \in Conns |-> {Id("stackrox", "s1", "n1")}
                          \cup (IF c = a2 THEN {Id("stackrox", "s2", "n2")} ELSE {})]
=============================================================================
