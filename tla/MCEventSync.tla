----------------------------- MODULE MCEventSync -----------------------------
(* EventSync for TLC: resources of a deduped kind, without alerts.           *)
EXTENDS EventSync

CONSTANTS k1, k2, h1, h2

MCDeploymentOf == [k \in {} |-> k1]
=============================================================================
