--------------------------- MODULE MCClusterUpgrade ---------------------------
(* Instances of ClusterUpgrade for TLC. *)
EXTENDS ClusterUpgrade

TwoVersions == {1, 2}
=============================================================================
