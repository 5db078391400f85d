---------------------------- MODULE MCHashDeduper ----------------------------
(* HashDeduper for TLC: a deployment and its alert.                          *)
EXTENDS HashDeduper

CONSTANTS dep, alert, h1, h2

MCDeploymentOf == [a \in AlertKeys |-> dep]

\* The deployment is listed with either content, updated to the second one and removed;
\* its alert has one content.
MCTraffic ==
    {m \in FirstMsg :
        \/ m.key = dep /\ ~ (m.act = "UPDATE" /\ m.val = h1)
        \/ m.key = alert /\ m.val # h2}
=============================================================================
