--------------------------- MODULE SensorSessions ---------------------------
(***************************************************************************)
(* What the connection manager promises to the rest of Central, which sees *)
(* the Sensors through GetConnection: a cluster has no session or one,     *)
(* which is in its initial synchronization or synced; a session may end or *)
(* be replaced at any time; and a cluster that is deleted is cut off at    *)
(* some point, after which it has no session until it is put back.         *)
(***************************************************************************)
CONSTANT Clusters

VARIABLES
    session,   \* of each cluster: "none", "syncing" or "synced"
    deleted,   \* the clusters that are no longer in the database
    cut        \* the deleted clusters that are cut off

vars == <<session, deleted, cut>>

Init ==
    /\ session = [cl \in Clusters |-> "none"]
    /\ deleted = {} /\ cut = {}

\* A new connection, also in the place of another one, or of a cluster just deleted.
Connect(cl) ==
    /\ cl \notin cut
    /\ session' = [session EXCEPT ![cl] = "syncing"]
    /\ UNCHANGED <<deleted, cut>>

Sync(cl) ==
    /\ session[cl] = "syncing"
    /\ session' = [session EXCEPT ![cl] = "synced"]
    /\ UNCHANGED <<deleted, cut>>

Lose(cl) ==
    /\ session' = [session EXCEPT ![cl] = "none"]
    /\ UNCHANGED <<deleted, cut>>

Delete(cl) ==
    /\ deleted' = deleted \cup {cl}
    /\ UNCHANGED <<session, cut>>

CutOff(cl) ==
    /\ cl \in deleted
    /\ session' = [session EXCEPT ![cl] = "none"]
    /\ cut' = cut \cup {cl}
    /\ UNCHANGED deleted

\* The cluster is in the database again, before it is cut off or after.
PutBack(cl) ==
    /\ cl \in deleted
    /\ deleted' = deleted \ {cl} /\ cut' = cut \ {cl}
    /\ UNCHANGED session

Next == \E cl \in Clusters : \/ Connect(cl) \/ Sync(cl) \/ Lose(cl)
                            \/ Delete(cl) \/ CutOff(cl) \/ PutBack(cl)

Spec == Init /\ [][Next]_vars
=============================================================================
