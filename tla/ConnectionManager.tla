------------------------- MODULE ConnectionManager -------------------------
(***************************************************************************)
(* Central's connections to the Sensors of its clusters: HandleConnection, *)
(* which runs once for every stream, the limit on Sensors in their initial *)
(* synchronization, the map of active connections, the deletion and the    *)
(* update of a cluster, and the preference about client reconciliation.    *)
(*                                                                         *)
(* A Sensor that loses its stream connects again, before or after Central  *)
(* notices; two deployments may use the same cluster.                      *)
(***************************************************************************)
EXTENDS Integers, FiniteSets

CONSTANTS
    Conns, NoConn,   \* connections; a connection object that is free is used again
    Clusters,
    ClusterOf,       \* the cluster of each connection
    Ids,             \* the deployment identifications with which each may come
    Oversized,       \* clusters whose unchanged ids are too large for a message
    MaxSensors,      \* env.CentralMaxInitSyncSensors, 0 for no limit
    Disturbed,       \* bounds: the clusters that are updated, deleted, and whose streams break,
    Scenarios        \* each once, and the sets of these that happen together

ASSUME ConnsAssumption ==
    /\ NoConn \notin Conns
    /\ ClusterOf \in [Conns -> Clusters]
    /\ \A c \in Conns : Ids[c] # {}
    /\ Oversized \subseteq Clusters
    /\ Disturbed \subseteq Clusters
    /\ MaxSensors \in Nat /\ Scenarios \subseteq SUBSET {"break", "delete", "update"}

VARIABLES
    pc,          \* where the handler of each connection is
    alive,       \* connections whose stream Sensor still uses
    id,          \* the deployment identification in its SensorHello
    stop,        \* stopSig: "no", "yes", or "large" for a message that is too large
    told,        \* connections whose Sensor was told to use client reconciliation
    old,         \* what replaceConnection has returned to it
    rec,         \* the handling of its Synced event: "no", "busy" or "done"
    conn, mutex, \* connectionsByClusterID and the writer that holds its mutex
    slots,       \* initSyncManager: clusters
    dedupers,    \* the hash manager: clusters
    pref,        \* connectionPreference: "unset", "send" or "skip"
    exists,      \* the clusters in the database
    closing,     \* CloseConnection of each deleted cluster
    target,      \* the connection it has found
    upd,         \* UpdateCluster, which holds the lock of the cluster datastore
    robbed,      \* ghost: connections whose slot another connection has given back
    disturbances

helloVars == <<id, told>>
handlerVars == <<pc, alive, stop, helloVars, old>>
managerVars == <<conn, mutex>>
closeVars == <<exists, closing, target>>
vars == <<handlerVars, rec, managerVars, slots, robbed, dedupers, pref, closeVars,
          upd, disturbances>>

NoId == [appNamespace |-> "", systemNamespaceId |-> "", defaultNamespaceId |-> "",
         appNamespaceId |-> "", appServiceaccountId |-> ""]
NoUpdate == [at |-> "idle", cluster |-> NoConn, conn |-> NoConn]

Init ==
    /\ pc = [c \in Conns |-> "free"] /\ alive = {}
    /\ id = [c \in Conns |-> NoId] /\ told = {}
    /\ stop = [c \in Conns |-> "yes"]
    /\ old = [c \in Conns |-> NoConn] /\ rec = [c \in Conns |-> "no"]
    /\ conn = [cl \in Clusters |-> NoConn] /\ mutex = NoConn
    /\ slots = {} /\ robbed = {} /\ dedupers = {}
    /\ pref = [cl \in Clusters |-> "unset"]
    /\ exists = Clusters
    /\ closing = [cl \in Clusters |-> "no"] /\ target = [cl \in Clusters |-> NoConn]
    /\ upd = NoUpdate
    /\ disturbances = {}

-----------------------------------------------------------------------------
Goto(c, place) == pc' = [pc EXCEPT ![c] = place]
Disturb(cl, what) ==
    /\ cl \in Disturbed /\ what \notin disturbances
    /\ \E s \in Scenarios : disturbances \cup {what} \subseteq s
    /\ disturbances' = disturbances \cup {what}
OfCluster(cl) == {c \in Conns : ClusterOf[c] = cl}

\* The lock of the cluster datastore; who takes it for one step only does not appear.
DatastoreFree == upd.at = "idle"

Distinct(a, b) == a # "" /\ b # "" /\ a # b
Equal(a, b) == a # "" /\ a = b

\* CheckConnReplace: the same deployment, as far as one can tell.
CheckConnReplace(new, cur) ==
    /\ ~ Distinct(new.appNamespace, cur.appNamespace)
    /\ ~ Distinct(new.systemNamespaceId, cur.systemNamespaceId)
    /\ ~ Distinct(new.defaultNamespaceId, cur.defaultNamespaceId)
    /\ \/ /\ ~ Distinct(new.appNamespaceId, cur.appNamespaceId)
          /\ ~ Distinct(new.appServiceaccountId, cur.appServiceaccountId)
       \/ /\ Equal(new.appNamespace, cur.appNamespace)
          /\ \/ Equal(new.systemNamespaceId, cur.systemNamespaceId)
             \/ Equal(new.defaultNamespaceId, cur.defaultNamespaceId)

\* The connections that are in their initial synchronization.
Admitted == {"new", "replacing", "registering", "registered", "prelude", "running"}
InInitSync == {c \in Conns : pc[c] \in Admitted /\ rec[c] # "done" /\ stop[c] = "no"}

\* The handler of c returns: the stream is closed, the connection object is garbage.
Return(c) ==
    /\ pc' = [pc EXCEPT ![c] = "free"]
    /\ alive' = alive \ {c} /\ told' = told \ {c}
    /\ stop' = [stop EXCEPT ![c] = "yes"] /\ id' = [id EXCEPT ![c] = NoId]
    /\ rec' = [rec EXCEPT ![c] = IF @ = "done" THEN "no" ELSE @]
    /\ UNCHANGED old

\* initSyncManager.Remove, called for the connection c or, by CloseConnection, for none:
\* the slot is the one of the cluster.
RemoveSlot(cl, c) ==
    /\ slots' = slots \ {cl}
    /\ robbed' = (robbed \cup {d \in InInitSync : ClusterOf[d] = cl}) \ {c}

-----------------------------------------------------------------------------
\* A Sensor without a stream opens one; Communicate finds its cluster, and loads the
\* preference.  A connection object that nobody refers to any more is used again.
Arrive(c) ==
    LET cl == ClusterOf[c] IN
    /\ pc[c] = "free" /\ rec[c] # "busy"
    /\ \A d \in Conns : old[d] # c
    /\ \A k \in Clusters : target[k] # c
    /\ upd.conn # c
    /\ \E i \in Ids[c] : /\ \A d \in alive : ~ (ClusterOf[d] = cl /\ id[d] = i)
                         /\ id' = [id EXCEPT ![c] = i]
    /\ DatastoreFree /\ cl \in exists
    /\ alive' = alive \cup {c}
    /\ stop' = [stop EXCEPT ![c] = "no"] /\ rec' = [rec EXCEPT ![c] = "no"]
    /\ told' = IF pref[cl] = "skip" THEN told \ {c} ELSE told \cup {c}
    /\ Goto(c, IF pref[cl] = "unset" THEN "loaded" ELSE "hello")
    /\ UNCHANGED <<old, managerVars, slots, robbed, dedupers, pref, closeVars, upd, disturbances>>

\* GetConnectionPreference stores the default if it has found none before.
StorePreference(c) ==
    /\ pc[c] = "loaded"
    /\ pref' = [pref EXCEPT ![ClusterOf[c]] = "send"]
    /\ Goto(c, "hello")
    /\ UNCHANGED <<alive, stop, helloVars, old, rec, managerVars, slots, robbed, dedupers,
                   closeVars, upd, disturbances>>

\* Mutant: one Sensor too many.
HasRoomInclusive == MaxSensors = 0 \/ Cardinality(slots) <= MaxSensors
HasRoom == MaxSensors = 0 \/ Cardinality(slots) < MaxSensors

\* HandleConnection: a slot, then newConnection with the deduper of the cluster ...
Admit(c) ==
    /\ pc[c] = "hello" /\ HasRoom
    /\ slots' = IF MaxSensors = 0 THEN slots ELSE slots \cup {ClusterOf[c]}
    /\ dedupers' = dedupers \cup {ClusterOf[c]}
    /\ Goto(c, "new")
    /\ UNCHANGED <<alive, stop, helloVars, old, rec, managerVars, robbed, pref, closeVars,
                   upd, disturbances>>

\* ... or an error, and the stream is closed.
Reject(c) ==
    /\ pc[c] = "hello" /\ ~ HasRoom
    /\ Return(c)
    /\ UNCHANGED <<managerVars, slots, robbed, dedupers, pref, closeVars, upd,
                   disturbances>>

\* replaceConnection takes the mutex of the map ...
LockMap(c) ==
    /\ pc[c] = "new" /\ mutex = NoConn
    /\ LET cur == conn[ClusterOf[c]] IN
          \/ /\ cur # NoConn /\ ~ CheckConnReplace(id[c], id[cur])
             /\ Goto(c, "refused") /\ UNCHANGED <<mutex, old>>
          \/ /\ cur # NoConn => CheckConnReplace(id[c], id[cur])
             /\ mutex' = c /\ old' = [old EXCEPT ![c] = cur]
             /\ Goto(c, "replacing")
    /\ UNCHANGED <<alive, stop, helloVars, rec, conn, slots, robbed, dedupers, pref,
                   closeVars, upd, disturbances>>

\* ... and, holding it, that of the datastore for UpdateSensorDeploymentIdentification,
\* which fails for a cluster that was deleted ...
UpdateIdentification(c) ==
    /\ pc[c] = "replacing" /\ DatastoreFree
    /\ \/ ClusterOf[c] \in exists /\ Goto(c, "registering") /\ UNCHANGED <<mutex, old>>
       \/ /\ ClusterOf[c] \notin exists
          /\ mutex' = NoConn /\ old' = [old EXCEPT ![c] = NoConn]
          /\ Goto(c, "refused")
    /\ UNCHANGED <<alive, stop, helloVars, rec, conn, slots, robbed, dedupers, pref,
                   closeVars, upd, disturbances>>

\* ... and again for the upgrade controller's RegisterConnection; then the map is changed.
Register(c) ==
    /\ pc[c] = "registering" /\ DatastoreFree
    /\ conn' = [conn EXCEPT ![ClusterOf[c]] = c]
    /\ mutex' = NoConn
    /\ Goto(c, "registered")
    /\ UNCHANGED <<alive, stop, helloVars, old, rec, slots, robbed, dedupers, pref,
                   closeVars, upd, disturbances>>

\* Mutant: the replaced connection goes on.
TerminateOldNot(c) ==
    /\ pc[c] = "registered"
    /\ old' = [old EXCEPT ![c] = NoConn]
    /\ Goto(c, "prelude")
    /\ UNCHANGED <<alive, stop, helloVars, rec, managerVars, slots, robbed, dedupers, pref,
                   closeVars, upd, disturbances>>

Signal(c, why) == stop' = IF stop[c] = "no" THEN [stop EXCEPT ![c] = why] ELSE stop

TerminateOld(c) ==
    /\ pc[c] = "registered"
    /\ IF old[c] = NoConn THEN UNCHANGED stop ELSE Signal(old[c], "yes")
    /\ old' = [old EXCEPT ![c] = NoConn]
    /\ Goto(c, "prelude")
    /\ UNCHANGED <<alive, helloVars, rec, managerVars, slots, robbed, dedupers, pref,
                   closeVars, upd, disturbances>>

\* Run reads the cluster and sends the configuration; it returns if one of them fails.
\* Then runSend and runRecv start.
Prelude(c) ==
    /\ pc[c] = "prelude"
    /\ \/ ClusterOf[c] \in exists /\ Goto(c, "running") /\ UNCHANGED stop
       \/ /\ c \notin alive \/ ClusterOf[c] \notin exists
          /\ Goto(c, "ended") /\ Signal(c, "yes")
    /\ UNCHANGED <<alive, helloVars, old, rec, managerVars, slots, robbed, dedupers, pref,
                   closeVars, upd, disturbances>>

\* addMultiplexed for the Synced event, which may outlive its connection.
SyncedEvent(c) ==
    /\ pc[c] = "running" /\ stop[c] = "no" /\ c \in alive /\ rec[c] = "no"
    /\ ~ (c \in told /\ ClusterOf[c] \in Oversized)
    /\ rec' = [rec EXCEPT ![c] = "busy"]
    /\ UNCHANGED <<handlerVars, managerVars, slots, robbed, dedupers, pref, closeVars,
                   upd, disturbances>>

Reconciled(c) ==
    /\ rec[c] = "busy"
    /\ rec' = [rec EXCEPT ![c] = IF pc[c] = "free" THEN "no" ELSE "done"]
    /\ RemoveSlot(ClusterOf[c], c)
    /\ UNCHANGED <<handlerVars, managerVars, dedupers, pref, closeVars, upd, disturbances>>

\* The unchanged ids are too large for a message: Recv returns ResourceExhausted.
TooLarge(c) ==
    /\ pc[c] = "running" /\ stop[c] = "no" /\ c \in alive /\ rec[c] = "no"
    /\ c \in told /\ ClusterOf[c] \in Oversized
    /\ Signal(c, "large")
    /\ UNCHANGED <<pc, alive, helloVars, old, rec, managerVars, slots, robbed, dedupers, pref,
                   closeVars, upd, disturbances>>

\* A Sensor ends or loses its stream; Central notices later.
Break(c) ==
    /\ c \in alive /\ Disturb(ClusterOf[c], "break")
    /\ alive' = alive \ {c}
    /\ UNCHANGED <<pc, stop, helloVars, old, rec, managerVars, slots, robbed, dedupers, pref,
                   closeVars, upd>>

Notice(c) ==
    /\ pc[c] = "running" /\ stop[c] = "no" /\ c \notin alive
    /\ Signal(c, "yes")
    /\ UNCHANGED <<pc, alive, helloVars, old, rec, managerVars, slots, robbed, dedupers, pref,
                   closeVars, upd, disturbances>>

\* Mutant: the connection preference is not changed.
RunEndsForgets(c) ==
    /\ pc[c] = "running" /\ stop[c] # "no"
    /\ Goto(c, "ended")
    /\ UNCHANGED <<alive, stop, helloVars, old, rec, managerVars, slots, robbed, dedupers, pref,
                   closeVars, upd, disturbances>>

\* Run returns after the next Recv: handleConnectionError.
RunEnds(c) ==
    /\ pc[c] = "running" /\ stop[c] # "no"
    /\ pref' = IF stop[c] = "large" THEN [pref EXCEPT ![ClusterOf[c]] = "skip"] ELSE pref
    /\ Goto(c, "ended")
    /\ UNCHANGED <<alive, stop, helloVars, old, rec, managerVars, slots, robbed, dedupers,
                   closeVars, upd, disturbances>>

\* The slot is given back after Run ...
GiveBackSlot(c) ==
    /\ pc[c] = "ended"
    /\ RemoveSlot(ClusterOf[c], c)
    /\ Goto(c, "released")
    /\ UNCHANGED <<alive, stop, helloVars, old, rec, managerVars, dedupers, pref, closeVars,
                   upd, disturbances>>

\* Mutant: the entry stays.
ClearMapNot(c) ==
    /\ pc[c] = "released" /\ mutex = NoConn
    /\ Return(c)
    /\ UNCHANGED <<managerVars, slots, robbed, dedupers, pref, closeVars, upd, disturbances>>

\* ... then the entry of the map is cleared.
ClearMap(c) ==
    /\ pc[c] = "released" /\ mutex = NoConn
    /\ conn' = [conn EXCEPT ![ClusterOf[c]] = IF @ = c THEN NoConn ELSE @]
    /\ Return(c)
    /\ UNCHANGED <<mutex, slots, robbed, dedupers, pref, closeVars, upd, disturbances>>

\* Mutant: a connection that is refused keeps the slot.
RefuseNot(c) ==
    /\ pc[c] = "refused"
    /\ Return(c)
    /\ UNCHANGED <<managerVars, slots, robbed, dedupers, pref, closeVars, upd, disturbances>>

\* A connection that may not replace another one gives the slot back, too.
Refuse(c) ==
    /\ pc[c] = "refused"
    /\ RemoveSlot(ClusterOf[c], c)
    /\ Return(c)
    /\ UNCHANGED <<managerVars, dedupers, pref, closeVars, upd, disturbances>>

-----------------------------------------------------------------------------
\* RemoveCluster deletes the cluster and starts postRemoveCluster, which calls
\* CloseConnection: the slot ...
RemoveCluster(cl) ==
    /\ cl \in exists /\ DatastoreFree /\ Disturb(cl, "delete")
    /\ exists' = exists \ {cl}
    /\ closing' = [closing EXCEPT ![cl] = "slot"]
    /\ UNCHANGED <<handlerVars, rec, managerVars, slots, robbed, dedupers, pref, target,
                   upd>>

CloseSlot(cl) ==
    /\ closing[cl] = "slot"
    /\ RemoveSlot(cl, NoConn)
    /\ closing' = [closing EXCEPT ![cl] = "get"]
    /\ UNCHANGED <<handlerVars, rec, managerVars, dedupers, pref, exists, target,
                   upd, disturbances>>

\* Mutant: the connection is looked up without the mutex.
CloseGetUnlocked(cl) ==
    /\ closing[cl] = "get"
    /\ target' = [target EXCEPT ![cl] = conn[cl]]
    /\ closing' = [closing EXCEPT ![cl] = IF conn[cl] = NoConn THEN "delete" ELSE "terminate"]
    /\ UNCHANGED <<handlerVars, rec, managerVars, slots, robbed, dedupers, pref, exists,
                   upd, disturbances>>

\* ... GetConnection ...
CloseGet(cl) ==
    /\ closing[cl] = "get" /\ mutex = NoConn
    /\ target' = [target EXCEPT ![cl] = conn[cl]]
    /\ closing' = [closing EXCEPT ![cl] = IF conn[cl] = NoConn THEN "delete" ELSE "terminate"]
    /\ UNCHANGED <<handlerVars, rec, managerVars, slots, robbed, dedupers, pref, exists,
                   upd, disturbances>>

\* ... Terminate, and a wait that is limited in time ...
CloseTerminate(cl) ==
    /\ closing[cl] = "terminate"
    /\ Signal(target[cl], "yes")
    /\ target' = [target EXCEPT ![cl] = NoConn]
    /\ closing' = [closing EXCEPT ![cl] = "delete"]
    /\ UNCHANGED <<pc, alive, helloVars, old, rec, managerVars, slots, robbed, dedupers, pref,
                   exists, upd, disturbances>>

\* ... and the deduper.
CloseDelete(cl) ==
    /\ closing[cl] = "delete"
    /\ dedupers' = dedupers \ {cl}
    /\ closing' = [closing EXCEPT ![cl] = "done"]
    /\ UNCHANGED <<handlerVars, rec, managerVars, slots, robbed, pref, exists, target,
                   upd, disturbances>>

\* UpdateCluster, of PutCluster or of Communicate, which have read the cluster earlier: it is
\* put into the database even if it was deleted since.  The lock of the datastore is held
\* during GetConnection ...
UpdateCluster(cl) ==
    /\ upd.at = "idle" /\ Disturb(cl, "update")
    /\ exists' = exists \cup {cl}
    /\ upd' = [at |-> "get", cluster |-> cl, conn |-> NoConn]
    /\ UNCHANGED <<handlerVars, rec, managerVars, slots, robbed, dedupers, pref, closing,
                   target>>

\* Mutant: no check that there is a connection.
UpdateGetNil ==
    /\ upd.at = "get" /\ mutex = NoConn
    /\ upd' = [upd EXCEPT !.at = "inject", !.conn = conn[upd.cluster]]
    /\ UNCHANGED <<handlerVars, rec, managerVars, slots, robbed, dedupers, pref, closeVars,
                   disturbances>>

UpdateGet ==
    /\ upd.at = "get" /\ mutex = NoConn
    /\ upd' = IF conn[upd.cluster] = NoConn THEN NoUpdate
              ELSE [upd EXCEPT !.at = "inject", !.conn = conn[upd.cluster]]
    /\ UNCHANGED <<handlerVars, rec, managerVars, slots, robbed, dedupers, pref, closeVars,
                   disturbances>>

\* ... and InjectMessage, until runSend takes the message or the connection is stopped.
UpdateInject ==
    /\ upd.at = "inject"
    /\ pc[upd.conn] = "running" \/ stop[upd.conn] # "no"
    /\ upd' = NoUpdate
    /\ UNCHANGED <<handlerVars, rec, managerVars, slots, robbed, dedupers, pref, closeVars,
                   disturbances>>

-----------------------------------------------------------------------------
HandleConnection(c) ==
    \/ StorePreference(c) \/ Admit(c) \/ Reject(c) \/ LockMap(c) \/ UpdateIdentification(c)
    \/ Register(c) \/ TerminateOld(c) \/ Prelude(c) \/ RunEnds(c)
    \/ GiveBackSlot(c) \/ ClearMap(c) \/ Refuse(c)
Receive(c) == SyncedEvent(c) \/ TooLarge(c) \/ Notice(c)
CloseConnection(cl) == CloseSlot(cl) \/ CloseGet(cl) \/ CloseTerminate(cl) \/ CloseDelete(cl)

Next ==
    \/ \E c \in Conns : \/ Arrive(c) \/ HandleConnection(c)
                        \/ Receive(c) \/ Reconciled(c) \/ Break(c)
    \/ \E cl \in Clusters : RemoveCluster(cl) \/ CloseConnection(cl) \/ UpdateCluster(cl)
    \/ UpdateGet \/ UpdateInject

Spec == Init /\ [][Next]_vars

\* Goroutines run, Sensors connect again and sync, dead streams are noticed (keepalive), and
\* a Sensor that tries again and again, after random delays, is not always too late for a
\* free slot.
FairSpec ==
    /\ Spec
    /\ \A c \in Conns : /\ WF_vars(HandleConnection(c))
                        /\ WF_vars(Receive(c)) /\ WF_vars(Reconciled(c))
                        /\ SF_vars(HasRoom /\ Arrive(c)) /\ SF_vars(Admit(c))
    /\ \A cl \in Clusters : WF_vars(CloseConnection(cl))
    /\ WF_vars(UpdateGet \/ UpdateInject)
-----------------------------------------------------------------------------
Places == Admitted \cup {"free", "loaded", "hello", "ended", "released", "refused"}

\* The variables have their types.
TypeOK ==
    /\ pc \in [Conns -> Places] /\ alive \subseteq Conns /\ told \subseteq Conns
    /\ \A c \in Conns : id[c] \in Ids[c] \cup {NoId}
    /\ stop \in [Conns -> {"no", "yes", "large"}]
    /\ old \in [Conns -> Conns \cup {NoConn}] /\ rec \in [Conns -> {"no", "busy", "done"}]
    /\ conn \in [Clusters -> Conns \cup {NoConn}] /\ mutex \in Conns \cup {NoConn}
    /\ slots \subseteq Clusters /\ robbed \subseteq Conns
    /\ dedupers \subseteq Clusters
    /\ pref \in [Clusters -> {"unset", "send", "skip"}]
    /\ exists \subseteq Clusters
    /\ closing \in [Clusters -> {"no", "slot", "get", "terminate", "delete", "done"}]
    /\ target \in [Clusters -> Conns \cup {NoConn}]
    /\ \A cl \in Clusters : closing[cl] = "terminate" => target[cl] \in Conns
    /\ upd \in [at : {"idle", "get", "inject"}, cluster : Clusters \cup {NoConn},
                conn : Conns \cup {NoConn}]
    /\ upd.at # "idle" => upd.cluster \in Clusters
    /\ upd.at = "inject" => upd.conn \in Conns
    /\ disturbances \subseteq {"break", "delete", "update"}

\* The map of HandleConnection leads to a connection of the cluster whose handler will
\* still clear the entry, and whose deduper is flushed.  A cluster that is put back into the
\* database while CloseConnection goes on keeps its connection, but not the deduper.
MapIsLive ==
    \A cl \in Clusters : conn[cl] # NoConn =>
        /\ ClusterOf[conn[cl]] = cl
        /\ pc[conn[cl]] \in {"registered", "prelude", "running", "ended", "released"}
        /\ closing[cl] # "done" => cl \in dedupers

\* However connections of a cluster overtake each other, only the one in the map goes on;
\* another one has been stopped, or is about to be by the handler that has replaced it.
OnlyOneServes ==
    \A c \in Conns : pc[c] \in {"prelude", "running"} /\ stop[c] = "no" =>
        \/ conn[ClusterOf[c]] = c
        \/ \E d \in Conns : pc[d] = "registered" /\ old[d] = c

\* What rate_limit.go:6 says of the limit: "maximum number of sensors that are doing
\* initial sync in parallel".  It holds up to the connections whose slot was given back by
\* another connection, or by the deletion, of their cluster.
SyncsBounded ==
    MaxSensors > 0 =>
        Cardinality({ClusterOf[c] : c \in InInitSync \ robbed}) <= MaxSensors

\* A slot belongs to a cluster with a connection whose handler will give it back; a slot
\* that stays would shut other Sensors out for good.
NothingLeaks ==
    \A cl \in slots : \E c \in OfCluster(cl) : pc[c] \in Admitted \cup {"ended", "refused"}

\* UpdateCluster holds the lock of the datastore and waits for the mutex of the map, which
\* replaceConnection holds and waits for the lock.
LockCycle == upd.at = "get" /\ mutex # NoConn

\* What GetConnection gives to its callers.
Session(cl) ==
    IF conn[cl] = NoConn \/ stop[conn[cl]] # "no" THEN "none"
    ELSE IF rec[conn[cl]] = "done" THEN "synced" ELSE "syncing"

Sessions == INSTANCE SensorSessions WITH
    session <- [cl \in Clusters |-> Session(cl)],
    deleted <- Clusters \ exists,
    cut <- {cl \in Clusters \ exists : closing[cl] \in {"delete", "done"}}

\* The manager implements the sessions it promises; in particular a connection that was
\* already on its way when its cluster was deleted cannot come after CloseConnection, unless
\* the cluster is put back into the database.
ImplementsSessions == Sessions!Spec

\* When no stream breaks any more, every cluster gets a session that is synced and stays,
\* also one whose Sensor must first learn to do without client reconciliation, and a
\* deleted one loses its handlers; unless the locks are caught in their cycle.
EventuallySynced ==
    <>[](\/ LockCycle
         \/ \A cl \in Clusters : IF cl \in exists THEN Session(cl) = "synced"
                                ELSE \A c \in OfCluster(cl) : pc[c] = "free")
=============================================================================
