----------------------- MODULE ConnectionManagerProofs -----------------------
(***************************************************************************)
(* Proofs about the connection manager: its safety properties, and that it *)
(* implements the sessions of SensorSessions.                              *)
(***************************************************************************)
EXTENDS ConnectionManager, FiniteSetTheorems, TLAPS

\* TypeOK, and that id is a function, which TypeOK does not say.
AllIds == (UNION {Ids[c] : c \in Conns}) \cup {NoId}
TInv == TypeOK /\ id \in [Conns -> AllIds]

Holding == {"replacing", "registering"}
InMap == {"registered", "prelude", "running", "ended", "released"}

\* The mutex is held between LockMap and Register, and protects what LockMap has seen.
MutexOK ==
    \A c \in Conns :
        /\ pc[c] \in Holding => mutex = c /\ old[c] = conn[ClusterOf[c]]
        /\ pc[c] \notin Holding \cup {"registered"} => old[c] = NoConn
        /\ old[c] # NoConn => ClusterOf[old[c]] = ClusterOf[c]

\* The map leads to connections that are registered.
MapOK ==
    \A cl \in Clusters : conn[cl] # NoConn => ClusterOf[conn[cl]] = cl /\ pc[conn[cl]] \in InMap

\* From Admit on a cluster has a deduper, which only the end of CloseConnection takes away.
DedupersOK ==
    \A c \in Conns : /\ pc[c] \in {"new"} \cup Holding \cup InMap
                     /\ closing[ClusterOf[c]] # "done"
                     => ClusterOf[c] \in dedupers

\* A registered connection that is not in the map is stopped, or is about to be.
ServesOK ==
    \A c \in Conns : pc[c] \in {"registered", "prelude", "running"} /\ stop[c] = "no" =>
        \/ conn[ClusterOf[c]] = c
        \/ \E d \in Conns : pc[d] = "registered" /\ old[d] = c

\* The Synced event is handled after Run has started.
ReconciledOK ==
    \A c \in Conns : pc[c] \in {"loaded", "hello", "new", "registered", "prelude", "refused"} \cup Holding
                     => rec[c] = "no"

\* Deletion: a cluster that is not in the database is being closed; nobody is registered for
\* it any more after the lookup, and what the lookup has found is all there is.
ClosingOK ==
    /\ \A cl \in Clusters : /\ cl \notin exists => closing[cl] # "no"
                            /\ closing[cl] # "no" => "delete" \in disturbances
                            /\ target[cl] # NoConn => ClusterOf[target[cl]] = cl
                            /\ cl \notin exists /\ closing[cl] = "terminate"
                               => conn[cl] \in {NoConn, target[cl]}
    /\ \A c \in Conns : pc[c] = "registering" /\ ClusterOf[c] \notin exists
                        => closing[ClusterOf[c]] \in {"slot", "get"}

\* The limit is kept, and a connection in its initial synchronization has the slot of its
\* cluster, unless it was robbed of it.
SlotsCounted == IsFiniteSet(slots) /\ (MaxSensors > 0 => Cardinality(slots) <= MaxSensors)
SlotsOwned == MaxSensors > 0 => \A c \in InInitSync \ robbed : ClusterOf[c] \in slots

IInv ==
    /\ TInv
    /\ MutexOK /\ MapOK /\ DedupersOK /\ ServesOK /\ ReconciledOK /\ ClosingOK
    /\ SlotsCounted /\ SlotsOwned /\ NothingLeaks
-----------------------------------------------------------------------------
\* What the common parts of the actions do.
LEMMA ReturnType ==
    ASSUME TypeOK, id \in [Conns -> AllIds], NEW c \in Conns, Return(c)
    PROVE  /\ pc' \in [Conns -> Places] /\ alive' \subseteq Conns /\ told' \subseteq Conns
           /\ id' \in [Conns -> AllIds] /\ \A d \in Conns : id'[d] \in Ids[d] \cup {NoId}
           /\ stop' \in [Conns -> {"no", "yes", "large"}]
           /\ old' \in [Conns -> Conns \cup {NoConn}] /\ rec' \in [Conns -> {"no", "busy", "done"}]
<1>1. pc' \in [Conns -> Places] /\ alive' \subseteq Conns /\ told' \subseteq Conns
  BY DEF TypeOK, Return, Places
<1>2. id' \in [Conns -> AllIds] /\ \A d \in Conns : id'[d] \in Ids[d] \cup {NoId}
  <2>1. NoId \in AllIds
    BY DEF AllIds
  <2>2. id' \in [Conns -> AllIds] /\ id' = [id EXCEPT ![c] = NoId]
    BY <2>1 DEF Return
  <2> QED
    BY <2>2 DEF TypeOK
<1>3. stop' \in [Conns -> {"no", "yes", "large"}] /\ old' \in [Conns -> Conns \cup {NoConn}]
  BY DEF TypeOK, Return
<1>4. rec' \in [Conns -> {"no", "busy", "done"}]
  BY DEF TypeOK, Return
<1> QED
  BY <1>1, <1>2, <1>3, <1>4

LEMMA RemoveSlotType ==
    ASSUME TypeOK, NEW cl, NEW c, RemoveSlot(cl, c)
    PROVE  slots' \subseteq Clusters /\ robbed' \subseteq Conns
BY DEF TypeOK, RemoveSlot, InInitSync

LEMMA SignalType ==
    ASSUME TypeOK, NEW c \in Conns, NEW why \in {"yes", "large"}, Signal(c, why)
    PROVE  /\ stop' \in [Conns -> {"no", "yes", "large"}]
           /\ \A d \in Conns : stop'[d] = "no" => stop[d] = "no"
           /\ \A d \in Conns \ {c} : stop'[d] = stop[d]
           /\ stop'[c] # "no"
BY DEF TypeOK, Signal

LEMMA HandlerType == ASSUME TInv, NEW c \in Conns, HandleConnection(c) PROVE TInv'
<1> USE DEF TInv, handlerVars, helloVars, managerVars, closeVars
<1>1. CASE StorePreference(c)
  BY <1>1 DEF TypeOK, StorePreference, Goto, Places
<1>2. CASE Admit(c)
  <2>1. slots' \subseteq Clusters /\ dedupers' \subseteq Clusters
    BY <1>2, ConnsAssumption DEF TypeOK, Admit
  <2> QED
    BY <1>2, <2>1 DEF TypeOK, Admit, Goto, Places, Admitted
<1>3. CASE Reject(c)
  BY <1>3, ReturnType DEF TypeOK, Reject
<1>4. CASE LockMap(c)
  BY <1>4, ConnsAssumption DEF TypeOK, LockMap, Goto, Places, Admitted
<1>5. CASE UpdateIdentification(c)
  BY <1>5 DEF TypeOK, UpdateIdentification, Goto, Places, Admitted
<1>6. CASE Register(c)
  BY <1>6 DEF TypeOK, Register, Goto, Places, Admitted
<1>7. CASE TerminateOld(c)
  BY <1>7, SignalType DEF TypeOK, TerminateOld, Goto, Places, Admitted
<1>8. CASE Prelude(c)
  BY <1>8, SignalType DEF TypeOK, Prelude, Goto, Places, Admitted
<1>9. CASE RunEnds(c)
  BY <1>9, ConnsAssumption DEF TypeOK, RunEnds, Goto, Places
<1>10. CASE GiveBackSlot(c)
  BY <1>10, RemoveSlotType DEF TypeOK, GiveBackSlot, Goto, Places
<1>11. CASE ClearMap(c)
  <2>1. conn' \in [Clusters -> Conns \cup {NoConn}]
    BY <1>11 DEF TypeOK, ClearMap
  <2> QED
    BY <1>11, <2>1, ReturnType DEF TypeOK, ClearMap
<1>12. CASE Refuse(c)
  BY <1>12, ReturnType, RemoveSlotType DEF TypeOK, Refuse
<1> QED
  BY <1>1, <1>2, <1>3, <1>4, <1>5, <1>6, <1>7, <1>8, <1>9, <1>10, <1>11, <1>12 DEF HandleConnection

LEMMA StreamType ==
    ASSUME TInv, NEW c \in Conns, Arrive(c) \/ Receive(c) \/ Reconciled(c) \/ Break(c)
    PROVE  TInv'
<1> USE DEF TInv, handlerVars, helloVars, managerVars, closeVars
<1>1. CASE Arrive(c)
  BY <1>1 DEF TypeOK, Arrive, Goto, Places, AllIds
<1>2. CASE SyncedEvent(c)
  BY <1>2 DEF TypeOK, SyncedEvent
<1>3. CASE TooLarge(c)
  BY <1>3, SignalType DEF TypeOK, TooLarge
<1>4. CASE Notice(c)
  BY <1>4, SignalType DEF TypeOK, Notice
<1>5. CASE Reconciled(c)
  BY <1>5, RemoveSlotType DEF TypeOK, Reconciled
<1>6. CASE Break(c)
  BY <1>6 DEF TypeOK, Break, Disturb
<1> QED
  BY <1>1, <1>2, <1>3, <1>4, <1>5, <1>6 DEF Receive

LEMMA ClusterType ==
    ASSUME TInv, NEW cl \in Clusters, RemoveCluster(cl) \/ CloseConnection(cl) \/ UpdateCluster(cl)
    PROVE  TInv'
<1> USE DEF TInv, handlerVars, helloVars, managerVars, closeVars
<1>1. CASE RemoveCluster(cl)
  BY <1>1 DEF TypeOK, RemoveCluster, Disturb
<1>2. CASE CloseSlot(cl)
  BY <1>2, RemoveSlotType DEF TypeOK, CloseSlot
<1>3. CASE CloseGet(cl)
  BY <1>3 DEF TypeOK, CloseGet
<1>4. CASE CloseTerminate(cl)
  BY <1>4, SignalType DEF TypeOK, CloseTerminate
<1>5. CASE CloseDelete(cl)
  BY <1>5 DEF TypeOK, CloseDelete
<1>6. CASE UpdateCluster(cl)
  BY <1>6 DEF TypeOK, UpdateCluster, Disturb
<1> QED
  BY <1>1, <1>2, <1>3, <1>4, <1>5, <1>6 DEF CloseConnection

LEMMA NextType == TInv /\ [Next]_vars => TInv'
<1> SUFFICES ASSUME TInv, [Next]_vars PROVE TInv'
  OBVIOUS
<1>1. CASE UpdateGet
  BY <1>1 DEF TInv, TypeOK, UpdateGet, NoUpdate, handlerVars, helloVars, managerVars, closeVars
<1>2. CASE UpdateInject
  BY <1>2 DEF TInv, TypeOK, UpdateInject, NoUpdate, handlerVars, helloVars, managerVars, closeVars
<1>3. CASE UNCHANGED vars
  BY <1>3 DEF TInv, TypeOK, vars, handlerVars, helloVars, managerVars, closeVars
<1> QED
  BY <1>1, <1>2, <1>3, HandlerType, StreamType, ClusterType DEF Next
\* Only who holds the mutex goes on to replace an entry of the map.
LEMMA NextMutex == ASSUME IInv, TInv', [Next]_vars PROVE MutexOK'
<1> USE ConnsAssumption DEF IInv, TInv, TypeOK, MutexOK, Holding, InMap, Admitted, OfCluster,
            handlerVars, helloVars, managerVars, closeVars
<1>1. ASSUME NEW c \in Conns, Arrive(c) PROVE MutexOK'
  BY <1>1 DEF Arrive, Goto
<1>2. ASSUME NEW c \in Conns, StorePreference(c) PROVE MutexOK'
  BY <1>2 DEF StorePreference, Goto
<1>3. ASSUME NEW c \in Conns, Admit(c) PROVE MutexOK'
  BY <1>3 DEF Admit, Goto
<1>4. ASSUME NEW c \in Conns, Reject(c) PROVE MutexOK'
  BY <1>4 DEF Reject, Return
<1>5. ASSUME NEW c \in Conns, LockMap(c) PROVE MutexOK'
  BY <1>5 DEF LockMap, Goto, MapOK
<1>6. ASSUME NEW c \in Conns, UpdateIdentification(c) PROVE MutexOK'
  BY <1>6 DEF UpdateIdentification, Goto
<1>7. ASSUME NEW c \in Conns, Register(c) PROVE MutexOK'
  BY <1>7 DEF Register, Goto
<1>8. ASSUME NEW c \in Conns, TerminateOld(c) PROVE MutexOK'
  BY <1>8 DEF TerminateOld, Goto, Signal
<1>9. ASSUME NEW c \in Conns, Prelude(c) PROVE MutexOK'
  BY <1>9 DEF Prelude, Goto, Signal
<1>10. ASSUME NEW c \in Conns, RunEnds(c) PROVE MutexOK'
  BY <1>10 DEF RunEnds, Goto
<1>11. ASSUME NEW c \in Conns, GiveBackSlot(c) PROVE MutexOK'
  BY <1>11 DEF GiveBackSlot, Goto, RemoveSlot
<1>12. ASSUME NEW c \in Conns, ClearMap(c) PROVE MutexOK'
  BY <1>12 DEF ClearMap, Return
<1>13. ASSUME NEW c \in Conns, Refuse(c) PROVE MutexOK'
  BY <1>13 DEF Refuse, Return, RemoveSlot
<1>14. CASE UNCHANGED <<pc, old, conn, mutex>>
  BY <1>14
<1> QED
  BY <1>1, <1>2, <1>3, <1>4, <1>5, <1>6, <1>7, <1>8, <1>9, <1>10, <1>11, <1>12, <1>13, <1>14 DEF
     Next, HandleConnection, Receive, CloseConnection, vars, SyncedEvent, TooLarge, Notice,
     Reconciled, Break, RemoveCluster, CloseSlot, CloseGet, CloseTerminate, CloseDelete,
     UpdateCluster, UpdateGet, UpdateInject

\* What enters the map is registered, and leaves it before its handler returns.
LEMMA NextMap == ASSUME IInv, TInv', [Next]_vars PROVE MapOK'
<1> USE ConnsAssumption DEF IInv, TInv, TypeOK, MapOK, Holding, InMap, Admitted, OfCluster,
            handlerVars, helloVars, managerVars, closeVars
<1>1. ASSUME NEW c \in Conns, Arrive(c) PROVE MapOK'
  BY <1>1 DEF Arrive, Goto
<1>2. ASSUME NEW c \in Conns, StorePreference(c) PROVE MapOK'
  BY <1>2 DEF StorePreference, Goto
<1>3. ASSUME NEW c \in Conns, Admit(c) PROVE MapOK'
  BY <1>3 DEF Admit, Goto
<1>4. ASSUME NEW c \in Conns, Reject(c) PROVE MapOK'
  BY <1>4 DEF Reject, Return
<1>5. ASSUME NEW c \in Conns, LockMap(c) PROVE MapOK'
  BY <1>5 DEF LockMap, Goto
<1>6. ASSUME NEW c \in Conns, UpdateIdentification(c) PROVE MapOK'
  BY <1>6 DEF UpdateIdentification, Goto
<1>7. ASSUME NEW c \in Conns, Register(c) PROVE MapOK'
  BY <1>7 DEF Register, Goto, MutexOK
<1>8. ASSUME NEW c \in Conns, TerminateOld(c) PROVE MapOK'
  BY <1>8 DEF TerminateOld, Goto, Signal
<1>9. ASSUME NEW c \in Conns, Prelude(c) PROVE MapOK'
  BY <1>9 DEF Prelude, Goto, Signal
<1>10. ASSUME NEW c \in Conns, RunEnds(c) PROVE MapOK'
  BY <1>10 DEF RunEnds, Goto
<1>11. ASSUME NEW c \in Conns, GiveBackSlot(c) PROVE MapOK'
  BY <1>11 DEF GiveBackSlot, Goto, RemoveSlot
<1>12. ASSUME NEW c \in Conns, ClearMap(c) PROVE MapOK'
  BY <1>12 DEF ClearMap, Return
<1>13. ASSUME NEW c \in Conns, Refuse(c) PROVE MapOK'
  BY <1>13 DEF Refuse, Return, RemoveSlot
<1>14. CASE UNCHANGED <<pc, conn>>
  BY <1>14
<1> QED
  BY <1>1, <1>2, <1>3, <1>4, <1>5, <1>6, <1>7, <1>8, <1>9, <1>10, <1>11, <1>12, <1>13, <1>14 DEF
     Next, HandleConnection, Receive, CloseConnection, vars, SyncedEvent, TooLarge, Notice,
     Reconciled, Break, RemoveCluster, CloseSlot, CloseGet, CloseTerminate, CloseDelete,
     UpdateCluster, UpdateGet, UpdateInject

\* Only CloseConnection removes a deduper, at its end, and it runs once.
LEMMA NextDedupers == ASSUME IInv, TInv', [Next]_vars PROVE DedupersOK'
<1> USE ConnsAssumption DEF IInv, TInv, TypeOK, DedupersOK, Holding, InMap, Admitted, OfCluster,
            handlerVars, helloVars, managerVars, closeVars
<1>1. ASSUME NEW c \in Conns, Arrive(c) PROVE DedupersOK'
  BY <1>1 DEF Arrive, Goto
<1>2. ASSUME NEW c \in Conns, StorePreference(c) PROVE DedupersOK'
  BY <1>2 DEF StorePreference, Goto
<1>3. ASSUME NEW c \in Conns, Admit(c) PROVE DedupersOK'
  BY <1>3 DEF Admit, Goto
<1>4. ASSUME NEW c \in Conns, Reject(c) PROVE DedupersOK'
  BY <1>4 DEF Reject, Return
<1>5. ASSUME NEW c \in Conns, LockMap(c) PROVE DedupersOK'
  BY <1>5 DEF LockMap, Goto
<1>6. ASSUME NEW c \in Conns, UpdateIdentification(c) PROVE DedupersOK'
  BY <1>6 DEF UpdateIdentification, Goto
<1>7. ASSUME NEW c \in Conns, Register(c) PROVE DedupersOK'
  BY <1>7 DEF Register, Goto
<1>8. ASSUME NEW c \in Conns, TerminateOld(c) PROVE DedupersOK'
  BY <1>8 DEF TerminateOld, Goto, Signal
<1>9. ASSUME NEW c \in Conns, Prelude(c) PROVE DedupersOK'
  BY <1>9 DEF Prelude, Goto, Signal
<1>10. ASSUME NEW c \in Conns, RunEnds(c) PROVE DedupersOK'
  BY <1>10 DEF RunEnds, Goto
<1>11. ASSUME NEW c \in Conns, GiveBackSlot(c) PROVE DedupersOK'
  BY <1>11 DEF GiveBackSlot, Goto, RemoveSlot
<1>12. ASSUME NEW c \in Conns, ClearMap(c) PROVE DedupersOK'
  BY <1>12 DEF ClearMap, Return
<1>13. ASSUME NEW c \in Conns, Refuse(c) PROVE DedupersOK'
  BY <1>13 DEF Refuse, Return, RemoveSlot
<1>14. ASSUME NEW cl \in Clusters, RemoveCluster(cl) PROVE DedupersOK'
  BY <1>14 DEF RemoveCluster, Disturb, ClosingOK
<1>15. ASSUME NEW cl \in Clusters, CloseDelete(cl) PROVE DedupersOK'
  BY <1>15 DEF CloseDelete
<1>16. ASSUME NEW cl \in Clusters, CloseSlot(cl) \/ CloseGet(cl) \/ CloseTerminate(cl)
       PROVE  DedupersOK'
  BY <1>16 DEF CloseSlot, CloseGet, CloseTerminate
<1>17. CASE UNCHANGED <<pc, closing, dedupers>>
  BY <1>17
<1> QED
  BY <1>1, <1>2, <1>3, <1>4, <1>5, <1>6, <1>7, <1>8, <1>9, <1>10, <1>11, <1>12, <1>13, <1>14,
     <1>15, <1>16, <1>17 DEF Next, HandleConnection, Receive, CloseConnection, vars,
     SyncedEvent, TooLarge, Notice, Reconciled, Break, UpdateCluster, UpdateGet, UpdateInject

\* Who is registered takes the map, and stops whom it has replaced.
LEMMA NextServes == ASSUME IInv, TInv', [Next]_vars PROVE ServesOK'
<1> USE ConnsAssumption DEF IInv, TInv, TypeOK, ServesOK, Holding, InMap, Admitted, OfCluster,
            handlerVars, helloVars, managerVars, closeVars
<1>1. ASSUME NEW c \in Conns, Arrive(c) PROVE ServesOK'
  BY <1>1 DEF Arrive, Goto
<1>2. ASSUME NEW c \in Conns, StorePreference(c) PROVE ServesOK'
  BY <1>2 DEF StorePreference, Goto
<1>3. ASSUME NEW c \in Conns, Admit(c) PROVE ServesOK'
  BY <1>3 DEF Admit, Goto
<1>4. ASSUME NEW c \in Conns, Reject(c) PROVE ServesOK'
  BY <1>4 DEF Reject, Return
<1>5. ASSUME NEW c \in Conns, LockMap(c) PROVE ServesOK'
  BY <1>5 DEF LockMap, Goto
<1>6. ASSUME NEW c \in Conns, UpdateIdentification(c) PROVE ServesOK'
  BY <1>6 DEF UpdateIdentification, Goto
<1>7. ASSUME NEW c \in Conns, Register(c) PROVE ServesOK'
  BY <1>7 DEF Register, Goto, MutexOK
<1>8. ASSUME NEW c \in Conns, TerminateOld(c) PROVE ServesOK'
  BY <1>8 DEF TerminateOld, Goto, Signal, MutexOK
<1>9. ASSUME NEW c \in Conns, Prelude(c) PROVE ServesOK'
  BY <1>9 DEF Prelude, Goto, Signal
<1>10. ASSUME NEW c \in Conns, RunEnds(c) PROVE ServesOK'
  BY <1>10 DEF RunEnds, Goto
<1>11. ASSUME NEW c \in Conns, GiveBackSlot(c) PROVE ServesOK'
  BY <1>11 DEF GiveBackSlot, Goto, RemoveSlot
<1>12. ASSUME NEW c \in Conns, ClearMap(c) PROVE ServesOK'
  BY <1>12 DEF ClearMap, Return
<1>13. ASSUME NEW c \in Conns, Refuse(c) PROVE ServesOK'
  BY <1>13 DEF Refuse, Return, RemoveSlot
<1>14. ASSUME NEW c \in Conns, TooLarge(c) PROVE ServesOK'
  BY <1>14 DEF TooLarge, Signal
<1>15. ASSUME NEW c \in Conns, Notice(c) PROVE ServesOK'
  BY <1>15 DEF Notice, Signal
<1>16. ASSUME NEW cl \in Clusters, CloseTerminate(cl) PROVE ServesOK'
  BY <1>16 DEF CloseTerminate, Signal
<1>17. CASE UNCHANGED <<pc, stop, conn, old>>
  BY <1>17
<1> QED
  BY <1>1, <1>2, <1>3, <1>4, <1>5, <1>6, <1>7, <1>8, <1>9, <1>10, <1>11, <1>12, <1>13, <1>14,
     <1>15, <1>16, <1>17 DEF Next, HandleConnection, Receive, CloseConnection, vars,
     SyncedEvent, Reconciled, Break, RemoveCluster, CloseSlot, CloseGet, CloseDelete,
     UpdateCluster, UpdateGet, UpdateInject

\* Nobody has synced before Run.
LEMMA NextReconciled == ASSUME IInv, TInv', [Next]_vars PROVE ReconciledOK'
<1> USE ConnsAssumption DEF IInv, TInv, TypeOK, ReconciledOK, Holding, InMap, Admitted, OfCluster,
            handlerVars, helloVars, managerVars, closeVars
<1>1. ASSUME NEW c \in Conns, Arrive(c) PROVE ReconciledOK'
  BY <1>1 DEF Arrive, Goto
<1>2. ASSUME NEW c \in Conns, StorePreference(c) PROVE ReconciledOK'
  BY <1>2 DEF StorePreference, Goto
<1>3. ASSUME NEW c \in Conns, Admit(c) PROVE ReconciledOK'
  BY <1>3 DEF Admit, Goto
<1>4. ASSUME NEW c \in Conns, Reject(c) PROVE ReconciledOK'
  BY <1>4 DEF Reject, Return
<1>5. ASSUME NEW c \in Conns, LockMap(c) PROVE ReconciledOK'
  BY <1>5 DEF LockMap, Goto
<1>6. ASSUME NEW c \in Conns, UpdateIdentification(c) PROVE ReconciledOK'
  BY <1>6 DEF UpdateIdentification, Goto
<1>7. ASSUME NEW c \in Conns, Register(c) PROVE ReconciledOK'
  BY <1>7 DEF Register, Goto
<1>8. ASSUME NEW c \in Conns, TerminateOld(c) PROVE ReconciledOK'
  BY <1>8 DEF TerminateOld, Goto, Signal
<1>9. ASSUME NEW c \in Conns, Prelude(c) PROVE ReconciledOK'
  BY <1>9 DEF Prelude, Goto, Signal
<1>10. ASSUME NEW c \in Conns, RunEnds(c) PROVE ReconciledOK'
  BY <1>10 DEF RunEnds, Goto
<1>11. ASSUME NEW c \in Conns, GiveBackSlot(c) PROVE ReconciledOK'
  BY <1>11 DEF GiveBackSlot, Goto, RemoveSlot
<1>12. ASSUME NEW c \in Conns, ClearMap(c) PROVE ReconciledOK'
  BY <1>12 DEF ClearMap, Return
<1>13. ASSUME NEW c \in Conns, Refuse(c) PROVE ReconciledOK'
  BY <1>13 DEF Refuse, Return, RemoveSlot
<1>14. ASSUME NEW c \in Conns, SyncedEvent(c) PROVE ReconciledOK'
  BY <1>14 DEF SyncedEvent
<1>15. ASSUME NEW c \in Conns, Reconciled(c) PROVE ReconciledOK'
  BY <1>15 DEF Reconciled, RemoveSlot
<1>16. CASE UNCHANGED <<pc, rec>>
  BY <1>16
<1> QED
  BY <1>1, <1>2, <1>3, <1>4, <1>5, <1>6, <1>7, <1>8, <1>9, <1>10, <1>11, <1>12, <1>13, <1>14,
     <1>15, <1>16 DEF Next, HandleConnection, Receive, CloseConnection, vars, TooLarge,
     Notice, Break, RemoveCluster, CloseSlot, CloseGet, CloseTerminate, CloseDelete,
     UpdateCluster, UpdateGet, UpdateInject

\* Who comes to register after the lookup of CloseConnection is refused, unless the cluster
\* has been put back.
LEMMA NextClosing == ASSUME IInv, TInv', [Next]_vars PROVE ClosingOK'
<1> USE ConnsAssumption DEF IInv, TInv, TypeOK, ClosingOK, Holding, InMap, Admitted, OfCluster,
            handlerVars, helloVars, managerVars, closeVars
<1>1. ASSUME NEW c \in Conns, Arrive(c) PROVE ClosingOK'
  BY <1>1 DEF Arrive, Goto
<1>2. ASSUME NEW c \in Conns, StorePreference(c) PROVE ClosingOK'
  BY <1>2 DEF StorePreference, Goto
<1>3. ASSUME NEW c \in Conns, Admit(c) PROVE ClosingOK'
  BY <1>3 DEF Admit, Goto
<1>4. ASSUME NEW c \in Conns, Reject(c) PROVE ClosingOK'
  BY <1>4 DEF Reject, Return
<1>5. ASSUME NEW c \in Conns, LockMap(c) PROVE ClosingOK'
  BY <1>5 DEF LockMap, Goto
<1>6. ASSUME NEW c \in Conns, UpdateIdentification(c) PROVE ClosingOK'
  BY <1>6 DEF UpdateIdentification, Goto
<1>7. ASSUME NEW c \in Conns, Register(c) PROVE ClosingOK'
  BY <1>7 DEF Register, Goto
<1>8. ASSUME NEW c \in Conns, TerminateOld(c) PROVE ClosingOK'
  BY <1>8 DEF TerminateOld, Goto, Signal
<1>9. ASSUME NEW c \in Conns, Prelude(c) PROVE ClosingOK'
  BY <1>9 DEF Prelude, Goto, Signal
<1>10. ASSUME NEW c \in Conns, RunEnds(c) PROVE ClosingOK'
  BY <1>10 DEF RunEnds, Goto
<1>11. ASSUME NEW c \in Conns, GiveBackSlot(c) PROVE ClosingOK'
  BY <1>11 DEF GiveBackSlot, Goto, RemoveSlot
<1>12. ASSUME NEW c \in Conns, ClearMap(c) PROVE ClosingOK'
  BY <1>12 DEF ClearMap, Return, MapOK
<1>13. ASSUME NEW c \in Conns, Refuse(c) PROVE ClosingOK'
  BY <1>13 DEF Refuse, Return, RemoveSlot
<1>14. ASSUME NEW cl \in Clusters, RemoveCluster(cl) PROVE ClosingOK'
  BY <1>14 DEF RemoveCluster, Disturb
<1>15. ASSUME NEW cl \in Clusters, CloseSlot(cl) PROVE ClosingOK'
  BY <1>15 DEF CloseSlot, RemoveSlot
<1>16. ASSUME NEW cl \in Clusters, CloseGet(cl) PROVE ClosingOK'
  BY <1>16 DEF CloseGet, MutexOK, MapOK
<1>17. ASSUME NEW cl \in Clusters, CloseTerminate(cl) PROVE ClosingOK'
  BY <1>17 DEF CloseTerminate, Signal
<1>18. ASSUME NEW cl \in Clusters, CloseDelete(cl) PROVE ClosingOK'
  BY <1>18 DEF CloseDelete
<1>19. ASSUME NEW cl \in Clusters, UpdateCluster(cl) PROVE ClosingOK'
  BY <1>19 DEF UpdateCluster, Disturb
<1>20. ASSUME NEW c \in Conns, Break(c) PROVE ClosingOK'
  BY <1>20 DEF Break, Disturb
<1>21. CASE UNCHANGED <<pc, conn, closing, exists, target, disturbances>>
  BY <1>21
<1> QED
  BY <1>1, <1>2, <1>3, <1>4, <1>5, <1>6, <1>7, <1>8, <1>9, <1>10, <1>11, <1>12, <1>13, <1>14,
     <1>15, <1>16, <1>17, <1>18, <1>19, <1>20, <1>21 DEF Next, HandleConnection, Receive,
     CloseConnection, vars, SyncedEvent, TooLarge, Notice, Reconciled, UpdateGet, UpdateInject

\* Who has no slot any more was robbed, is synced or has stopped.
LEMMA NextOwned == ASSUME IInv, TInv', [Next]_vars PROVE SlotsOwned'
<1> USE ConnsAssumption DEF IInv, TInv, TypeOK, SlotsOwned, Holding, InMap, Admitted, OfCluster,
            handlerVars, helloVars, managerVars, closeVars
<1>1. ASSUME NEW c \in Conns, Arrive(c) PROVE SlotsOwned'
  BY <1>1 DEF Arrive, Goto, InInitSync
<1>2. ASSUME NEW c \in Conns, StorePreference(c) PROVE SlotsOwned'
  BY <1>2 DEF StorePreference, Goto, InInitSync
<1>3. ASSUME NEW c \in Conns, Admit(c) PROVE SlotsOwned'
  BY <1>3 DEF Admit, Goto, InInitSync
<1>4. ASSUME NEW c \in Conns, Reject(c) PROVE SlotsOwned'
  BY <1>4 DEF Reject, Return, InInitSync
<1>5. ASSUME NEW c \in Conns, LockMap(c) PROVE SlotsOwned'
  BY <1>5 DEF LockMap, Goto, InInitSync
<1>6. ASSUME NEW c \in Conns, UpdateIdentification(c) PROVE SlotsOwned'
  BY <1>6 DEF UpdateIdentification, Goto, InInitSync
<1>7. ASSUME NEW c \in Conns, Register(c) PROVE SlotsOwned'
  BY <1>7 DEF Register, Goto, InInitSync
<1>8. ASSUME NEW c \in Conns, TerminateOld(c) PROVE SlotsOwned'
  BY <1>8 DEF TerminateOld, Goto, Signal, InInitSync
<1>9. ASSUME NEW c \in Conns, Prelude(c) PROVE SlotsOwned'
  BY <1>9 DEF Prelude, Goto, Signal, InInitSync
<1>10. ASSUME NEW c \in Conns, RunEnds(c) PROVE SlotsOwned'
  BY <1>10 DEF RunEnds, Goto, InInitSync
<1>11. ASSUME NEW c \in Conns, GiveBackSlot(c) PROVE SlotsOwned'
  BY <1>11 DEF GiveBackSlot, Goto, RemoveSlot, InInitSync
<1>12. ASSUME NEW c \in Conns, ClearMap(c) PROVE SlotsOwned'
  BY <1>12 DEF ClearMap, Return, InInitSync
<1>13. ASSUME NEW c \in Conns, Refuse(c) PROVE SlotsOwned'
  BY <1>13 DEF Refuse, Return, RemoveSlot, InInitSync
<1>14. ASSUME NEW c \in Conns, SyncedEvent(c) PROVE SlotsOwned'
  BY <1>14 DEF SyncedEvent, InInitSync
<1>15. ASSUME NEW c \in Conns, TooLarge(c) PROVE SlotsOwned'
  BY <1>15 DEF TooLarge, Signal, InInitSync
<1>16. ASSUME NEW c \in Conns, Notice(c) PROVE SlotsOwned'
  BY <1>16 DEF Notice, Signal, InInitSync
<1>17. ASSUME NEW c \in Conns, Reconciled(c) PROVE SlotsOwned'
  BY <1>17 DEF Reconciled, RemoveSlot, InInitSync
<1>18. ASSUME NEW cl \in Clusters, CloseSlot(cl) PROVE SlotsOwned'
  BY <1>18 DEF CloseSlot, RemoveSlot, InInitSync
<1>19. ASSUME NEW cl \in Clusters, CloseTerminate(cl) PROVE SlotsOwned'
  BY <1>19 DEF CloseTerminate, Signal, InInitSync
<1>20. CASE UNCHANGED <<pc, rec, stop, slots, robbed>>
  BY <1>20 DEF InInitSync
<1> QED
  BY <1>1, <1>2, <1>3, <1>4, <1>5, <1>6, <1>7, <1>8, <1>9, <1>10, <1>11, <1>12, <1>13, <1>14,
     <1>15, <1>16, <1>17, <1>18, <1>19, <1>20 DEF Next, HandleConnection, Receive,
     CloseConnection, vars, Break, RemoveCluster, CloseGet, CloseDelete, UpdateCluster,
     UpdateGet, UpdateInject

\* Every way out of HandleConnection gives the slot back.
LEMMA NextLeaks == ASSUME IInv, TInv', [Next]_vars PROVE NothingLeaks'
<1> USE ConnsAssumption DEF IInv, TInv, TypeOK, NothingLeaks, Holding, InMap, Admitted, OfCluster,
            handlerVars, helloVars, managerVars, closeVars
<1>1. ASSUME NEW c \in Conns, Arrive(c) PROVE NothingLeaks'
  BY <1>1 DEF Arrive, Goto
<1>2. ASSUME NEW c \in Conns, StorePreference(c) PROVE NothingLeaks'
  BY <1>2 DEF StorePreference, Goto
<1>3. ASSUME NEW c \in Conns, Admit(c) PROVE NothingLeaks'
  BY <1>3 DEF Admit, Goto
<1>4. ASSUME NEW c \in Conns, Reject(c) PROVE NothingLeaks'
  BY <1>4 DEF Reject, Return
<1>5. ASSUME NEW c \in Conns, LockMap(c) PROVE NothingLeaks'
  BY <1>5 DEF LockMap, Goto
<1>6. ASSUME NEW c \in Conns, UpdateIdentification(c) PROVE NothingLeaks'
  BY <1>6 DEF UpdateIdentification, Goto
<1>7. ASSUME NEW c \in Conns, Register(c) PROVE NothingLeaks'
  BY <1>7 DEF Register, Goto
<1>8. ASSUME NEW c \in Conns, TerminateOld(c) PROVE NothingLeaks'
  BY <1>8 DEF TerminateOld, Goto, Signal
<1>9. ASSUME NEW c \in Conns, Prelude(c) PROVE NothingLeaks'
  BY <1>9 DEF Prelude, Goto, Signal
<1>10. ASSUME NEW c \in Conns, RunEnds(c) PROVE NothingLeaks'
  BY <1>10 DEF RunEnds, Goto
<1>11. ASSUME NEW c \in Conns, GiveBackSlot(c) PROVE NothingLeaks'
  BY <1>11 DEF GiveBackSlot, Goto, RemoveSlot
<1>12. ASSUME NEW c \in Conns, ClearMap(c) PROVE NothingLeaks'
  BY <1>12 DEF ClearMap, Return
<1>13. ASSUME NEW c \in Conns, Refuse(c) PROVE NothingLeaks'
  BY <1>13 DEF Refuse, Return, RemoveSlot
<1>14. ASSUME NEW c \in Conns, Reconciled(c) PROVE NothingLeaks'
  BY <1>14 DEF Reconciled, RemoveSlot
<1>15. ASSUME NEW cl \in Clusters, CloseSlot(cl) PROVE NothingLeaks'
  BY <1>15 DEF CloseSlot, RemoveSlot
<1>16. CASE UNCHANGED <<pc, slots>>
  BY <1>16
<1> QED
  BY <1>1, <1>2, <1>3, <1>4, <1>5, <1>6, <1>7, <1>8, <1>9, <1>10, <1>11, <1>12, <1>13, <1>14,
     <1>15, <1>16 DEF Next, HandleConnection, Receive, CloseConnection, vars, SyncedEvent,
     TooLarge, Notice, Break, RemoveCluster, CloseGet, CloseTerminate, CloseDelete,
     UpdateCluster, UpdateGet, UpdateInject

\* The set of slots is finite, and grows only while it is smaller than the limit.
LEMMA NextCounted == ASSUME IInv, [Next]_vars PROVE SlotsCounted'
<1> USE DEF IInv, TInv, TypeOK, SlotsCounted
<1>1. ASSUME NEW c \in Conns, Admit(c) PROVE SlotsCounted'
  <2>1. CASE MaxSensors = 0
    BY <1>1, <2>1 DEF Admit
  <2>2. CASE MaxSensors # 0
    <3>1. slots' = slots \cup {ClusterOf[c]} /\ Cardinality(slots) < MaxSensors
      BY <1>1, <2>2 DEF Admit, HasRoom
    <3>2. /\ IsFiniteSet(slots')
          /\ Cardinality(slots') \in {Cardinality(slots), Cardinality(slots) + 1}
      BY <3>1, FS_AddElement
    <3> QED
      BY <3>1, <3>2, FS_CardinalityType, ConnsAssumption
  <2> QED
    BY <2>1, <2>2
<1>2. ASSUME NEW cl, NEW c, RemoveSlot(cl, c) PROVE SlotsCounted'
  <2>1. IsFiniteSet(slots') /\ Cardinality(slots') <= Cardinality(slots)
    BY <1>2, FS_Subset DEF RemoveSlot
  <2> QED
    BY <2>1, FS_CardinalityType, ConnsAssumption
<1>3. CASE UNCHANGED slots
  BY <1>3
<1> DEFINE Kinds == \/ UNCHANGED slots \/ \E c \in Conns : Admit(c)
                    \/ \E cl \in Clusters, c \in Conns \cup {NoConn} : RemoveSlot(cl, c)
<1>4. Kinds
  <2> USE ConnsAssumption DEF handlerVars, helloVars, managerVars, closeVars
  <2>1. ASSUME NEW c \in Conns, HandleConnection(c) PROVE Kinds
    BY <2>1 DEF HandleConnection, StorePreference, Reject, LockMap, UpdateIdentification,
         Register, TerminateOld, Prelude, RunEnds, GiveBackSlot, ClearMap, Refuse
  <2>2. ASSUME NEW c \in Conns, Arrive(c) \/ Receive(c) \/ Reconciled(c) \/ Break(c) PROVE Kinds
    BY <2>2 DEF Arrive, Receive, SyncedEvent, TooLarge, Notice, Reconciled, Break
  <2>3. ASSUME NEW cl \in Clusters, RemoveCluster(cl) \/ CloseConnection(cl) \/ UpdateCluster(cl)
        PROVE  Kinds
    BY <2>3 DEF RemoveCluster, CloseConnection, CloseSlot, CloseGet, CloseTerminate,
         CloseDelete, UpdateCluster
  <2> QED
    BY <2>1, <2>2, <2>3 DEF Next, UpdateGet, UpdateInject, vars
<1> QED
  BY <1>1, <1>2, <1>3, <1>4

LEMMA InitIInv == Init => IInv
<1> SUFFICES ASSUME Init PROVE IInv
  OBVIOUS
<1> USE ConnsAssumption DEF Init
<1>1. TInv
  BY DEF TInv, TypeOK, AllIds, Places, NoUpdate
<1>2. MutexOK /\ MapOK /\ DedupersOK /\ ServesOK /\ ReconciledOK /\ ClosingOK
  BY DEF MutexOK, MapOK, DedupersOK, ServesOK, ReconciledOK, ClosingOK, Holding, InMap
<1>3. SlotsCounted
  BY FS_EmptySet DEF SlotsCounted
<1>4. SlotsOwned /\ NothingLeaks
  BY DEF SlotsOwned, NothingLeaks, InInitSync
<1> QED
  BY <1>1, <1>2, <1>3, <1>4 DEF IInv

LEMMA NextIInv == IInv /\ [Next]_vars => IInv'
<1> SUFFICES ASSUME IInv, [Next]_vars PROVE IInv'
  OBVIOUS
<1>1. TInv'
  BY NextType DEF IInv
<1> QED
  BY <1>1, NextMutex, NextMap, NextDedupers, NextServes, NextReconciled, NextClosing,
     NextOwned, NextLeaks, NextCounted DEF IInv

LEMMA Invariance == Spec => []IInv
  BY InitIInv, NextIInv, PTL DEF Spec
-----------------------------------------------------------------------------
\* The variables have their types.
THEOREM TypeCorrect == Spec => []TypeOK
<1>1. IInv => TypeOK
  BY DEF IInv, TInv
<1> QED
  BY <1>1, Invariance, PTL

\* The map leads to connections of the cluster whose handler will still clear the entry, and
\* whose deduper is flushed, unless CloseConnection has come to its end: a cluster that was
\* put back into the database keeps its connection, but not the deduper.
THEOREM MapLeadsToLive == Spec => []MapIsLive
<1>1. IInv => MapIsLive
  BY DEF IInv, TInv, TypeOK, MapOK, DedupersOK, InMap, MapIsLive
<1> QED
  BY <1>1, Invariance, PTL

\* However many connections of a cluster overtake each other in HandleConnection, only the
\* one in the map goes on.
THEOREM OneServes == Spec => []OnlyOneServes
<1>1. IInv => OnlyOneServes
  BY DEF IInv, ServesOK, OnlyOneServes
<1> QED
  BY <1>1, Invariance, PTL

\* No more clusters than the limit are in their initial synchronization, up to those that
\* were robbed of their slot.
THEOREM SyncsStayBounded == Spec => []SyncsBounded
<1>1. ASSUME IInv, MaxSensors > 0
      PROVE  Cardinality({ClusterOf[c] : c \in InInitSync \ robbed}) <= MaxSensors
  <2> DEFINE Syncing == {ClusterOf[c] : c \in InInitSync \ robbed}
  <2>1. Syncing \subseteq slots
    BY <1>1 DEF IInv, SlotsOwned
  <2>2. IsFiniteSet(slots) /\ Cardinality(slots) <= MaxSensors
    BY <1>1 DEF IInv, SlotsCounted
  <2>3. IsFiniteSet(Syncing) /\ Cardinality(Syncing) <= Cardinality(slots)
    BY <2>1, <2>2, FS_Subset
  <2> HIDE DEF Syncing
  <2>4. Cardinality(Syncing) <= MaxSensors
    BY <2>2, <2>3, FS_CardinalityType, ConnsAssumption
  <2> QED
    BY <2>4 DEF Syncing
<1>2. IInv => SyncsBounded
  BY <1>1 DEF SyncsBounded
<1> QED
  BY <1>2, Invariance, PTL

\* Every slot belongs to a cluster with a connection whose handler will give it back.
THEOREM SlotsDoNotLeak == Spec => []NothingLeaks
<1>1. IInv => NothingLeaks
  BY DEF IInv
<1> QED
  BY <1>1, Invariance, PTL
-----------------------------------------------------------------------------
\* The refinement.  A step of the manager changes the session of one cluster at most.
Cut == {cl \in Clusters \ exists : closing[cl] \in {"delete", "done"}}
Same(cl) == Session(cl)' = Session(cl)

LEMMA AbstractStep ==
    ASSUME NEW cl \in Clusters, \A k \in Clusters \ {cl} : Same(k), exists' = exists, Cut' = Cut,
           \/ Same(cl) \/ Session(cl)' = "none"
           \/ Session(cl)' = "syncing" /\ cl \notin Cut
           \/ Session(cl) = "syncing" /\ Session(cl)' = "synced"
    PROVE  [Sessions!Next]_(Sessions!vars)
<1> DEFINE session == [k \in Clusters |-> Session(k)]
<1>0. (Clusters \ exists)' = Clusters \ exists /\ Cut' = Cut
  OBVIOUS
<1>1. CASE Same(cl)
  <2>1. session' = session
    BY <1>1 DEF Same
  <2> QED
    BY <1>0, <2>1 DEF Sessions!vars, Cut
<1>2. CASE Session(cl)' = "none"
  <2>1. session' = [session EXCEPT ![cl] = "none"]
    BY <1>2 DEF Same
  <2> QED
    BY <1>0, <2>1 DEF Sessions!Next, Sessions!Lose, Cut
<1>3. CASE Session(cl)' = "syncing" /\ cl \notin Cut
  <2>1. session' = [session EXCEPT ![cl] = "syncing"]
    BY <1>3 DEF Same
  <2> QED
    BY <1>0, <1>3, <2>1 DEF Sessions!Next, Sessions!Connect, Cut
<1>4. CASE Session(cl) = "syncing" /\ Session(cl)' = "synced"
  <2>1. session[cl] = "syncing" /\ session' = [session EXCEPT ![cl] = "synced"]
    BY <1>4 DEF Same
  <2> QED
    BY <1>0, <2>1 DEF Sessions!Next, Sessions!Sync, Cut
<1> QED
  BY <1>1, <1>2, <1>3, <1>4

\* Stopping a connection ends the session of its cluster, or none.
LEMMA SignalStep ==
    ASSUME IInv, NEW c \in Conns, NEW why \in {"yes", "large"}, Signal(c, why),
           UNCHANGED <<conn, rec>>
    PROVE  /\ \A k \in Clusters \ {ClusterOf[c]} : Same(k)
           /\ Same(ClusterOf[c]) \/ Session(ClusterOf[c])' = "none"
           /\ conn[ClusterOf[c]] = c => Session(ClusterOf[c])' = "none"
  BY ConnsAssumption DEF IInv, TInv, TypeOK, MapOK, Signal, Same, Session

\* What happens to a connection that is not in the map is not seen.
LEMMA UnseenStep ==
    ASSUME IInv, NEW c \in Conns, \A k \in Clusters : conn[k] # c, UNCHANGED conn,
           \A d \in Conns \ {c} : stop'[d] = stop[d] /\ rec'[d] = rec[d]
    PROVE  \A k \in Clusters : Same(k)
  BY ConnsAssumption DEF IInv, TInv, TypeOK, Same, Session

LEMMA HandlerStep ==
    ASSUME IInv, NEW c \in Conns, HandleConnection(c) PROVE [Sessions!Next]_(Sessions!vars)
<1> DEFINE cl == ClusterOf[c]
<1> USE DEF handlerVars, helloVars, managerVars, closeVars
<1>0. cl \in Clusters /\ TypeOK
  BY ConnsAssumption DEF IInv, TInv
<1>1. exists' = exists /\ Cut' = Cut
  BY DEF HandleConnection, StorePreference, Admit, Reject, LockMap, UpdateIdentification,
     Register, TerminateOld, Prelude, RunEnds, GiveBackSlot, ClearMap, Refuse, Cut
<1>2. CASE UNCHANGED <<conn, stop, rec>>
  <2>1. \A k \in Clusters : Same(k)
    BY <1>2 DEF Same, Session
  <2> QED
    BY <1>0, <1>1, <2>1, AbstractStep
<1>3. CASE Reject(c) \/ Refuse(c)
  <2>1. \A k \in Clusters : conn[k] # c
    BY <1>3, ConnsAssumption DEF IInv, MapOK, InMap, Reject, Refuse
  <2>2. \A k \in Clusters : Same(k)
    BY <1>0, <1>3, <2>1, UnseenStep DEF TypeOK, Reject, Refuse, Return
  <2> QED
    BY <1>0, <1>1, <2>2, AbstractStep
<1>4. CASE Register(c)
  <2>1. \A k \in Clusters \ {cl} : Same(k)
    BY <1>0, <1>4 DEF TypeOK, Register, Same, Session
  <2>2. rec[c] = "no" /\ cl \notin Cut
    BY <1>0, <1>4 DEF IInv, ReconciledOK, Holding, ClosingOK, Register, Cut
  <2>3. Session(cl)' \in {"none", "syncing"}
    BY <1>0, <1>4, <2>2, ConnsAssumption DEF TypeOK, Register, Session
  <2> QED
    BY <1>0, <1>1, <2>1, <2>2, <2>3, AbstractStep
<1>5. CASE TerminateOld(c) /\ old[c] # NoConn
  <2>1. PICK o \in Conns : o = old[c]
    BY <1>0, <1>5 DEF TypeOK
  <2>2. Signal(o, "yes") /\ UNCHANGED <<conn, rec>> /\ ClusterOf[o] \in Clusters
    BY <1>5, <2>1, ConnsAssumption DEF TerminateOld
  <2>3. /\ \A k \in Clusters \ {ClusterOf[o]} : Same(k)
        /\ Same(ClusterOf[o]) \/ Session(ClusterOf[o])' = "none"
    BY <2>2, SignalStep
  <2> QED
    BY <1>1, <2>2, <2>3, AbstractStep
<1>6. CASE Prelude(c) /\ Signal(c, "yes")
  <2>1. /\ \A k \in Clusters \ {cl} : Same(k)
        /\ Same(cl) \/ Session(cl)' = "none"
    BY <1>6, SignalStep DEF Prelude
  <2> QED
    BY <1>0, <1>1, <2>1, AbstractStep
<1>7. CASE ClearMap(c)
  <2>1. \A k \in Clusters \ {cl} : conn[k] # c /\ conn'[k] = conn[k]
    BY <1>0, <1>7, ConnsAssumption DEF TypeOK, ClearMap, IInv, MapOK, InMap
  <2>2. \A d \in Conns \ {c} : stop'[d] = stop[d] /\ rec'[d] = rec[d]
    BY <1>0, <1>7 DEF TypeOK, ClearMap, Return
  <2>3. \A k \in Clusters \ {cl} : Same(k)
    BY <1>0, <2>1, <2>2 DEF TypeOK, Same, Session
  <2>4. Same(cl) \/ Session(cl)' = "none"
    BY <1>0, <1>7, <2>2 DEF TypeOK, ClearMap, Same, Session
  <2> QED
    BY <1>0, <1>1, <2>3, <2>4, AbstractStep
<1> QED
  BY <1>2, <1>3, <1>4, <1>5, <1>6, <1>7 DEF HandleConnection, StorePreference, Admit, LockMap,
     UpdateIdentification, TerminateOld, Prelude, RunEnds, GiveBackSlot

LEMMA StreamStep ==
    ASSUME IInv, NEW c \in Conns, Arrive(c) \/ Receive(c) \/ Reconciled(c) \/ Break(c)
    PROVE  [Sessions!Next]_(Sessions!vars)
<1> DEFINE cl == ClusterOf[c]
<1> USE DEF handlerVars, helloVars, managerVars, closeVars
<1>0. cl \in Clusters /\ TypeOK
  BY ConnsAssumption DEF IInv, TInv
<1>1. exists' = exists /\ Cut' = Cut
  BY DEF Arrive, Receive, SyncedEvent, TooLarge, Notice, Reconciled, Break, Cut
<1>2. CASE Arrive(c) \/ (Reconciled(c) /\ pc[c] = "free")
  <2>1. \A k \in Clusters : conn[k] # c
    BY <1>2, ConnsAssumption DEF IInv, MapOK, InMap, Arrive
  <2>2. \A k \in Clusters : Same(k)
    BY <1>0, <1>2, <2>1, UnseenStep DEF TypeOK, Arrive, Reconciled
  <2> QED
    BY <1>0, <1>1, <2>2, AbstractStep
<1>3. CASE Reconciled(c) /\ pc[c] # "free"
  <2>1. \A k \in Clusters \ {cl} : Same(k)
    BY <1>0, <1>3 DEF IInv, TypeOK, MapOK, Reconciled, Same, Session
  <2>2. Same(cl) \/ (Session(cl) = "syncing" /\ Session(cl)' = "synced")
    BY <1>0, <1>3 DEF TypeOK, Reconciled, Same, Session
  <2> QED
    BY <1>0, <1>1, <2>1, <2>2, AbstractStep
<1>4. CASE SyncedEvent(c) \/ Break(c)
  <2>1. \A k \in Clusters : Same(k)
    BY <1>0, <1>4 DEF TypeOK, SyncedEvent, Break, Same, Session
  <2> QED
    BY <1>0, <1>1, <2>1, AbstractStep
<1>5. CASE TooLarge(c) \/ Notice(c)
  <2>1. /\ \A k \in Clusters \ {cl} : Same(k)
        /\ Same(cl) \/ Session(cl)' = "none"
    BY <1>5, SignalStep DEF TooLarge, Notice
  <2> QED
    BY <1>0, <1>1, <2>1, AbstractStep
<1> QED
  BY <1>2, <1>3, <1>4, <1>5 DEF Receive

\* A cluster is cut off by the lookup that finds no connection, or by Terminate: the lookup
\* has found all there is.  If the cluster was put back, a session is lost instead.
LEMMA ClusterStep ==
    ASSUME IInv, NEW cl \in Clusters,
           RemoveCluster(cl) \/ CloseConnection(cl) \/ UpdateCluster(cl)
    PROVE  [Sessions!Next]_(Sessions!vars)
<1> DEFINE session == [k \in Clusters |-> Session(k)]
<1> USE DEF handlerVars, helloVars, managerVars, closeVars
<1>0. TypeOK
  BY DEF IInv, TInv
<1>1. CASE RemoveCluster(cl)
  <2>1. session' = session
    BY <1>1 DEF RemoveCluster, Session
  <2>2. Cut' = Cut
    BY <1>0, <1>1 DEF RemoveCluster, Cut, TypeOK
  <2>3. (Clusters \ exists)' = (Clusters \ exists) \cup {cl}
    BY <1>1 DEF RemoveCluster
  <2> QED
    BY <2>1, <2>2, <2>3 DEF Sessions!Next, Sessions!Delete, Cut
<1>2. ASSUME cl \notin exists, (CloseGet(cl) /\ conn[cl] = NoConn) \/ CloseTerminate(cl)
      PROVE  [Sessions!Next]_(Sessions!vars)
  <2>1. \A k \in Clusters \ {cl} : Same(k)
    <3>1. CASE CloseGet(cl)
      BY <3>1 DEF CloseGet, Same, Session
    <3>2. CASE CloseTerminate(cl)
      <4>1. PICK o \in Conns : o = target[cl] /\ ClusterOf[o] = cl
        BY <1>0, <3>2, ConnsAssumption DEF CloseTerminate, TypeOK, IInv, ClosingOK
      <4>2. Signal(o, "yes") /\ UNCHANGED <<conn, rec>>
        BY <3>2, <4>1 DEF CloseTerminate
      <4> QED
        BY <4>1, <4>2, SignalStep
    <3> QED
      BY <1>2, <3>1, <3>2
  <2>2. Session(cl)' = "none"
    <3>1. CASE CloseGet(cl) /\ conn[cl] = NoConn
      BY <3>1 DEF CloseGet, Session
    <3>2. CASE CloseTerminate(cl) /\ conn[cl] = NoConn
      BY <3>2 DEF CloseTerminate, Session
    <3>3. CASE CloseTerminate(cl) /\ conn[cl] # NoConn
      <4>1. PICK o \in Conns : o = target[cl] /\ ClusterOf[o] = cl /\ conn[cl] = o
        BY <1>0, <1>2, <3>3, ConnsAssumption DEF CloseTerminate, TypeOK, IInv, ClosingOK
      <4>2. Signal(o, "yes") /\ UNCHANGED <<conn, rec>>
        BY <3>3, <4>1 DEF CloseTerminate
      <4> QED
        BY <4>1, <4>2, SignalStep
    <3> QED
      BY <1>2, <3>1, <3>2, <3>3
  <2>3. session' = [session EXCEPT ![cl] = "none"]
    BY <2>1, <2>2 DEF Same
  <2>4. cl \notin exists /\ exists' = exists /\ Cut' = Cut \cup {cl}
    BY <1>0, <1>2 DEF CloseGet, CloseTerminate, TypeOK, Cut
  <2> QED
    BY <2>3, <2>4 DEF Sessions!Next, Sessions!CutOff, Cut
<1>3. CASE \/ CloseSlot(cl) \/ (CloseGet(cl) /\ conn[cl] # NoConn)
           \/ CloseDelete(cl)
  <2>1. \A k \in Clusters : Same(k)
    BY <1>3 DEF CloseSlot, CloseGet, CloseDelete, Same, Session
  <2>2. exists' = exists /\ Cut' = Cut
    BY <1>0, <1>3 DEF CloseSlot, CloseGet, CloseDelete, TypeOK, Cut
  <2> QED
    BY <2>1, <2>2, AbstractStep
<1>4. CASE cl \in exists /\ CloseGet(cl) /\ conn[cl] = NoConn
  <2>1. \A k \in Clusters : Same(k)
    BY <1>4 DEF CloseGet, Same, Session
  <2>2. exists' = exists /\ Cut' = Cut
    BY <1>0, <1>4 DEF CloseGet, TypeOK, Cut
  <2> QED
    BY <2>1, <2>2, AbstractStep
<1>5. CASE cl \in exists /\ CloseTerminate(cl)
  <2>1. PICK o \in Conns : o = target[cl] /\ ClusterOf[o] = cl
    BY <1>0, <1>5, ConnsAssumption DEF CloseTerminate, TypeOK, IInv, ClosingOK
  <2>2. Signal(o, "yes") /\ UNCHANGED <<conn, rec>>
    BY <1>5, <2>1 DEF CloseTerminate
  <2>3. (\A k \in Clusters \ {cl} : Same(k)) /\ (Same(cl) \/ Session(cl)' = "none")
    BY <2>1, <2>2, SignalStep
  <2>4. exists' = exists /\ Cut' = Cut
    BY <1>0, <1>5 DEF CloseTerminate, TypeOK, Cut
  <2> QED
    BY <2>3, <2>4, AbstractStep
<1>6. CASE UpdateCluster(cl)
  <2>1. session' = session
    BY <1>6 DEF UpdateCluster, Session
  <2>2. CASE cl \in exists
    <3>1. exists' = exists /\ Cut' = Cut
      BY <1>6, <2>2 DEF UpdateCluster, Cut
    <3> QED
      BY <2>1, <3>1 DEF Sessions!vars, Cut
  <2>3. CASE cl \notin exists
    <3>1. cl \in Clusters \ exists
      BY <2>3
    <3>2. (Clusters \ exists)' = (Clusters \ exists) \ {cl} /\ Cut' = Cut \ {cl}
      BY <1>6 DEF UpdateCluster, Cut
    <3> QED
      BY <2>1, <3>1, <3>2 DEF Sessions!Next, Sessions!PutBack, Cut
  <2> QED
    BY <2>2, <2>3
<1> QED
  BY <1>1, <1>2, <1>3, <1>4, <1>5, <1>6 DEF CloseConnection

\* The manager implements the sessions it promises: every step of HandleConnection, of the
\* goroutines of a connection and of CloseConnection is a step of one session, or is not
\* seen; after CutOff no connection that was on its way makes a session of the cluster, until
\* UpdateCluster has put the cluster back.
THEOREM Implementation == Spec => ImplementsSessions
<1>1. Init => Sessions!Init
  BY DEF Init, Sessions!Init, Session
<1>2. IInv /\ [Next]_vars => [Sessions!Next]_(Sessions!vars)
  <2> SUFFICES ASSUME IInv, [Next]_vars PROVE [Sessions!Next]_(Sessions!vars)
    OBVIOUS
  <2>1. CASE UpdateGet \/ UpdateInject \/ UNCHANGED vars
    <3>1. UNCHANGED <<conn, stop, rec, exists, closing>>
      BY <2>1 DEF UpdateGet, UpdateInject, vars, handlerVars, managerVars, closeVars
    <3> QED
      BY <3>1 DEF Sessions!vars, Session
  <2> QED
    BY <2>1, HandlerStep, StreamStep, ClusterStep DEF Next
<1> QED
  BY <1>1, <1>2, Invariance, PTL DEF Spec, ImplementsSessions, Sessions!Spec
=============================================================================
