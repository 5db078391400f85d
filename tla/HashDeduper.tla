----------------------------- MODULE HashDeduper -----------------------------
(***************************************************************************)
(* Central's deduper for one cluster, with everything that calls it: the   *)
(* event handler (ShouldProcess), the worker queue (retries, RemoveMessage),*)
(* the pipeline (MarkSuccessful), the connection manager (StartSync,        *)
(* termination of the replaced connection), the Synced event (ProcessSync)  *)
(* and the hash manager (flush to the database, reload after a restart).    *)
(*                                                                         *)
(* Accepted messages are handled in any order here; the queues that order   *)
(* them are in EventQueues.                                                 *)
(***************************************************************************)
EXTENDS DeduperOps

CONSTANTS
    MaxAttempts,   \* maxHandlerAttempts
    Traffic,       \* the events Sensor may send, a bound on FirstMsg
    MaxPending     \* bound on the messages in hand or waiting for a retry

ASSUME MaxAttemptsAssumption == MaxAttempts \in Nat \ {0} /\ MaxPending \in Nat
ASSUME TrafficAssumption == Traffic \subseteq FirstMsg

VARIABLES
    ded,        \* the deduper of the cluster
    persisted,  \* the hashes of the cluster in the database
    pending,    \* messages accepted by the live connection, not yet handled
    retrying,   \* messages of the live connection waiting for their retry timer
    stale,      \* messages a worker of a terminated connection is still handling
    conn,       \* which connections of the cluster exist, see ConnStates
    draining,   \* a terminated connection has not stopped pulling from its queues
    closed,     \* the connections (of Conns) whose reconciliation map is closed
    written,    \* ghost: the hashes the pipeline has stored, per key
    lost,       \* ghost: <<key, hash>> dropped after the last attempt, by cancellation
                \* or with its connection, since StartSync
    seen        \* ghost: keys a SYNC event arrived for since StartSync

vars == <<ded, persisted, pending, retrying, stale, conn, draining, closed,
          written, lost, seen>>

(* none       Sensor is not connected
   starting   a new connection is being set up, there is no other
   live       one connection, running
   replacing  a new connection is being set up while the old one is running *)
ConnStates == {"none", "starting", "live", "replacing"}
\* The connection that feeds the deduper, and a terminated one that is still draining.
Conns == {"current", "terminated"}
Receiving == conn \in {"live", "replacing"}

\* What is lost with m: nothing if it is a REMOVE, which leaves no hash behind.
Loss(m) == IF m.act = "REMOVE" THEN {} ELSE {<<m.key, m.val>>}
NextAttempt(m) == [m EXCEPT !.attempt = @ + 1]

Init ==
    /\ ded = NewDeduper([k \in Keys |-> NoHash])
    /\ persisted = [k \in Keys |-> NoHash]
    /\ pending = {} /\ retrying = {} /\ stale = {}
    /\ conn = "none" /\ draining = FALSE /\ closed = {}
    /\ written = [k \in Keys |-> {}]
    /\ lost = {} /\ seen = {}

-----------------------------------------------------------------------------
\* addMultiplexed: ShouldProcess, then the worker queue.
Accept(m) ==
    /\ ded' = AfterShouldProcess(ded, m)
    /\ pending' = IF ShouldProcess(ded, m) THEN pending \cup {m} ELSE pending
    /\ seen' = IF m.act = "SYNC" THEN seen \cup {m.key} ELSE seen

HasRoom == Cardinality(pending) + Cardinality(retrying) + Cardinality(stale) < MaxPending

Receive(m) ==
    /\ Receiving
    /\ HasRoom
    /\ Accept(m)
    /\ UNCHANGED <<persisted, retrying, stale, conn, draining, closed, written, lost>>

\* PullBlocking chooses at random between the stop signal and a queue that is not
\* empty: a terminated connection may handle a few more of its queued messages.
ReceiveLate(m) ==
    /\ draining
    /\ HasRoom
    /\ ded' = AfterShouldProcess(ded, m)
    /\ stale' = IF ShouldProcess(ded, m) THEN stale \cup {m} ELSE stale
    /\ seen' = IF m.act = "SYNC" THEN seen \cup {m.key} ELSE seen
    /\ UNCHANGED <<persisted, pending, retrying, conn, draining, closed, written, lost>>

\* All goroutines of the terminated connection have taken the stop signal.
Drained ==
    /\ draining
    /\ draining' = FALSE
    /\ closed' = closed \ {"terminated"}
    /\ UNCHANGED <<ded, persisted, pending, retrying, stale, conn, written,
                   lost, seen>>

\* The retry timer fires: InjectMessageIntoQueue, and addMultiplexed again.
Retry(m) ==
    /\ m \in retrying
    /\ retrying' = retrying \ {m}
    /\ Accept(m)
    /\ UNCHANGED <<persisted, stale, conn, draining, closed, written, lost>>

\* A worker is done with m, of the live or of a terminated connection.
Handled(m) ==
    /\ m \in pending \cup stale
    /\ pending' = pending \ {m}
    /\ stale' = stale \ {m}

\* pipelineImpl.Run succeeds: the fragment has stored m, MarkSuccessful follows.
Succeed(m) ==
    /\ Handled(m)
    /\ ded' = MarkSuccessful(ded, m)
    /\ written' = IF m.act = "REMOVE" THEN written
                  ELSE [written EXCEPT ![m.key] = @ \cup {m.val}]
    /\ UNCHANGED <<persisted, retrying, conn, draining, closed, lost, seen>>

\* pipelineImpl.Run swallows context.Canceled: neither marked nor removed.
Cancel(m) ==
    /\ m \in stale
    /\ Handled(m)
    /\ lost' = lost \cup Loss(m)
    /\ UNCHANGED <<ded, persisted, retrying, conn, draining, closed, written, seen>>

\* runWorker, transient error: the last attempt is dropped as it is; otherwise a
\* timer is set that a terminated connection never lets fire.
FailTransient(m) ==
    /\ Handled(m)
    /\ \/ /\ m.attempt + 1 = MaxAttempts
          /\ lost' = lost \cup Loss(m)
          /\ UNCHANGED retrying
       \/ /\ m.attempt + 1 # MaxAttempts
          /\ m \in pending
          /\ retrying' = retrying \cup {NextAttempt(m)}
          /\ UNCHANGED lost
       \/ /\ m.attempt + 1 # MaxAttempts
          /\ m \in stale
          /\ lost' = lost \cup Loss(m)
          /\ UNCHANGED retrying
    /\ UNCHANGED <<ded, persisted, conn, draining, closed, written, seen>>

\* runWorker, any other error.
FailUnretryable(m) ==
    /\ Handled(m)
    /\ ded' = RemoveMessage(ded, m)
    /\ UNCHANGED <<persisted, retrying, conn, draining, closed, written, lost, seen>>

-----------------------------------------------------------------------------
\* HandleConnection creates the connection, newConnection calls StartSync; the
\* previous connection, if any, is still running.
NewConnection ==
    /\ \/ conn = "none" /\ conn' = "starting"
       \/ conn = "live" /\ conn' = "replacing"
    /\ ded' = StartSync(ded)
    /\ lost' = {} /\ seen' = {}
    /\ UNCHANGED <<persisted, pending, retrying, stale, draining, closed, written>>

\* replaceConnection succeeded and there is no connection to terminate.
StartRunning ==
    /\ conn = "starting"
    /\ conn' = "live"
    /\ UNCHANGED <<ded, persisted, pending, retrying, stale, draining, closed, written,
                   lost, seen>>

\* The queues and timers of a terminated connection are abandoned, except what its
\* workers have in their hands (inHand).
Abandon(inHand) ==
    /\ stale' = stale \cup inHand
    /\ pending' = {} /\ retrying' = {}
    /\ draining' = TRUE
    /\ closed' = IF "current" \in closed /\ (draining => "terminated" \in closed)
                 THEN {"terminated"} ELSE {}
    /\ lost' = lost \cup UNION {Loss(m) : m \in (pending \ inHand) \cup retrying}

\* replaceConnection succeeded, the old connection is told to terminate.
TerminateOld ==
    /\ conn = "replacing"
    /\ conn' = "live"
    /\ \E inHand \in SUBSET pending : Abandon(inHand)
    /\ UNCHANGED <<ded, persisted, written, seen>>

\* replaceConnection failed: the new connection is gone, an old one goes on.
RejectNew ==
    /\ \/ conn = "starting" /\ conn' = "none"
       \/ conn = "replacing" /\ conn' = "live"
    /\ UNCHANGED <<ded, persisted, pending, retrying, stale, draining, closed, written,
                   lost, seen>>

\* The connection that feeds the deduper breaks.
Disconnect ==
    /\ \/ conn = "live" /\ conn' = "none"
       \/ conn = "replacing" /\ conn' = "starting"
    /\ \E inHand \in SUBSET pending : Abandon(inHand)
    /\ UNCHANGED <<ded, persisted, written, seen>>

\* addMultiplexed, Synced event: a second one of the same connection is ignored.
Synced(c) ==
    /\ c \notin closed
    /\ IF c = "current" THEN Receiving ELSE draining
    /\ closed' = closed \cup {c}
    /\ ded' = ProcessSync(ded)
    /\ UNCHANGED <<persisted, pending, retrying, stale, conn, draining, written,
                   lost, seen>>

-----------------------------------------------------------------------------
\* managerImpl.flushHashes.
FlushHashes ==
    /\ persisted' = GetSuccessfulHashes(ded)
    /\ UNCHANGED <<ded, pending, retrying, stale, conn, draining, closed, written,
                   lost, seen>>

\* Central restarts; GetDeduper reads the persisted hashes when Sensor is back, or
\* starts without any if the database does not answer.
Restart ==
    /\ \E hashes \in {persisted, [k \in Keys |-> NoHash]} : ded' = NewDeduper(hashes)
    /\ pending' = {} /\ retrying' = {} /\ stale' = {}
    /\ conn' = "none" /\ draining' = FALSE /\ closed' = {}
    /\ lost' = {} /\ seen' = {}
    /\ UNCHANGED <<persisted, written>>

Next ==
    \/ \E m \in Traffic : Receive(m) \/ ReceiveLate(m)
    \/ \E m \in retrying : Retry(m)
    \/ \E m \in pending \cup stale : \/ Succeed(m)
                                     \/ FailTransient(m)
                                     \/ FailUnretryable(m)
    \/ \E m \in stale : Cancel(m)
    \/ NewConnection \/ StartRunning \/ TerminateOld \/ RejectNew \/ Disconnect \/ Drained
    \/ \E c \in Conns : Synced(c)
    \/ FlushHashes \/ Restart

Spec == Init /\ [][Next]_vars
-----------------------------------------------------------------------------
\* The variables have their types; in particular the deduper's entries and the message
\* sets stay within the keys, hashes and attempts the code can produce.
TypeOK ==
    /\ ded \in Deduper
    /\ persisted \in [Keys -> Hashes \cup {NoHash}]
    /\ pending \subseteq Msg /\ retrying \subseteq Msg /\ stale \subseteq Msg
    /\ conn \in ConnStates /\ draining \in BOOLEAN /\ closed \subseteq Conns
    /\ written \in [Keys -> SUBSET Hashes]
    /\ seen \subseteq Keys
    /\ lost \subseteq Keys \X Hashes

\* Whatever fails, is retried, overtaken or restarted: a hash that makes Central skip
\* an event as "successfully processed" (deduper.go:266), in memory or in the
\* database, is the hash of an object the pipeline has stored.
HashWasWritten ==
    \A k \in Keys :
        /\ Present(ded.successfullyProcessed[k])
              => ded.successfullyProcessed[k].val \in written[k]
        /\ persisted[k] # NoHash => persisted[k] \in written[k]

\* The received entry that makes Central skip an event as already on its way.
Clean(d, k) == Present(d.received[k]) /\ d.received[k].processed

\* A message that carries this hash of the key is being handled or will be retried.
OnItsWay(k, v) ==
    \E m \in pending \cup retrying \cup stale : m.key = k /\ m.val = v /\ m.act # "REMOVE"

\* A clean entry of the received map, which makes Central skip an event as "already
\* on its way", belongs to a message that is on its way; the only exceptions are the
\* abandoned ones: out of attempts, cancelled, or thrown away with a connection that
\* accepted them after its successor had called StartSync (deduper.go:259-265).
ReceivedIsBacked ==
    \A k \in Keys : Clean(ded, k) =>
        \/ OnItsWay(k, ded.received[k].val)
        \/ <<k, ded.received[k].val>> \in lost

\* ProcessSync never forgets the hash of an object whose SYNC event has reached Central
\* since StartSync, nor the alert hash of a deployment whose SYNC event has
\* (deduper.go:275-299).  It says nothing of the objects that Sensor's list reports only
\* as unchanged ids: no SYNC event comes for them, their hashes are forgotten, and the
\* connection after next gets their events again.
SyncKeepsSeen ==
    [][(\E c \in Conns : Synced(c)) => \A k \in Keys :
          \/ k \in seen \ AlertKeys
          \/ k \in AlertKeys /\ DeploymentOf[k] \in seen
          => ded'.successfullyProcessed[k] = ded.successfullyProcessed[k]]_vars
=============================================================================
