------------------------------ MODULE EventSync ------------------------------
(***************************************************************************)
(* How Central's copy of a cluster follows the cluster, end to end: Sensor's *)
(* listener, its deduper and its send buffer, the connection, Central's      *)
(* event handler with its reconciliation map, the worker of each resource,   *)
(* the database, and the hashes that are flushed to it.  Connections break    *)
(* and go on in Central until the next one replaces them, Central crashes,    *)
(* messages are dropped by a full buffer, objects fail to be stored.          *)
(*                                                                          *)
(* Retries of one message are not here (EventQueues); a failure is final.    *)
(***************************************************************************)
EXTENDS DeduperOps, DedupingQueue

CONSTANTS
    BufferSize,    \* env.ResponsesChannelBufferSize: what Sensor can send ahead of Central
    MaxChanges,    \* bound on the changes of the cluster
    MaxBreaks,     \* bound on broken connections and crashes
    Faults         \* what may go wrong, a subset of AllFaults

AllFaults == {"break",      \* connections break
              "crash",      \* Central crashes
              "fail",       \* the pipeline fails to store or remove an object
              "drop",       \* Sensor sends more than its buffer holds
              "straggler",  \* a worker outlives its terminated connection
              "revert"}     \* an object returns to a content it had before

ASSUME SyncAssumption ==
    /\ BufferSize \in Nat \ {0} /\ MaxChanges \in Nat /\ MaxBreaks \in Nat
    /\ Faults \subseteq AllFaults

VARIABLES
    truth, past,   \* the cluster: the content of each object, the contents it has had
    up,            \* Sensor is connected to Central
    starting,      \* Sensor has lost its connection, Central has created the next one
    listed,        \* Sensor: the objects its listener has seen in this connection
    synced,        \* Sensor: the Synced event was sent
    lastSent, centralState, unchanged,  \* Sensor's deduper
    wire,          \* from Sensor's send buffer to the connection's queue in Central
    ded,           \* Central's deduper
    recon, closed, \* Central's reconciliation map, and whether it is closed
    work,          \* the worker queue of each resource
    handling,      \* what the worker of each resource is doing
    old,           \* what a worker of a terminated connection is doing
    db, persisted, \* the database: the objects and the hashes
    excused,       \* ghost: objects with a failure, drop or straggler in this connection, or
                   \* accepted from the connection before after it began
    misled,        \* ghost: objects that are missing although Central has their hash
    changes, breaks

clusterVars == <<truth, past, changes>>
sensorVars == <<up, starting, listed, synced, lastSent, centralState, unchanged>>
handlerVars == <<ded, recon, closed>>
workerVars == <<work, handling, old>>
dbVars == <<db, persisted>>
disturbances == <<breaks, misled>>
vars == <<clusterVars, sensorVars, wire, handlerVars, workerVars, dbVars, excused, disturbances>>

NoHashes == [k \in Keys |-> NoHash]
Idle == [phase |-> "idle"]
AllIdle == [k \in Keys |-> Idle]

Init ==
    /\ truth = NoHashes /\ past = [k \in Keys |-> {}] /\ changes = 0
    /\ up = FALSE /\ starting = FALSE /\ listed = {} /\ synced = FALSE
    /\ lastSent = NoHashes /\ centralState = {} /\ unchanged = {}
    /\ wire = <<>>
    /\ ded = NewDeduper(NoHashes) /\ recon = {} /\ closed = FALSE
    /\ work = [k \in Keys |-> <<>>] /\ handling = AllIdle /\ old = AllIdle
    /\ db = NoHashes /\ persisted = NoHashes
    /\ excused = {} /\ misled = {} /\ breaks = 0

-----------------------------------------------------------------------------
\* Mutant: a buffer without a limit.
SendAlways(m, keys) == wire' = Append(wire, m) /\ UNCHANGED excused

\* bufferedStream.Send: a message that does not fit is dropped, without an error.
Send(m, keys) ==
    \/ /\ Len(wire) < BufferSize
       /\ wire' = Append(wire, m)
       /\ UNCHANGED excused
    \/ /\ Len(wire) >= BufferSize /\ "drop" \in Faults
       /\ excused' = excused \cup keys
       /\ UNCHANGED wire

Msgs(k, act, val) == [key |-> k, act |-> act, val |-> val, attempt |-> 0, dedupeKey |-> NoKey]

\* Mutant: an event that is not sent is forgotten.
UnchangedForgotten(k, act) == unchanged

\* What Central knows and Sensor need not send again is reported with the Synced event.
UnchangedWith(k, act) ==
    IF act = "SYNC" THEN unchanged \cup ({k} \cap centralState) ELSE unchanged

\* deduper.Send for an event: lastSent changes before the message is buffered.
SendEvent(k, act, val) ==
    \/ /\ act = "REMOVE" /\ lastSent[k] # NoHash
       /\ lastSent' = [lastSent EXCEPT ![k] = NoHash]
       /\ Send(Msgs(k, act, val), {k})
       /\ UNCHANGED unchanged
    \/ /\ act # "REMOVE" /\ lastSent[k] # val
       /\ lastSent' = [lastSent EXCEPT ![k] = val]
       /\ Send(Msgs(k, act, val), {k})
       /\ UNCHANGED unchanged
    \/ /\ act = "REMOVE" /\ lastSent[k] = NoHash
       /\ UNCHANGED <<lastSent, unchanged, wire, excused>>
    \/ /\ act # "REMOVE" /\ lastSent[k] = val
       /\ unchanged' = UnchangedWith(k, act)
       /\ UNCHANGED <<lastSent, wire, excused>>

NoEvent == UNCHANGED <<lastSent, unchanged, wire, excused>>

\* The listener has delivered k once, so it follows its changes.
Follows(k) == up /\ k \in listed

\* An object is created; ids are never used again.
Create(k, v) ==
    /\ changes < MaxChanges /\ past[k] = {}
    /\ truth' = [truth EXCEPT ![k] = v] /\ past' = [past EXCEPT ![k] = {v}]
    /\ changes' = changes + 1
    /\ \/ up /\ synced /\ listed' = listed \cup {k} /\ SendEvent(k, "CREATE", v)
       \/ ~ (up /\ synced) /\ NoEvent /\ UNCHANGED listed
    /\ UNCHANGED <<up, starting, synced, centralState, handlerVars, workerVars, dbVars,
                   disturbances>>

Update(k, v) ==
    /\ changes < MaxChanges /\ truth[k] \notin {NoHash, v}
    /\ v \in past[k] => "revert" \in Faults
    /\ truth' = [truth EXCEPT ![k] = v] /\ past' = [past EXCEPT ![k] = @ \cup {v}]
    /\ changes' = changes + 1
    /\ IF Follows(k) THEN SendEvent(k, "UPDATE", v) ELSE NoEvent
    /\ UNCHANGED <<up, starting, listed, synced, centralState, handlerVars, workerVars, dbVars,
                   disturbances>>

Delete(k) ==
    /\ changes < MaxChanges /\ truth[k] # NoHash
    /\ truth' = [truth EXCEPT ![k] = NoHash]
    /\ changes' = changes + 1
    /\ IF Follows(k) THEN SendEvent(k, "REMOVE", truth[k]) ELSE NoEvent
    /\ UNCHANGED <<past, up, starting, listed, synced, centralState, handlerVars, workerVars,
                   dbVars, disturbances>>

\* resourceEventHandlerImpl.OnAdd while resources are being synced.
List(k) ==
    /\ up /\ ~ synced /\ k \notin listed /\ truth[k] # NoHash
    /\ listed' = listed \cup {k}
    /\ SendEvent(k, "SYNC", truth[k])
    /\ UNCHANGED <<clusterVars, up, starting, synced, centralState, handlerVars, workerVars,
                   dbVars, disturbances>>

\* All informers have synced: the Synced event, with the unchanged ids.
ListDone ==
    /\ up /\ ~ synced /\ \A k \in Keys : truth[k] # NoHash => k \in listed
    /\ synced' = TRUE
    /\ Send([act |-> "Synced", unchangedIDs |-> unchanged], Keys)
    /\ UNCHANGED <<clusterVars, up, starting, listed, lastSent, centralState, unchanged,
                   handlerVars, workerVars, dbVars, disturbances>>

-----------------------------------------------------------------------------
\* Central creates a connection: newConnection calls StartSync.  The old connection still
\* has its queues and workers; it is not told before it is replaced.  While Sensor is
\* connected it is a rival, which replaceConnection rejects: it leaves the StartSync behind.
NewConnection ==
    /\ starting' = ~ up
    /\ ded' = StartSync(ded)
    /\ UNCHANGED <<clusterVars, up, listed, synced, lastSent, centralState, unchanged, wire,
                   recon, closed, workerVars, dbVars, excused, disturbances>>

\* What the old connection has accepted since the new one called StartSync.
Accepted == {k \in Keys : ded.received[k].processed}

\* HandleConnection replaces and terminates the old connection: its queues are gone and
\* its workers are cancelled, but for stragglers, which go on with what they have in hand.
\* Run sends the successful hashes to Sensor, unless it had to fall back to a connection
\* without client reconciliation, and Sensor's listener starts over.
Connect ==
    /\ starting
    /\ up' = TRUE /\ starting' = FALSE /\ listed' = {} /\ synced' = FALSE /\ unchanged' = {}
    /\ \E known \in {GetSuccessfulHashes(ded), NoHashes} :
          /\ lastSent' = known
          /\ centralState' = {k \in Keys : known[k] # NoHash}
    /\ wire' = <<>> /\ work' = [k \in Keys |-> <<>>] /\ handling' = AllIdle
    /\ old' = IF "straggler" \in Faults
              THEN [k \in Keys |-> IF old[k] = Idle THEN handling[k] ELSE old[k]]
              ELSE AllIdle
    /\ recon' = {} /\ closed' = FALSE
    /\ misled' = {k \in misled : Present(ded.successfullyProcessed[k]) /\ db[k] = NoHash}
    /\ excused' = misled' \cup Accepted
    /\ UNCHANGED <<clusterVars, ded, dbVars, breaks>>

\* Sensor loses its connection, which goes on in Central.
Break ==
    /\ "break" \in Faults /\ up
    /\ breaks < MaxBreaks /\ breaks' = breaks + 1
    /\ up' = FALSE
    /\ UNCHANGED <<clusterVars, starting, listed, synced, lastSent, centralState, unchanged,
                   wire, handlerVars, workerVars, dbVars, excused, misled>>

\* Central crashes; the next connection reads the persisted hashes, if it can.
Crash ==
    /\ "crash" \in Faults
    /\ breaks < MaxBreaks /\ breaks' = breaks + 1
    /\ up' = FALSE /\ starting' = FALSE
    /\ wire' = <<>> /\ work' = [k \in Keys |-> <<>>] /\ handling' = AllIdle /\ old' = AllIdle
    /\ \E hashes \in {persisted, NoHashes} :
          /\ ded' = NewDeduper(hashes)
          /\ misled' = {k \in Keys : hashes[k] # NoHash /\ db[k] = NoHash /\ truth[k] # NoHash}
    /\ UNCHANGED <<clusterVars, listed, synced, lastSent, centralState, unchanged,
                   recon, closed, dbVars, excused>>

-----------------------------------------------------------------------------
\* handleMessage and addMultiplexed for an event.
HandleEvent ==
    /\ wire # <<>> /\ Head(wire).act # "Synced"
    /\ wire' = Tail(wire)
    /\ LET m == [Head(wire) EXCEPT !.dedupeKey =
                    IF Head(wire).act = "CREATE" THEN NoKey ELSE <<Head(wire).key>>]
       IN  /\ recon' = IF closed THEN recon ELSE recon \cup {m.key}
           /\ ded' = AfterShouldProcess(ded, m)
           /\ work' = IF ShouldProcess(ded, m)
                      THEN [work EXCEPT ![m.key] = Push(@, m)]
                      ELSE work
    /\ UNCHANGED <<clusterVars, sensorVars, closed, handling, old, dbVars, excused, disturbances>>

\* Mutant: reconciliation deletes nothing.
ReconcileNothing(kept) == db

\* Perform, for all kinds: the objects that are not in the map are deleted.
Reconcile(kept) == [k \in Keys |-> IF k \in kept THEN db[k] ELSE NoHash]

\* addMultiplexed for the Synced event: Reconcile deletes what Sensor has neither sent
\* nor reported as unchanged (errors are logged), then ProcessSync and Close.  (A
\* duplicate would be ignored; Sensor sends one per connection.)  ProcessSync keeps the
\* hashes of objects that it deletes if the replaced connection has marked them as seen.
HandleSynced ==
    /\ wire # <<>> /\ Head(wire).act = "Synced" /\ ~ closed
    /\ wire' = Tail(wire)
    /\ recon' = recon \cup Head(wire).unchangedIDs
    /\ \E failed \in SUBSET (Keys \ recon') :
          /\ failed = {} \/ "fail" \in Faults
          /\ db' = Reconcile(recon' \cup failed)
          /\ excused' = excused \cup failed
    /\ ded' = ProcessSync(ded)
    /\ misled' = misled \cup {k \in excused \ NotSynced(ded) :
                                 /\ Present(ded'.successfullyProcessed[k])
                                 /\ db[k] # NoHash /\ db'[k] = NoHash}
    /\ closed' = TRUE
    /\ UNCHANGED <<clusterVars, sensorVars, workerVars, persisted, breaks>>

-----------------------------------------------------------------------------
\* runWorker: PullBlocking.
StartWork(k) ==
    /\ handling[k] = Idle /\ work[k] # <<>>
    /\ handling' = [handling EXCEPT ![k] = [phase |-> "pulled", msg |-> Pulled(work[k])]]
    /\ work' = [work EXCEPT ![k] = AfterPull(@)]
    /\ UNCHANGED <<clusterVars, sensorVars, wire, handlerVars, old, dbVars, excused, disturbances>>

Stored(m) == IF m.act = "REMOVE" THEN NoHash ELSE m.val

\* pipelineImpl.Run: the fragment stores or removes the object ...
Write(k) ==
    /\ handling[k].phase = "pulled"
    /\ db' = [db EXCEPT ![k] = Stored(handling[k].msg)]
    /\ handling' = [handling EXCEPT ![k].phase = "written"]
    /\ UNCHANGED <<clusterVars, sensorVars, wire, handlerVars, work, old, persisted, excused,
                   disturbances>>

\* ... and then the message is marked as successful.
Mark(k) ==
    /\ handling[k].phase = "written"
    /\ ded' = MarkSuccessful(ded, handling[k].msg)
    /\ handling' = [handling EXCEPT ![k] = Idle]
    /\ UNCHANGED <<clusterVars, sensorVars, wire, recon, closed, work, old, dbVars, excused,
                   disturbances>>

\* The pipeline fails for good, before or after it has written: RemoveMessage, or
\* nothing at all if this was the last attempt.
Fail(k) ==
    /\ "fail" \in Faults /\ handling[k] # Idle
    /\ ded' \in {RemoveMessage(ded, handling[k].msg), ded}
    /\ handling' = [handling EXCEPT ![k] = Idle]
    /\ excused' = excused \cup {k}
    /\ UNCHANGED <<clusterVars, sensorVars, wire, recon, closed, work, old, dbVars, disturbances>>

\* The same steps of a straggler.
OldWrite(k) ==
    /\ old[k].phase = "pulled"
    /\ db' = [db EXCEPT ![k] = Stored(old[k].msg)]
    /\ old' = [old EXCEPT ![k].phase = "written"]
    /\ excused' = excused \cup {k}
    /\ UNCHANGED <<clusterVars, sensorVars, wire, handlerVars, work, handling, persisted,
                   disturbances>>

OldMark(k) ==
    /\ old[k].phase = "written"
    /\ ded' = MarkSuccessful(ded, old[k].msg)
    /\ old' = [old EXCEPT ![k] = Idle]
    /\ excused' = excused \cup {k}
    /\ UNCHANGED <<clusterVars, sensorVars, wire, recon, closed, work, handling, dbVars,
                   disturbances>>

OldCancel(k) ==
    /\ old[k] # Idle
    /\ old' = [old EXCEPT ![k] = Idle]
    /\ UNCHANGED <<clusterVars, sensorVars, wire, handlerVars, work, handling, dbVars,
                   excused, disturbances>>

\* managerImpl.flushHashes.
FlushHashes ==
    /\ persisted' = GetSuccessfulHashes(ded)
    /\ UNCHANGED <<clusterVars, sensorVars, wire, handlerVars, workerVars, db, excused, disturbances>>

Work(k) == StartWork(k) \/ Write(k) \/ Mark(k) \/ Fail(k)
OldWork(k) == OldWrite(k) \/ OldMark(k) \/ OldCancel(k)

Next ==
    \/ \E k \in Keys : \E v \in Hashes : Create(k, v) \/ Update(k, v)
    \/ \E k \in Keys : Delete(k) \/ List(k)
    \/ ListDone \/ NewConnection \/ Connect \/ Break \/ Crash
    \/ HandleEvent \/ HandleSynced
    \/ \E k \in Keys : StartWork(k) \/ Write(k) \/ Mark(k) \/ Fail(k)
                       \/ OldWrite(k) \/ OldMark(k) \/ OldCancel(k)
    \/ FlushHashes

\* Sensor reconnects for ever (communicationWithCentralWithRetries), its listener lists
\* every object, and Central's handler and workers keep running.
Fairness ==
    /\ WF_vars(~ up /\ NewConnection) /\ WF_vars(Connect)
    /\ WF_vars(ListDone) /\ \A k \in Keys : WF_vars(List(k))
    /\ WF_vars(HandleEvent \/ HandleSynced)
    /\ \A k \in Keys : WF_vars(Work(k)) /\ WF_vars(OldWork(k))

Spec == Init /\ [][Next]_vars
FairSpec == Spec /\ Fairness
-----------------------------------------------------------------------------
\* Events, in Sensor's buffer without and in Central with their dedupe key.
Event(dedupeKeys) ==
    [key : Keys, act : Actions, val : Hashes, attempt : {0}, dedupeKey : dedupeKeys]
Wired == Event({NoKey}) \cup [act : {"Synced"}, unchangedIDs : SUBSET Keys]
Queueable == Event({NoKey} \cup {<<k>> : k \in Keys})
InHand == [phase : {"pulled", "written"}, msg : Queueable]

\* The variables have their types: Sensor's buffer keeps its size, unchanged ids come from
\* Central's state, and a worker handles events of its own resource.
TypeOK ==
    /\ truth \in [Keys -> Hashes \cup {NoHash}] /\ past \in [Keys -> SUBSET Hashes]
    /\ up \in BOOLEAN /\ starting \in BOOLEAN /\ up => ~ starting
    /\ synced \in BOOLEAN /\ closed \in BOOLEAN
    /\ listed \subseteq Keys /\ centralState \subseteq Keys /\ unchanged \subseteq centralState
    /\ lastSent \in [Keys -> Hashes \cup {NoHash}]
    /\ wire \in Seq(Wired) /\ Len(wire) <= BufferSize
    /\ ded \in Deduper /\ recon \subseteq Keys /\ excused \subseteq Keys /\ misled \subseteq Keys
    /\ work \in [Keys -> Seq(Queueable)]
    /\ handling \in [Keys -> {Idle} \cup InHand] /\ old \in [Keys -> {Idle} \cup InHand]
    /\ \A k \in Keys : /\ handling[k] # Idle => handling[k].msg.key = k
                       /\ old[k] # Idle => old[k].msg.key = k
                       /\ \A i \in 1..Len(work[k]) : work[k][i].key = k
    /\ db \in [Keys -> Hashes \cup {NoHash}] /\ persisted \in [Keys -> Hashes \cup {NoHash}]
    /\ changes \in 0..MaxChanges /\ breaks \in 0..MaxBreaks

\* Sensor has listed everything, Central has handled everything.
Settled ==
    /\ up /\ synced /\ closed /\ wire = <<>>
    /\ \A k \in Keys : work[k] = <<>> /\ handling[k] = Idle /\ old[k] = Idle

\* A connection that settles without a failure or a dropped message of an object has
\* brought Central's copy of the object up to date, whatever happened in earlier
\* connections: objects that changed or vanished while Sensor was away, messages that
\* failed or were dropped then, hashes that were not flushed before a crash.  There are two
\* exceptions.  What the replaced connection accepted after this one called StartSync went
\* with its queues, and the deduper skips it now (Accepted); the next connection heals it.
\* And an object that a dropped message has made Central delete, whose hash has stayed or
\* was restored by a crash, is taken for unchanged by Sensor once more (misled).
ResyncHeals == Settled => \A k \in Keys \ excused : db[k] = truth[k]

\* The same for existence alone, with the same exceptions.
ExistenceHeals ==
    Settled => \A k \in Keys \ excused : (db[k] = NoHash) = (truth[k] = NoHash)

\* Reconciliation (pipelineImpl.Reconcile) deletes no object that is still in the
\* cluster, except one whose message was dropped by Sensor's buffer.
ReconcileSparesExisting ==
    [][HandleSynced => \A k \in Keys \ excused :
          db[k] # NoHash /\ truth[k] # NoHash => db'[k] # NoHash]_vars

\* If the cluster, the network and Central leave each other alone after some time,
\* Central's copy becomes and stays right, except for what failed in the last connection
\* and what the connection before it accepted too late.
Converges == <>[](\A k \in Keys \ excused : db[k] = truth[k])

\* deduper.go:266: "if it was successfully processed at any time, we can skip the
\* processing".  What the successful hashes allow to skip is what the database holds.
SuccessfulMeansStored ==
    Settled => \A k \in Keys \ excused :
        truth[k] # NoHash /\ ded.successfullyProcessed[k].val = truth[k] => db[k] = truth[k]
=============================================================================
