# TLA+ models of StackRox: connections, event synchronization, upgrades, migrations

This directory holds TLA+ specifications of four parts of StackRox where several programs must
agree although they restart, the TLC configurations that check them, and proofs of their safety
properties that TLAPS checks.

* **Connections.** Central accepts a stream from the Sensor of each cluster, replaces an old
  stream by a new one, limits how many Sensors synchronize at once, and cuts off a cluster that is
  deleted.
* **Event synchronization.** Sensor watches a Kubernetes cluster and streams its objects to
  Central. Connections break, Central restarts, handlers fail and are retried, and both sides
  leave out what they believe the other knows. Central's database must still end up with the
  objects of the cluster.
* **Cluster upgrades.** Central upgrades Sensor through a third program, the upgrader, that runs
  in the secured cluster and asks Central what to do. All three may restart at any time, and
  Sensor is replaced in the middle of the process.
* **Migrations of Central's database.** Every pod of Central brings the database to its version
  before it serves, and rewrites rows in the background afterwards. Pods of two versions meet at
  one database during a rollout, rollbacks lower the version, a restore replaces the database, and
  a pod may end at any step.

How to check: `tlc -config <cfg> <MC module>` for a run, `tlapm <module>` for the proofs.
`PROJECT.json` lists runs, mutants, findings, theorems and, for each definition, the lines of the
repository it models.

## 1. Inventory

### Components of the event path

| Component | State | Operations | Interacts with |
|---|---|---|---|
| Deduper (`central/hash/manager/deduper.go`) | `received`, `successfullyProcessed`: hash and flag per event key | `ShouldProcess`, `MarkSuccessful`, `RemoveMessage`, `StartSync`, `ProcessSync`, `GetSuccessfulHashes` | event handler, workers, pipeline, new connections, hash manager |
| Hash manager (`central/hash/manager/manager.go`) | one deduper per cluster, the hashes in the database | `GetDeduper` (reload), periodic flush, `Delete` | database |
| Connection manager (`central/sensor/service/connection/manager_impl.go`) | map from cluster to connection and upgrade controller, clusters in their initial sync | `HandleConnection`, `replaceConnection`, `CloseConnection`, broadcast, health checks | everything on a connection, cluster datastore |
| Connection (`connection_impl.go`) | a deduping queue per message type, stop signals | receive loop, `handleMessages`, `InjectMessageIntoQueue`, `Terminate` | event handler, worker queues |
| Event handler (`sensorevents.go`) | reconciliation map, initial sync flag | `addMultiplexed`: Synced event, worker type and dedupe key of the others | deduper, worker queues, pipeline |
| Worker queue (`worker_queue.go`) | one deduping queue and one worker per shard | push, pull, process, retry with a timer, give up | pipeline, deduper, connection |
| Deduping queue (`pkg/dedupingqueue`) | linked list, index by dedupe key | push (replace or append), pull | |
| Pipeline (`central/sensor/service/pipeline/all`) | none of its own | `Run` (fragment, then `MarkSuccessful`), `Reconcile` | database, deduper |
| Sensor's deduper (`sensor/common/deduper`) | `lastSent`, the ids Central has told, the unchanged ids | `Send` | Central's deduper state, send buffer |
| Send buffer (`sensor/common/sensor/buffered_stream.go`) | a bounded channel | `Send`, which drops when full | stream |
| Listener (`sensor/kubernetes/listener`) | what the informers have delivered | list, follow, Synced event | Sensor's deduper |

The hard behaviours: a replaced connection overlaps with its successor, which starts its
synchronization in the deduper while the old one still receives; retries re-enter a queue behind
newer events; the two dedupers skip what they believe the other side has; hashes are flushed long
after the objects they stand for; reconciliation deletes objects by the absence of a message; a
full buffer drops messages silently. What makes the path correct: a hash that allows skipping is
the hash of something that was stored, a received hash has a message behind it, older content
never overwrites newer content, a connection that settles has repaired Central's copy but for what
the replaced one accepted too late, and nothing that exists is deleted.

### Components of the upgrade

| Component | State | Operations | Interacts with |
|---|---|---|---|
| Upgrade controller (`central/sensor/service/connection/upgradecontroller`) | most recent and active process, active connection, upgradability, error signal, goroutines; the process in the database | `RegisterConnection`, `Trigger`, `TriggerCertRotation`, check-ins of Sensor and upgrader, `reconcileUpgradeStateRegularly`, `initialize` | Sensor (triggers), upgrader, database |
| State machine (`upgradecontroller/stateutils`) | none: a table of transitions | next state and workflow for a check-in | |
| Sensor's side (`sensor/kubernetes/upgrade`) | current process, pending check-in | triggers, launch, poll of pods, check-ins with retries | Central, Kubernetes |
| Upgrader (`sensor/upgrader`) | runner: workflow, position, last error | ask, run a stage, give up | Central, Kubernetes (the snapshot secret, which its own deployment owns; Sensor's deployment and the annotation on it) |

The hard behaviours: check-ins of processes that have ended, answers that are lost after Central
has changed state, a rollback interrupted by a restart, success read off the version of whichever
Sensor is connected, a process that nobody reports about, a snapshot that goes with the upgrader's
deployment, a plan that skips the objects its own process has annotated. What makes it correct:
every process ends, ends once, and "complete" is true of the cluster.

### Components of the migrations

| Component | State | Operations | Interacts with |
|---|---|---|---|
| Migrator (`migrator`) | the clone it works on, the version it has read | `Scan`, `GetCloneToMigrate`, `upgrade`, the numbered migrations, `Persist` | databases, advisory lock |
| Versions (`migrator/version`, `migrator/runner/version.go`) | one row per database: sequence number and minimum | read, update in or outside of a transaction | |
| Central's start (`central/version/ensure.go`) | none | `Ensure`: refuse a database that is too old | |
| Restore (`central/globaldb/v2backuprestore`) | the restore database | create, load, clean up, restart | migrator, at the next start |
| Background migrations (`central/backgroundmigrations`) | a sequence number in the database | check of the rollout, lock, migrate, write the number, retry | Kubernetes, pods of other versions |

The hard behaviours: a pod that does not get the lock decides by what it read before; the version
is written after the migration, or deleted and inserted without a transaction; a version that
cannot be read is version 0; a rollback leaves data of the newer version; the runner of the
background migrations checks the rollout once, takes any available pod for the new one, and an
older Central may write rows in its format later. What makes it correct: a recorded version is
true, no Central serves on a database that lacks its migrations, rows that need a migration are
ahead of the recorded number, and some Central serves in the end.

### Other components

`PROJECT.json` lists them with the reason why they are not modelled: Sensor's handshake and
offline mode, network flows, cluster entities, detector, compliance and node scanning, concurrency
primitives, caches and limiters, certificate refresh, alert and lifecycle manager, process filter,
reports, declarative configuration, scanner clients, and presentation and generated code. The
process baselines, risk, vulnerability and search code transforms data in the database and has no
protocol of its own.

## 2. Modules

```
SensorSessions  what Central's other parts may assume of connections (abstract)
  ConnectionManager  HandleConnection, CloseConnection,    ConnectionManagerProofs
                     UpdateCluster; implements it
DeduperOps      operations of Central's deduper, as functions of a deduper
  HashDeduper     the deduper among all its callers        HashDeduperProofs
DedupingQueue   push and pull of the deduping queue        EventLemmas (with DeduperOps)
  EventQueues     queues, workers, retries of a connection EventQueuesProofs
  EventSync       the whole path, from the cluster's       EventSyncProofs
                  objects to the database
UpgradeStates   the table of transitions
  ClusterUpgrade  Central, Sensor and upgrader             ClusterUpgradeProofs
StartupMigrations       migrators, restores, rollouts      StartupMigrationsProofs
  BackgroundMigrations  composed with the runners          BackgroundMigrationsProofs
MC*             constants for TLC
```

### SensorSessions, ConnectionManager

`SensorSessions` is the view of a caller of `GetConnection`: a cluster has no session, one that is
syncing, or one that is synced, and after a deleted cluster is cut off it has none again.
`ConnectionManager` has one action per critical section of `HandleConnection`, because several of
its instances run for one cluster: `Arrive` and `StorePreference` (the lookup of the cluster and
of the preference about client reconciliation in `Communicate`), `Admit` or `Reject` (the slot for
the initial synchronization), `LockMap`, `UpdateIdentification` and `Register`
(`replaceConnection`, which holds the mutex of the map and takes the lock of the cluster datastore
twice), `TerminateOld`, `Prelude` and `RunEnds` (`Run`, with the message that is too large),
`GiveBackSlot`, `ClearMap`, `Refuse`. `RemoveCluster` with the four steps of `CloseConnection`,
and `UpdateCluster` with its two steps under the datastore's lock, interfere. `CheckConnReplace`
is translated on the five fields it compares. The refinement mapping reads a session off the map,
the stop signal and the handling of the Synced event (`Session`); a cluster is cut off when
`CloseConnection` has looked for its connection and terminated what it found. `UpdateCluster`
writes what its caller has read earlier: the datastore upserts without a look, so a cluster that
was deleted since is in the database again, before or after it is cut off. `SensorSessions` has
that as `PutBack`; after it sessions may come again.

### DeduperOps, HashDeduper

A deduper is a record of two total functions; a key that is absent from the Go map has the entry
`NoEntry`. The operations are translated one by one; `ShouldProcess` is split into its answer
(`ShouldProcess`) and its effect (`AfterShouldProcess`), because the code does both under one
lock. Note that the limit on persisted hashes is "at most" when they are written
(`GetSuccessfulHashes`) and "below" when they are read (`NewDeduper`); the model keeps both
comparisons.

`HashDeduper` puts the deduper among the goroutines that call it, each holding the lock for one
call. `Receive`, `Retry` are `addMultiplexed`; `Succeed` is the pipeline; `FailTransient`,
`FailUnretryable` are the two error branches of `runWorker`; `Cancel` is `pipelineImpl.Run`
swallowing `context.Canceled`. `NewConnection` (which calls `StartSync`), `StartRunning`,
`TerminateOld`, `RejectNew` are the steps of `HandleConnection` and `replaceConnection`, which run
while the old connection still receives. `ReceiveLate` and `Drained` model that `PullBlocking`
chooses at random between the stop signal and a queue that is not empty. `FlushHashes` and
`Restart` are the hash manager. Messages are handled in any order here, which includes every order
the queues allow. Ghost variables record what was stored (`written`), what was given up, cancelled
or abandoned with its connection since `StartSync` (`lost`), and the keys a SYNC event has come
for (`seen`). `Traffic` is the set of events Sensor may send.

### DedupingQueue, EventQueues

The queue is a sequence; the index by key is the search for the key. `EventQueues` models one
connection: `Event` is the receive loop (or the reprocessor, which injects messages with a dedupe
key of its own), `HandleMessage` is `handleMessage` with `addMultiplexed`, `StartWork` the pull of
a worker, `Succeed`/`FailTransient`/`FailUnretryable` the outcome, `Retry` the timer that injects
the message into the connection's queue again, with the dedupe key it was given before. Each event
carries its number in the order of sending as content and hash, so that "older" and "newer" mean
something.

### EventSync

The whole path, with the queues that matter to it: the cluster (`Create`, `Update`, `Delete`; ids
are never used again, as in Kubernetes), the listener (`List`, `ListDone`), Sensor's deduper
(`SendEvent`) and buffer (`Send`), connections (`Break`, `NewConnection`, `Connect`), Central's
handler (`HandleEvent`, `HandleSynced`), one worker per resource in two steps (`Write`, `Mark`: a
crash or a break can come between the database and the deduper), and the flush and reload of
hashes (`FlushHashes`, `Crash`). An event on the wire stands for the message in Sensor's buffer,
on the stream and in the connection's queue, which are FIFO for first attempts. Failures are final
here; retries are the subject of `EventQueues`.

A reconnection takes three steps. `Break` is all that Sensor sees; in Central the old connection
keeps its queues and workers, and everything it still receives is accepted, handled and stored.
`NewConnection` is `newConnection` with its call of `StartSync`. `Connect` is `replaceConnection`
with the termination of the old connection, whose queues are thrown away, and the start of the new
one. `NewConnection` may also happen while Sensor is connected: a rival, a second deployment with
the same cluster, that `replaceConnection` refuses after its `StartSync`. On `Connect`, Sensor
either receives Central's hashes or falls back to a connection without them, as
`communicationWithCentralWithRetries` does after an error in the exchange.

### UpgradeStates, ClusterUpgrade

`AllTransitions` is the table `allTransitions`, in its order: the first match wins. Stages that
the table treats alike are one stage. `ClusterUpgrade` models the three programs.

* Central: every operation of the controller runs under its mutex in `upgradeController.do` and is
  one action that ends with `Flush`. If the write fails, the controller is in its error state,
  keeps the change in memory, and refuses everything afterwards: `RegisterConnection` resets the
  error signal only inside `do`, which returns before. Only a restart of Central helps, and the
  model says so (`errored`).
* Time is the age of a state, in units of the timeouts it has passed. `Tick` waits for a pending
  reconciliation: the goroutine polls every few seconds, the timeouts are minutes.
* Sensor: `SensorTrigger` is `ProcessMessage`, including that a trigger with the same id is
  ignored and the empty one deletes the deployment; `SensorLaunch`, `SensorPoll`, `SensorCheckIn`
  are the steps of a process, where the pending check-in is replaced by a newer one. Triggers are
  sent asynchronously by `RegisterConnection`, so the set `triggers` has no order.
* Upgrader: `UpgraderCheckIn` includes Central's handler and the answer, which may be lost after
  Central has changed state; `UpgraderRun` runs one stage. The objects of a plan are one, Sensor's
  deployment with its annotation (`annotated`): `Updates` is the planner's rule that a process
  updates an object it has not changed yet, or in a rollback one that it has, and `Update`
  annotates it. So an execution can succeed without deploying anything.
* The secret with the snapshot is owned by the upgrader's deployment. Whoever deletes or replaces
  that deployment (`NoDeployment`, `NewDeployment`: the cleanup, an upgrader that gives up,
  Sensor) loses the snapshot with it; the garbage collector is taken to be immediate. The ghost
  `gone` has the processes that have lost a deployment, `rollback` those that have begun a
  rollback or abandoned it to roll forward.
* Cluster: the deployment of Sensor has the strategy `Recreate` (see `sensor.yaml.htpl` in the
  Helm chart), so the old pod stops before the new one starts (`StopPod`, `StartPod`).

### StartupMigrations, BackgroundMigrations

`StartupMigrations` follows `run` in `migrator/main.go` step by step for each pod, a step being a
statement or transaction at the database: the checks of `Scan`, the three reads of the version,
the attempt to get the lock, each migration and the transaction with its version, the `DELETE` and
`INSERT` of `UpdateToCurrentVersion`, the renames of `Persist`, and Central's `Ensure`.
`ReadVersion` may fail and then reads version 0, as the code does. A database is its version row,
the set of migrations that have run on it, and what its rows are (none, Central's, those of a
restored backup). With the strategy `RollingUpdate` two pods meet at an external database and
there are no restores; with `Recreate` there is one pod at a time and the internal database with
its clones. `Crash` ends a process anywhere; its container starts again. Kubernetes is external:
`Rollout`, `StartPod`, `StopPod`.

`BackgroundMigrations` composes it with the runners: a step of a pod is a step of
`StartupMigrations` together with `RunnersFollow` (a runner starts with its Central and ends with
it), and the runners have their own steps. `WriteRows` is any datastore of a Central that stores a
row in the format of its version. `IsRolloutDone` compares the numbers that `rollout.go` compares:
one pod updated, one available, none terminating. A pod is available (`BecomeAvailable`) when it
has been ready for `minReadySeconds`, and the runner does not wait for that; so the old pod counts
until the new one is available, and is terminating after that. Outside of a cluster (`InCluster =
FALSE`) there is nothing to check. `hasty` records the two ways in which rows may be passed over.
With the strategy `Recreate` the runners are left out: there is one pod at a time, and no Central
of another version writes next to it.

## 3. Runs

Passing runs:

| Run | Instance | Shows |
|---|---|---|
| `connection_manager` | one slot for two clusters; one has a Sensor that reconnects, a second deployment, and is updated, deleted, or put back by a late update | the manager implements `SensorSessions`; `OnlyOneServes`, `MapIsLive`, `SyncsBounded`, `NothingLeaks`, and every cluster is synced in the end (`EventuallySynced`) |
| `hash_deduper` | a deployment and its alert, two hashes, two attempts, at most two persisted hashes | `HashWasWritten`, `ReceivedIsBacked`, `SyncKeepsSeen` across connections, replaced connections and restarts: one persisted hash is restored and goes stale under the second content, two reach the limit and are discarded; the alert's entries follow the deployment's |
| `event_queues` | a deployment, its alerts and reprocessing, a node and its inventory in one shard; three events, two attempts | `StoredNeverOlder`, `OneFailureHeals`, `SameResourceSerial`, and that the retries end (`RetriesEnd`) |
| `event_sync_breaks` | two objects, two contents, two changes, three breaks or crashes, old connections that go on, refused rivals, failures, a buffer for one message | `ResyncHeals`, `ReconcileSparesExisting`, and `Converges`; the next undisturbed connection also repairs what the buffer has dropped and what an old connection had accepted too late |
| `event_sync_stragglers` | workers that outlive their connection, contents that return | existence heals (`ExistenceHeals`); content need not, see the findings |
| `cluster_upgrade_processes` | two processes, one failing stage, fairness | every process ends (`UpgradesEnd`, with one named exception), ends once (`TerminalIsFinal`), is watched, and "complete" means deployed |
| `cluster_upgrade_faults` | one process, any two of ten faults | the safety properties under restarts of all parties, lost answers, a failing database |
| `migrations` | two pods, three versions, two rollouts or rollbacks, one fault, one restore | `VersionMeansMigrated`, `ServingMeansMigrated`, `OldRowsAreAhead`; the wanted version serves in the end (`EventuallyServes`) and its background migrations get to every row (`EventuallyMigrated`) |

Runs that show a disagreement between a comment in the code and the code:

| Run | What TLC finds |
|---|---|
| `event_queues_inventory` | Queued inventories of two nodes share the dedupe key `NodeInventory:`; one replaces the other, although the comment says they are never deduped. |
| `event_sync_revert` | Content A is flushed, B is stored, Central crashes before the next flush. If the object returns to A, both sides skip it, and Central keeps B. |
| `cluster_upgrade_rollback` | After five minutes in `ROLLING_BACK`, a report of healthy pods moves the process to `LAUNCHING`; an upgrader that restarts then is told to roll forward. |
| `migrations_fresh` | Central ends between `createdb` of the restore database and the commit of its load. The next migrator finds an empty database to restore, accepts its version 0, sets it up as a fresh install and renames it to the active database; the populated one becomes the backup. |

Observations that are not runs of their own:

* `UpdateCluster` holds the lock of the cluster datastore and calls `GetConnection`, which needs
  the mutex of the connection map; `replaceConnection` holds that mutex and calls
  `UpdateSensorDeploymentIdentification`, which needs the datastore's lock. `LockCycle` names the
  states where both wait; `EventuallySynced` excepts them, and does not hold without that.
* A slot for the initial synchronization is kept per cluster. A connection that is refused or ends
  gives back the slot of its successor, so more Sensors may synchronize at once than
  `rate_limit.go` says; `SyncsBounded` counts without the connections robbed like that.
* A stream that is on its way when its cluster is deleted gets a new deduper for it after
  `CloseConnection` has deleted the old one.
* A new connection calls `StartSync`, which makes the received hashes dirty, before the old one
  stops. What the old one accepts in between is clean, may be thrown away with its queues, and the
  same content is skipped on the new connection, which settles without it: the object is missing
  or outdated until a connection after it. `ReceivedIsBacked` has the case as `lost`; the healing
  properties of `EventSync` except it as `Accepted`. The old connection also marks objects as
  seen, so that `ProcessSync` of the new one keeps the hash of an object that reconciliation has
  just deleted; Sensor then takes it for unchanged (`misled`).
* `UpdateCluster` upserts. A request to change a cluster, or a stream that has read the cluster
  before it was deleted, puts it into the database again, and its sessions go on or come back
  while `CloseConnection` deletes the deduper. TLC reaches a running connection in the map without
  a deduper in this way; `MapIsLive` excepts it (`closing[cl] = "done"`).
* Objects that Sensor reports as unchanged come without an event, so `ProcessSync` forgets their
  hashes although they were listed; the connection after next sends them again. `SyncKeepsSeen`
  speaks only of objects for which a SYNC event has come.
* A process whose upgrader has cleaned up after its rollback is still active until Central sees
  the old Sensor. A Sensor that restarts meanwhile gets its trigger without an image
  (`trigger.go:46`: "indicate to sensor that it should not launch another upgrader"), launches one
  with its own image (`deployment.go:47`), and this upgrader is told to roll back without a
  snapshot. `RollbackHasSnapshot` excepts processes that have lost a deployment (`gone`).
* A process that is told to roll forward after its rollback (the finding of
  `cluster_upgrade_rollback`) has nothing to do: its rollback has annotated every object. The
  execution succeeds, the old Sensor stays, and its reports of healthy pods, whenever the process
  is stuck, and the upgrader's next success renew the timeout for ever. `CompleteMeansDeployed`
  and `UpgradesEnd` except the process (`"abandoned"`).
* The check of the rollout passes in the new pod as soon as it runs: it is the updated pod, the
  old one is the available pod, and nothing is terminating before the new pod has been ready for
  `minReadySeconds` (15 in `01-central-13-deployment.yaml.htpl`). The runner then migrates next to
  a Central of the version before, although `BACKGROUND_MIGRATIONS.md:54` says that the rollout
  checker ensures that old pods "are fully terminated before migrations begin". Rows that the old
  Central writes after that are below the stored number and are not visited; `OldRowsAreAhead`
  excepts it (`hasty`) and shows that the check closes every other way.
* Each rollback overwrites the minimum version in the database by the one of the older binary, and
  an interrupted migration removes it, so two rollbacks in a row are not refused.
* A dropped SYNC message makes Central delete an object that exists. The next connection repairs
  that, unless Central crashes before and restores the hash of the object, which Sensor then takes
  for unchanged: it stays missing until it changes (`misled`, too). A dropped message with a
  straggler breaks `ExistenceHeals`; the runs keep these two apart.

### Bounds

Every bound is a constant. `MaxPending`, `MaxEvents`, `MaxChanges`, `MaxBreaks`, `MaxProcs`,
`MaxFaults`, `MaxRollouts`, `MaxRestores`, in `HashDeduper` `Traffic`, and in `ConnectionManager`
`Disturbed` and `Scenarios` bound the behaviours; the others (`MaxAttempts`, `BufferSize`,
`MaxHashes`, `MaxSensors`) are limits of the code with small values.

* Two attempts let a retry meet a newer event; with one shard every pair of resources shares a
  worker if the code lets it. Three events are an original, what overtakes it, and what comes
  after both. The deduper treats keys independently except for an alert and its deployment, hence
  those two; the theorems cover any keys and hashes.
* In `HashDeduper` two contents of each key let a restored hash go stale. With `MaxHashes` = 2,
  one hash is restored ("below") and two are written ("at most") and discarded. One message at a
  time is in hand or waiting; an older one that overtakes a newer one is the subject of
  `EventQueues`.
* In `event_sync_breaks` three breaks are needed for what an old connection leaves behind to be
  met by one connection and repaired by the next; two changes, and two objects because they
  interact through the buffer. `event_sync_stragglers` has one object with three changes, which
  may return to its first content, and two breaks.
* Two connections of one cluster are an old one and its successor, and the object of one that has
  returned is used again, so that any number of them follow each other. One slot and two clusters
  let a cluster wait for another. Breaking a stream, deleting and updating happen once each, an update
  together with one of the others (`Scenarios`): a deletion with an update is the cluster that is
  put back.
* Two pods are the most a rollout of one replica starts. Three versions and two rollouts give an
  upgrade that is rolled back, a rollback that is undone, and an upgrade over two versions.
* Two versions give upgrade, downgrade and up-to-date. Two processes are enough for a late message
  of one to meet the next. Two faults reach what the comments of the code worry about: a failed
  stage with a restart, a lost answer with a restart. One failed stage with the passing of time is
  enough for the rollback that is abandoned.
* Deadlock is not checked in the bounded models, where behaviour ends with the bound.
  `HashDeduper` has no such bound on its steps, and its runs do check it.

### Fairness

* `ConnectionManager`: the goroutines of `HandleConnection`, `CloseConnection` and `UpdateCluster`
  run; the keepalive of the stream tells Central of a dead one; Sensor syncs. Strong fairness is
  assumed of arriving and being admitted while there is room: a Sensor that is refused comes again
  after an exponential backoff with random delays (`sensor.go`, around line 486), so it is not for
  ever too late for the slot that others take and give back.
* `BackgroundMigrations`: Kubernetes starts and stops the pods the deployment asks for and starts
  a container that has ended again, a Central that serves becomes available, a rolling update
  keeps one pod available, a restore ends, migrators and runners make progress.
* `EventQueues`: the handler, every worker and the retry timers are goroutines that run for the
  life of the connection.
* `EventSync`: Sensor without a connection reconnects for ever
  (`communicationWithCentralWithRetries`; nothing is assumed of rivals, whose `NewConnection` is
  fair only while Sensor is not connected), its informers list every object, Central's handler and
  workers keep running. Nothing is assumed about flushing hashes.
* `ClusterUpgrade`: time passes, the reconciling goroutine polls, the cluster stops a pod that the
  deployment no longer wants, a running Sensor connects. Nothing is assumed of the upgrader,
  Sensor's check-ins, or the start of the new Sensor. Stopping the old pod is needed: an old
  Sensor that stays would keep reporting healthy pods, each report putting a process that has been
  in `OPERATIONS_DONE` for long back into `LAUNCHING` with a fresh timeout, and the process would
  not end.

### What the properties except

`OneFailureHeals` excepts resources with several failures: retries of a deployment and its alerts
share a dedupe key in the connection's queue and may push each other out. `ResyncHeals`,
`ExistenceHeals` and `Converges` except objects that had a failure, a dropped message or a
straggler in the *current* connection, and what the connection it has replaced accepted after its
`StartSync` (`Accepted`): nothing repairs these before the next one; and objects that are missing
although their hash is known, after a drop and a crash or a late mark of the replaced connection
(`misled`). `UpgradesEnd` excepts the error state of the controller and, like
`CompleteMeansDeployed`, a process that has abandoned its rollback to roll forward;
`RollbackHasSnapshot` a process that has lost a deployment of its upgrader. `MapIsLive` excepts
the deduper of a cluster that was put back during `CloseConnection`. `SyncsBounded` excepts robbed
connections and `EventuallySynced` the cycle of locks, as said above. `VersionMeansMigrated` and
`ServingMeansMigrated` except rows that were taken for a fresh install (`assumedFresh`).
`OldRowsAreAhead` and `EventuallyMigrated` except a runner that has passed the check while no pod
of the wanted version was available, or without a cluster to ask; and a rollback that is undone
before the older version's runner has lowered the number, or while a runner of the newer version
still works (both `hasty`): rows written by the older version are then below the number, and no
migration visits them. The eventual properties of the migrations except a database that the wanted
version refuses for good (`Refused`).

## 4. Proofs

TLC checks the instances above. The following hold for every value of the constants, under the
named assumptions of the modules: `NoHash` is no hash, alert keys belong to deployments, bounds
are natural numbers, versions are, `Faults` names faults of the model; in `EventQueues` a key is
its kind and id, hashes are the numbers of the events, the kinds of `SkipKeys` are those that
`skipDedupe` lists, and no object has one of the words the code puts into dedupe keys as its id.
`MaxEvents`, `MaxChanges`, `MaxBreaks`, `MaxProcs`, `MaxFaults` and the like may be any number, so
that the bounds which TLC needs restrict nothing here. Where a theorem assumes more, it says so in
an `ASSUME` of its own.

**ConnectionManagerProofs**

* `TypeCorrect`, `MapLeadsToLive`, `OneServes`, `SyncsStayBounded`, `SlotsDoNotLeak`: `Spec`
  implies `[]TypeOK`, `[]MapIsLive`, `[]OnlyOneServes`, `[]SyncsBounded`, `[]NothingLeaks`, for
  any clusters, any number of connections of each, and any limit.
* `Implementation`: `Spec => ImplementsSessions`: under the mapping `Session`, every step of the
  manager is a step of `SensorSessions` or a stutter.

The inductive invariant `IInv` says that the mutex is held from `LockMap` to `Register` and
protects what `LockMap` has seen (`MutexOK`), that the map leads to registered connections
(`MapOK`), that a registered connection which is not in the map is stopped or about to be, by the
one that replaced it (`ServesOK`), which dedupers exist (`DedupersOK`), that Synced is handled by
a `Run` that has started (`ReconciledOK`), what a deletion has already found (`ClosingOK`), and
who has a slot (`SlotsCounted`, `SlotsOwned`, `NothingLeaks`). The deduper is there until the end
of `CloseConnection`, also for a cluster that was put back (`DedupersOK`). `ServesOK` is the
point: between `Register` and `TerminateOld` two connections of a cluster have not been stopped,
and what keeps them apart is the successor's pending call. `ClosingOK` is what the refinement
needs: after the lookup of `CloseConnection` no session of a deleted cluster may come back, as
long as the cluster is not in the database; when it is put back, the step is `PutBack` of the
abstract specification.

**HashDeduperProofs**

* `TypeCorrect`: `Spec => []TypeOK`. One lemma per operation of the deduper says that it maps
  dedupers to dedupers; the step cases follow.
* `HashesAreSound`: `Spec => []HashWasWritten`. The invariant is inductive with the type
  invariant. The argument: `MarkSuccessful` is the only operation that adds a successful hash, and
  it comes with the write; every other operation keeps or drops each entry (`KeepsOrDrops`), the
  flush copies entries, and the reload copies them back.
* `ReceivedHashesAreBacked`: `Spec => []ReceivedIsBacked`. This needs a strengthening. Retried
  messages have a positive attempt number (`RetriesWereTried`), so that `ShouldProcess` treats
  them as retries; keys that are never deduped have no received entry (`SkippedHaveNone`), so that
  accepting one of their messages cannot leave one. Then each action either keeps the message
  behind a clean entry, records it as given up or abandoned, or removes the entry.

* `SyncForgetsNothingSeen`: `Spec => SyncKeepsSeen`. The invariant says that the stored hash of an
  object whose SYNC event has come since `StartSync` is marked as processed (`SeenIsMarked`), and
  that kinds which are never deduped have no stored hash in memory or in the database
  (`SkippedNotStored`): a SYNC event of such a kind marks nothing, so a hash of one would be
  forgotten although its event has come.

**ClusterUpgradeProofs**

* `ActiveProcessIsWatched`: `Spec => []ActiveIsWatched`, for any versions, number of processes and
  set of faults.
* `TerminalStaysTerminal`: `Spec => TerminalIsFinal`.

Both rest on `ProcessInv`: the active process is the most recent one, is watched and not in a
terminal state; memory and database agree unless a write has failed; ids are below `nextId`. The
agreement of memory and database is what makes `TerminalIsFinal` true: only an active process
changes state, and what is persisted is then the same process. The proof first shows that every
action of `Next` is, for the controller, one of six kinds of step (`StepsOfNext`), and then treats
each kind.

* `TypeCorrect`: `Spec => []TypeOK`, from `TypeInv`, which adds that the upgrader runs a stage
  only if one of its workflow is left, and that a process lacks the time of its last change only
  while it initializes: in every other state the timeout reads that time.
* `RollbackFindsSnapshot`: `Spec => []RollbackHasSnapshot`, for all faults, a failing database
  included. `SnapshotInv`: a prepared upgrader has stored the snapshot of its process
  (`SnapshotOK`), and a process, in memory or in the database, that is rolling back has its
  snapshot in the cluster unless it has lost a deployment that owned one (`gone`), with no
  upgrader of another process at work (`RollbackOK`). The database needs its own conjunct: it is
  what a restarted Central goes on with.
* `CompleteIsDeployed`: `Spec => []CompleteMeansDeployed`, assuming that the fault `"db"` is not
  among `Faults`. `DeployedInv`: the bundle an upgrader has prepared is not older than the target
  of its process (`BundleOK`); a process that rolls back has begun to, and its upgrader rolls
  forward again only if the process has abandoned that (`BegunOK`); as long as neither has
  happened, Sensor's deployment with the annotation of the process has the target, and so has the
  one an upgrader is done with (`AnnotatedOK`); and then no upgrader changes the deployment any
  more (`DoneOK`). `AnnotatedOK` is what an execution that skips the object needs: it was this
  process that deployed the target.

The assumption of `CompleteIsDeployed` is needed. `upgradeController.do` answers a check-in
although the write to the database failed, so the upgrader acts on a state that a restart of
Central forgets. Five failed writes, each followed by a restart, with two more faults, complete an
upgrade in the database while its upgrader rolls back. `cluster_upgrade_faults` checks the
property with any two faults, failed writes included.

**EventLemmas** states once what the operations of the deduping queue and of the deduper do: where
`Push` puts an item and that it keeps keys unique, what a pull leaves, which entries
`AfterShouldProcess`, `MarkSuccessful` and `RemoveMessage` change.

**EventQueuesProofs**

* `TypeCorrect`, `SerialPerResource`, `StoredGrows`, `OneFailureIsHealed`: `Spec` implies
  `[]TypeOK`, `[]SameResourceSerial`, `StoredNeverOlder` and `[]OneFailureHeals`, for any keys and
  shards, any number of events and attempts, and both kinds of failure.

The first two rest on `TInv`: messages are with the worker of their resource (`Placed`), carry the
dedupe key that `addMultiplexed` has given them (`Tagged`), and no queue holds a key twice
(`QueuesUnique`). For `StoredNeverOlder` every deduped key has `KeyInv`: among its events in hand
and in the worker queues the newer ones are behind (`Ordered`), none is older than what is stored
or newer than the received hash (`Ahead`), what the handler has not seen is newer still (`Fresh`),
REMOVE is the last event and CREATE the first (`Bounds`), a successful hash is that of no event on
its way (`Marked`), and an event is in one place (`Apart`). A retry breaks the order of the
connection's queue; it is harmless because `ShouldProcess` drops it when the received hash is a
newer one, and `Ahead` says that the received hash is that of the newest event the workers have
had. `HealInv` adds that while an id has failed once only one event of it is retried (`OneRetry`),
whose hash is still the received one (`Held`), so the newest event is stored, on its way, or lost
for a reason (`Reached`).

**EventSyncProofs**

* `TypeCorrect`: `Spec => []TypeOK`.
* `SparesExisting`: `Spec => ReconcileSparesExisting`, for all faults.
* `ExistenceIsHealed`: `Spec => []ExistenceHeals`, assuming that if messages are dropped there are
  no stragglers.
* `ContentIsHealed`: `Spec => []ResyncHeals`, assuming that there are no stragglers and no
  contents that return.

The invariants are about one object, and `Steps` says that each step concerns it or leaves alone
what they speak of (`Apart`); the operations that treat all objects at once (connecting, breaking,
crashing, Synced, flushing) concern every object. They hold for a connection that goes on in
Central after Sensor has lost it (`Live`), too. `Base` has the plain facts: everything known
anywhere is a content the object has had, nobody is told to remove an object that exists, events
are of objects the listener has delivered, and `lastSent` is the truth for those. `Spared` is the
reason why reconciliation is safe: until it runs, a delivered object is in its map, reported as
unchanged, or on the wire *ahead of the Synced event*, or it was created just now and there is
nothing to delete. `Order` says that the events of an object stay in the order of its changes
through the wire and the deduping queue of its worker (a replaced item takes the place of an older
one). `Healing` follows a content to the database: what the listener has delivered is coming or
stored (`Heals`), and the three places that let somebody skip it are justified: a clean received
hash has an event behind it, unless it was accepted before (`Received`), a successful or persisted
hash is that of the stored content or of a `misled` object (`Hashed`), and what Sensor takes for
unchanged is stored (`Knows`). Existence and content have the same proof: `Same` compares contents
in the second case and only whether there is one in the first.

The assumptions are where the properties end. A content that returns after a crash need not heal
(the finding of `event_sync_revert`), nor one that a straggler overwrites with an older one. A
dropped SYNC message makes reconciliation delete an object that exists, in most cases together
with its hash, so that the next connection sends it again; the others are `misled`. A straggler
can mark the hash once more after that, so that Sensor takes a missing object for unchanged: TLC
finds this as soon as the assumption is dropped. (Alerts are not listed from Kubernetes; the runs
of `EventSync` have none.)

**StartupMigrationsProofs**

* `TypeCorrect`, `VersionsAreTrue`, `ServingIsSafe`: `Spec` implies `[]TypeOK`,
  `[]VersionMeansMigrated` and `[]ServingMeansMigrated`, for any pods, versions, faults, rollouts
  and restores.

The inductive invariant `IInv` adds which database a pod works on (`CloneOK`), what it may
conclude from the version it has read (`ProgressOK`: the migrations below `ver` have run on its
clone; those below its own version, once it is about to record or to serve it), that `Recreate`
means one pod (`OnePod`), and that only databases which exist have rows (`DatabasesOK`). It is
needed because the two properties speak of recorded versions, and a migrator records what it
concluded several steps before. The argument does not use the lock: all pods of one database only
add to the migrations that have run (`Grows`), so what another pod has concluded stays true
(`GrowthKeeps`); only restores and renames replace a database, and then there is no other pod.

**BackgroundMigrationsProofs**

* `BgTypeCorrect`, `OldRowsStayAhead`: `AllSpec` implies `[]BgTypeOK` and `[]OldRowsAreAhead`.
* `ServingStaysSafe`: the properties of the startup migrations hold in the composition.

`AllInv` adds where the runners are (`RunnersOK`: in a Central that serves, one with the lock, at
the migration the database names) and `RowsAhead`: not only the rows, also the pods that may still
write rows are ahead of the stored number and of the target of every runner that has started, and
a row that appears between a migration and the number that records it is one of a version that is
not wanted. The third part is what the check of the rollout establishes when a wanted pod is
available (`CheckRolloutStep`): every other pod is then terminating. It is what a rollout, upwards
or downwards, must not destroy (`FollowRows`). Steps of the pods reuse `NextIInv`, and what a
runner needs to know of them is `PodsMove`.

Only model-checked: the liveness properties (`RetriesEnd`, `Converges`, `UpgradesEnd`,
`EventuallySynced`, `EventuallyServes`, `EventuallyMigrated`), which the prover does not reach,
and `CompleteMeansDeployed` with failed writes, which holds only for few of them. Every other
property of a passing run is a theorem; `ExistenceHeals` and `ResyncHeals` are claimed under the
assumptions above only, by the runs and by the theorems alike.

## 5. What is not modelled

* The contents of messages: an object is its hash, versions are numbers. Sensor versions that
  cannot be compared, clusters managed by Helm or the operator (where upgrades are rejected), and
  the image a trigger names are left out.
* Messages that are not events; the broadcast to all connections and the health checks of the
  manager, which read the map and change nothing in it; the rate limiter of a connection's events.
* `ROX_SKIP_MIGRATIONS` and the safe mode of the migrator, a lock whose database connection is
  lost while its process goes on, the override of the background sequence number and skipped
  background migrations, the resumable upload of a backup. What a migration does to the tables is
  a member of a set, and migrations are idempotent, as `migrator/README.md` asks.
* The stages between Sensor's listener and its deduper (resolver, detector), which are modelled as
  delivery in order.
* The handshake of a connection, in particular the chunks in which the deduper state is sent: its
  result is in `EventSync`'s `Connect`.
* The objects of an upgrader's plan other than Sensor's deployment, a plan that fails half-way
  through its objects, and the time the garbage collector takes for the snapshot.
* In `EventSync`, a terminated connection that takes another message from its queues before it
  notices (`PullBlocking` chooses at random; `HashDeduper` has this as `ReceiveLate`), and one
  that is still in the middle of a Synced event when it is replaced.
* The background migrations of a Central with the strategy `Recreate` (see section 2), also of the
  rows of a restored backup.

## 6. Plan

Next, in this order:

1. Proofs: that `EventSync` implements an abstract copy of the cluster in Central's database which
   each undisturbed connection repairs, and that `HashDeduper`'s arbitrary order of handling
   covers what the queues of `EventQueues` do (a refinement with the queues hidden).
2. `SensorComm`: handshake, deduper state in chunks, fallback, the state machine of offline mode;
   composed with `EventSync` so that `Connect` is refined.
3. `UnconfirmedMessages`: compliance's message handler with acknowledgements, retries and its
   growing interval.
4. `NetworkFlows`: enrichment of connections, the update computers, and what is lost offline.
5. `CertRefresh`: retries around two secrets.
6. Data structures as operators with a reference definition: process filter, size-bounded cache,
   rate limiter.
