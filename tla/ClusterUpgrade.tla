---------------------------- MODULE ClusterUpgrade ----------------------------
(***************************************************************************)
(* The automatic upgrade of a secured cluster: Central's upgrade controller  *)
(* with its persisted process and its reconciling goroutine, Sensor's side   *)
(* of the process (launching the upgrader, polling its pods, checking in),   *)
(* and the upgrader, which asks Central for the workflow to run next.        *)
(*                                                                          *)
(* Versions are numbers.  Time is the age of the process's state, measured   *)
(* by the timeouts it has passed (see Ages).  Every step of the controller   *)
(* runs under its mutex (upgradeController.do) and is one action; an action  *)
(* of Sensor or the upgrader that checks in includes Central's handler.      *)
(***************************************************************************)
EXTENDS UpgradeStates

CONSTANTS
    Versions,      \* the versions of Central and Sensor
    MaxProcs,      \* bound on the upgrade processes
    MaxFaults,     \* bound on the faults of a behaviour
    Faults         \* what may go wrong, a subset of AllFaults

AllFaults ==
    {"break",        \* the connection of Sensor breaks
     "sensor",       \* Sensor restarts
     "upgrader",     \* the upgrader's pod restarts
     "giveup",       \* the upgrader does not reach Central for too long
     "stage",        \* a stage of the upgrader fails
     "lost",         \* the answer to a check-in is lost
     "launch",       \* the upgrader's deployment cannot be created
     "pod",          \* the upgrader's pod cannot start
     "db",           \* the process cannot be persisted
     "central"}      \* Central restarts, perhaps with a newer version

ASSUME UpgradeAssumption ==
    /\ Versions \subseteq Nat \ {0}
    /\ MaxProcs \in Nat /\ MaxFaults \in Nat /\ Faults \subseteq AllFaults

\* Ages of a state: rollback success period, start grace period, stuck timeout and
\* absolute timeout have passed.  NoTime is a timestamp that was never set.
Ages == 0..4
RollbackSuccess == 1
GracePeriod == 2
Stuck == 3
NoProgress == 4
NoTime == -1

VARIABLES
    main,           \* Central: its version
    upgradability,  \* Central: what Sensor's last connection told
    proc,           \* Central: the most recent process
    active,         \* Central: there is an active process
    conn,           \* Central: the active connection, NoConn or [version, live]
    errored,        \* Central: the controller is in its error state
    watchers,       \* Central: the processes with a reconciling goroutine
    saved,          \* database: the most recent process
    triggers,       \* triggers on their way to Sensor
    link,           \* Sensor: it is connected
    running,        \* Sensor: the version of the running pod, 0 if none
    sproc,          \* Sensor: the current process, its step and the pending check-in
    deployed,       \* cluster: the version of Sensor's deployment
    annotated,      \* cluster: the process that has last changed it, by its annotation
    deployment,     \* cluster: the process of the upgrader's deployment, 0 if none
    snapshot,       \* cluster: the upgrader's stored snapshot [id, version]
    upg,            \* upgrader: NoUpgrader or the state of its pod
    nextId, faults, \* the number of processes and of faults so far
    rollback,       \* ghost: of each process, "no", "begun", or "abandoned" for rolling forward
    gone            \* ghost: the processes whose upgrader's deployment was deleted

controllerVars == <<upgradability, proc, active, errored, watchers, saved, nextId, rollback>>
centralVars == <<main, controllerVars, conn>>
sensorVars == <<link, running, sproc>>
sensorDeployment == <<deployed, annotated>>
upgraderDeployment == <<deployment, snapshot, upg, gone>>
clusterVars == <<sensorDeployment, upgraderDeployment>>
vars == <<centralVars, triggers, sensorVars, clusterVars, faults>>

NoProc == [id |-> 0, type |-> "UPGRADE", state |-> "INITIALIZING", active |-> FALSE,
           target |-> 0, since |-> NoTime, initiated |-> 0]
NoConn == [version |-> 0, live |-> FALSE]
NoSproc == [id |-> 0, type |-> "UPGRADE", step |-> "none", checkIn |-> "none"]
NewUpgrader(p, type) == [id |-> p, type |-> type, workflow |-> "none", ran |-> 0, err |-> FALSE,
                         bundle |-> 0, step |-> "ask"]
NoUpgrader == [NewUpgrader(0, "UPGRADE") EXCEPT !.step = "none"]
NoSnapshot == [id |-> 0, version |-> 0]

Init ==
    /\ main \in Versions /\ upgradability = "UNSET"
    /\ proc = NoProc /\ active = FALSE
    /\ conn = NoConn /\ errored = FALSE /\ watchers = {} /\ saved = NoProc
    /\ triggers = {} /\ link = FALSE /\ running \in Versions /\ sproc = NoSproc
    /\ deployed = running /\ annotated = 0
    /\ deployment = 0 /\ snapshot = NoSnapshot /\ upg = NoUpgrader
    /\ nextId = 1 /\ faults = 0
    /\ rollback = [p \in 1..MaxProcs |-> "no"] /\ gone = {}

Fault(f) == f \in Faults /\ faults < MaxFaults /\ faults' = faults + 1
NoFault == UNCHANGED faults

-----------------------------------------------------------------------------
\* upgradeController.do: the changed process is flushed; if that fails, the controller
\* stays in its error state, with the change in memory only.
Flush ==
    \/ NoFault /\ saved' = proc' /\ UNCHANGED errored
    \/ Fault("db") /\ errored' = TRUE /\ UNCHANGED saved

\* Mutant: the time of the first change of state is not recorded.
InStateNoSince(p, s) ==
    [p EXCEPT !.state = s,
              !.since = IF p.state # s /\ @ # NoTime THEN 0 ELSE @,
              !.active = @ /\ s \notin TerminalStates]

\* setUpgradeProgress for the process p.
InState(p, s) ==
    [p EXCEPT !.state = s,
              !.since = IF p.state # s \/ @ = NoTime THEN 0 ELSE @,
              !.active = @ /\ s \notin TerminalStates]

SetUpgradeProgress(s) ==
    /\ proc' = InState(proc, s)
    /\ active' = (s \notin TerminalStates)
    /\ rollback' = [rollback EXCEPT ![proc.id] =
                       IF @ = "no" /\ s = "ROLLING_BACK" THEN "begun"
                       ELSE IF @ = "begun" /\ s = "LAUNCHED" THEN "abandoned" ELSE @]
    /\ UNCHANGED <<upgradability, watchers, nextId>>

\* Mutant: the reconciling goroutine is started for upgrades only.
MakeProcessUnwatched(type) ==
    /\ nextId <= MaxProcs
    /\ proc' = [NoProc EXCEPT !.id = nextId, !.type = type, !.active = TRUE,
                              !.target = IF type = "UPGRADE" THEN main ELSE 0]
    /\ active' = TRUE
    /\ watchers' = IF type = "UPGRADE" THEN watchers \cup {nextId} ELSE watchers
    /\ nextId' = nextId + 1
    /\ UNCHANGED rollback

\* newUpgradeProcess, newCertRotationProcess and makeProcessActive.
MakeProcessActive(type) ==
    /\ nextId <= MaxProcs
    /\ proc' = [NoProc EXCEPT !.id = nextId, !.type = type, !.active = TRUE,
                              !.target = IF type = "UPGRADE" THEN main ELSE 0]
    /\ active' = TRUE
    /\ watchers' = watchers \cup {nextId}
    /\ nextId' = nextId + 1
    /\ UNCHANGED rollback

NoProcessChange == UNCHANGED <<proc, active, watchers, nextId, rollback>>

\* determineUpgradabilityFromVersionInfoAndConn
UpgradabilityOf(v) ==
    IF v = main THEN "UP_TO_DATE"
    ELSE IF v > main THEN "SENSOR_VERSION_HIGHER" ELSE "AUTO_UPGRADE_POSSIBLE"

\* shouldAutoTriggerUpgrade, if the setting is enabled.
AutoTriggers(v) ==
    /\ ~ active /\ UpgradabilityOf(v) = "AUTO_UPGRADE_POSSIBLE" /\ proc.target # main

\* The trigger Sensor gets: of the active process, or the empty one.
TriggerOf(a, p) == IF a THEN [id |-> p.id, type |-> p.type] ELSE [id |-> 0, type |-> "UPGRADE"]

\* Sensor connects: RegisterConnection, which may trigger an upgrade, and sends the
\* trigger asynchronously.  A controller in its error state takes no notice.
Connect ==
    /\ running # 0 /\ ~ link /\ link' = TRUE
    /\ \/ /\ ~ errored
          /\ upgradability' = UpgradabilityOf(running)
          /\ \/ AutoTriggers(running) /\ MakeProcessActive("UPGRADE")
             \/ NoProcessChange
          /\ Flush
          /\ conn' = [version |-> running, live |-> TRUE]
          /\ triggers' = {TriggerOf(active', proc')}
       \/ /\ errored /\ NoFault
          /\ UNCHANGED <<controllerVars, conn, triggers>>
    /\ UNCHANGED <<main, running, sproc, clusterVars>>

\* The stream ends; Central learns about it in WatchConnection.
Disconnected ==
    /\ link' = FALSE /\ triggers' = {}
    /\ conn' = [conn EXCEPT !.live = FALSE]

Disconnect ==
    /\ link /\ Fault("break") /\ Disconnected
    /\ UNCHANGED <<main, controllerVars, running, sproc, clusterVars>>

WatchConnection ==
    /\ ~ errored /\ conn # NoConn /\ ~ conn.live
    /\ conn' = NoConn
    /\ UNCHANGED <<main, controllerVars, triggers, sensorVars, clusterVars, faults>>

\* The manager stops the connection of a controller that enters its error state.
StopConnection ==
    /\ errored /\ link /\ conn.live /\ Disconnected
    /\ UNCHANGED <<main, controllerVars, running, sproc, clusterVars, faults>>

\* Trigger and TriggerCertRotation, on request of a user.
Trigger(type) ==
    /\ ~ errored /\ conn # NoConn /\ ~ active
    /\ \/ type = "UPGRADE"
          /\ upgradability \in {"AUTO_UPGRADE_POSSIBLE", "SENSOR_VERSION_HIGHER"}
       \/ type = "CERT_ROTATION" /\ upgradability = "UP_TO_DATE"
    /\ MakeProcessActive(type) /\ Flush
    /\ triggers' = IF conn.live THEN triggers \cup {TriggerOf(active', proc')}
                                ELSE triggers
    /\ UNCHANGED <<main, upgradability, conn, sensorVars, clusterVars>>

-----------------------------------------------------------------------------
\* Mutant: any state of the process will do when the new Sensor is connected.
SucceededInAnyState ==
    proc.type = "UPGRADE" /\ conn # NoConn /\ conn.version >= proc.target

\* maybeReconcileStateWithActiveConnInfo: an up-to-date Sensor is connected when the
\* operations are done, or a rolled back one for long enough while rolling back.
UpgradeSucceeded ==
    /\ proc.type = "UPGRADE" /\ conn # NoConn
    /\ proc.state = "OPERATIONS_DONE" /\ conn.version >= proc.target

RollbackSucceeded ==
    /\ proc.type = "UPGRADE" /\ conn # NoConn
    /\ proc.state = "ROLLING_BACK" /\ conn.version < proc.target
    /\ proc.since >= RollbackSuccess

\* Mutant: the age of the state is used even if the process is initializing.
TimedOutBySince == proc.since = NoProgress

\* maybeTimeoutUpgrade
TimedOut ==
    NoProgress = IF proc.state = "INITIALIZING" THEN proc.initiated ELSE proc.since

\* The state that the reconciling goroutine puts the active process in, or "none".
ReconciledState ==
    CASE UpgradeSucceeded -> "COMPLETE"
      [] RollbackSucceeded -> "ROLLED_BACK"
      [] TimedOut /\ ~ UpgradeSucceeded /\ ~ RollbackSucceeded -> "TIMED_OUT"
      [] OTHER -> "none"

\* One tick of reconcileUpgradeStateRegularly for process p.
Reconcile(p) ==
    /\ p \in watchers /\ ~ errored
    /\ \/ /\ ~ active \/ proc.id # p
          /\ watchers' = watchers \ {p} /\ NoFault
          /\ UNCHANGED <<upgradability, proc, active, errored, saved, nextId, rollback>>
       \/ /\ active /\ proc.id = p /\ ReconciledState # "none"
          /\ SetUpgradeProgress(ReconciledState) /\ Flush
    /\ UNCHANGED <<main, conn, triggers, sensorVars, clusterVars>>

Older(p) ==
    [p EXCEPT !.since = IF @ \in {NoTime, NoProgress} THEN @ ELSE @ + 1,
              !.initiated = IF p.state # "INITIALIZING" \/ @ = NoProgress THEN @ ELSE @ + 1]

\* Time passes.  The goroutine polls much more often than the timeouts.
Tick ==
    /\ proc.active \/ saved.active
    /\ Older(proc) # proc \/ Older(saved) # saved
    /\ ~ (active /\ ~ errored /\ ReconciledState # "none")
    /\ proc' = Older(proc) /\ saved' = Older(saved)
    /\ UNCHANGED <<main, upgradability, active, conn, errored, watchers, nextId,
                   rollback, triggers, sensorVars, clusterVars, faults>>

\* Central restarts: initialize makes the persisted process active again.
RestartCentral ==
    /\ Fault("central")
    /\ main' \in {v \in Versions : v >= main}
    /\ upgradability' = "UNSET"
    /\ proc' = saved /\ active' = saved.active
    /\ watchers' = IF saved.active THEN {saved.id} ELSE {}
    /\ errored' = FALSE
    /\ link' = FALSE /\ triggers' = {} /\ conn' = NoConn
    /\ UNCHANGED <<saved, nextId, rollback, running, sproc, clusterVars>>

-----------------------------------------------------------------------------
\* The upgrader's deployment is deleted, or replaced by one for process p.  It owns the
\* secret with the snapshot, which is collected with it.
NoDeployment ==
    /\ deployment' = 0 /\ upg' = NoUpgrader
    /\ snapshot' = NoSnapshot /\ gone' = gone \cup ({deployment} \ {0})

NewDeployment(p, type) ==
    /\ deployment' = p /\ upg' = NewUpgrader(p, type)
    /\ snapshot' = NoSnapshot /\ gone' = gone \cup ({deployment} \ {0})

\* Sensor's commandHandler.ProcessMessage for a trigger t.  The deployments of upgraders
\* are deleted when no upgrade should be in progress.
SensorTrigger(t) ==
    /\ link /\ t \in triggers /\ triggers' = triggers \ {t}
    /\ \/ t.id # 0 /\ t.id = sproc.id
          /\ UNCHANGED <<sproc, upgraderDeployment>>
       \/ t.id = 0
          /\ sproc' = NoSproc /\ NoDeployment
       \/ t.id \notin {0, sproc.id}
          /\ sproc' = [id |-> t.id, type |-> t.type, step |-> "launch", checkIn |-> "none"]
          /\ UNCHANGED upgraderDeployment
    /\ UNCHANGED <<centralVars, link, running, sensorDeployment, faults>>

\* createUpgraderDeploymentIfNecessary and the check-in about it.  A deployment of another
\* process is deleted first; one of this process stays, and then Create fails.
SensorLaunch ==
    LET launched(c) == [sproc EXCEPT !.step = "watch", !.checkIn = c]
    IN  /\ sproc.step = "launch"
        /\ \/ deployment # sproc.id /\ NoFault
              /\ NewDeployment(sproc.id, sproc.type) /\ sproc' = launched("launchOk")
           \/ deployment = sproc.id /\ NoFault
              /\ sproc' = launched("launchError") /\ UNCHANGED upgraderDeployment
           \/ deployment # sproc.id /\ Fault("launch")
              /\ NoDeployment /\ sproc' = launched("launchError")
        /\ UNCHANGED <<centralVars, triggers, link, running, sensorDeployment>>

\* pollAndUpdateProgress: what Sensor sees replaces the pending check-in.
SensorPoll ==
    /\ sproc.step = "watch"
    /\ \/ deployment # sproc.id /\ NoFault /\ sproc' = [sproc EXCEPT !.checkIn = "gone"]
       \/ deployment = sproc.id /\ NoFault /\ sproc' = [sproc EXCEPT !.checkIn = "podsOk"]
       \/ deployment = sproc.id /\ Fault("pod") /\ sproc' = [sproc EXCEPT !.checkIn = "podsError"]
    /\ UNCHANGED <<centralVars, triggers, link, running, clusterVars>>

\* doProcessCheckInFromSensor: the state that check-in c leads to, or "none".
CheckInState(c) ==
    LET launched == proc.state \notin BeforeLaunch
        age == IF proc.since = NoTime THEN 0 ELSE proc.since
    IN  CASE c \in {"launchOk", "launchError"} /\ launched -> "none"
          [] c = "launchOk" /\ ~ launched -> "LAUNCHING"
          [] c = "launchError" /\ ~ launched -> "INITIALIZATION_ERROR"
          [] c = "gone" -> IF proc.state = "ROLLING_BACK" THEN "none" ELSE "ERROR_UNKNOWN"
          [] c \in {"podsOk", "podsError"} /\ launched /\ age < Stuck -> "none"
          [] c = "podsOk" /\ ~ (launched /\ age < Stuck) -> "LAUNCHING"
          [] c = "podsError" /\ ~ launched -> IF age < GracePeriod THEN "none"
                                                                 ELSE "INITIALIZATION_ERROR"
          [] OTHER -> "ERROR_UNKNOWN"

\* Mutant: Central compares the process with its most recent one, active or not.
SensorCheckInMostRecent ==
    /\ sproc.checkIn # "none" /\ ~ errored /\ proc.id = sproc.id
    /\ LET s == CheckInState(sproc.checkIn)
       IN  \/ s # "none" /\ SetUpgradeProgress(s) /\ Flush
           \/ s = "none" /\ NoFault /\ UNCHANGED controllerVars
    /\ sproc' = [sproc EXCEPT !.checkIn = "none"]
    /\ UNCHANGED <<main, conn, triggers, link, running, clusterVars>>

\* handleCentralCheckIns: a check-in that fails is retried; when there is no upgrade in
\* progress, the deployment of the upgrader is deleted and the process ends.
SensorCheckIn ==
    /\ sproc.checkIn # "none" /\ ~ errored
    /\ \/ /\ ~ active
          /\ sproc' = NoSproc /\ NoDeployment
          /\ NoFault /\ UNCHANGED controllerVars
       \/ /\ active /\ proc.id = sproc.id
          /\ LET s == CheckInState(sproc.checkIn)
             IN  \/ s # "none" /\ SetUpgradeProgress(s) /\ Flush
                 \/ s = "none" /\ NoFault /\ UNCHANGED controllerVars
          /\ sproc' = [sproc EXCEPT !.checkIn = "none"]
          /\ UNCHANGED upgraderDeployment
    /\ UNCHANGED <<main, conn, triggers, link, running, sensorDeployment>>

\* The cluster replaces Sensor's pod by one of the deployed version: the strategy of
\* Sensor's deployment is Recreate, so the old pod stops first.
StopPod ==
    /\ running \notin {deployed, 0}
    /\ running' = 0 /\ sproc' = NoSproc /\ Disconnected
    /\ UNCHANGED <<main, controllerVars, clusterVars, faults>>

StartPod ==
    /\ running = 0 /\ running' = deployed
    /\ UNCHANGED <<centralVars, triggers, link, sproc, clusterVars, faults>>

RestartSensor ==
    /\ running # 0 /\ Fault("sensor") /\ sproc' = NoSproc /\ Disconnected
    /\ UNCHANGED <<main, controllerVars, running, clusterVars>>

-----------------------------------------------------------------------------
\* runLoop: the runner that the upgrader uses for workflow w.
Instructed(w) ==
    LET r == IF w # upg.workflow \/ upg.err
             THEN [upg EXCEPT !.workflow = w, !.ran = 0, !.err = FALSE] ELSE upg
    IN  [r EXCEPT !.step = IF r.ran = Len(Workflows[w]) THEN "ask" ELSE "run"]

\* sendRequestWithRetries and doProcessCheckInFromUpgrader.  Central tells the upgrader of
\* another process to clean up.
UpgraderCheckIn ==
    /\ upg.step = "ask" /\ ~ errored
    /\ LET r == [state |-> proc.state, workflow |-> upg.workflow,
                 stage |-> StageOf(upg.workflow, upg.ran), err |-> upg.err, type |-> proc.type]
       IN  \/ /\ ~ active \/ proc.id # upg.id
              /\ upg' = Instructed("cleanup")
              /\ NoFault /\ UNCHANGED controllerVars
           \/ /\ active /\ proc.id = upg.id
              /\ SetUpgradeProgress(NextState(r))
              /\ \/ Flush /\ upg' = Instructed(WorkflowToExecute(r))
                 \/ Fault("lost") /\ UNCHANGED upg /\ saved' = proc' /\ UNCHANGED errored
    /\ UNCHANGED <<main, conn, triggers, sensorVars, sensorDeployment, deployment, snapshot,
                   gone>>

\* RunNextStage: what the stages do in the cluster.
Ran(err) == [upg EXCEPT !.ran = @ + 1, !.err = err, !.step = "ask"]
\* Mutant: the snapshot is taken, but not stored.
SnapshotNotStored == snapshot

OwnSnapshot ==
    IF snapshot.id = upg.id THEN snapshot ELSE [id |-> upg.id, version |-> deployed]

RunPrepare ==
    /\ \/ NoFault /\ upg' = [Ran(FALSE) EXCEPT !.bundle = main] /\ snapshot' = OwnSnapshot
       \/ Fault("stage") /\ upg' = Ran(TRUE) /\ snapshot' \in {snapshot, OwnSnapshot}
    /\ UNCHANGED <<sensorDeployment, deployment, gone>>

RunCheck(ok) ==
    /\ \/ ok /\ NoFault /\ upg' = Ran(FALSE)
       \/ ~ ok /\ NoFault /\ upg' = Ran(TRUE)
       \/ Fault("stage") /\ upg' = Ran(TRUE)
    /\ UNCHANGED <<sensorDeployment, deployment, snapshot, gone>>

\* GenerateExecutionPlan: an object that differs is updated if this process has not changed
\* it yet, or, in a rollback, if it has.  Both updates annotate the object.
Updates(v) == deployed # v /\ (annotated = upg.id) = (upg.workflow = "roll-back")
Update(v) == deployed' = v /\ annotated' = upg.id

\* Execution of the plan that brings Sensor's deployment to version v.
RunExecute(v) ==
    /\ \/ NoFault /\ upg' = Ran(FALSE)
          /\ IF Updates(v) THEN Update(v) ELSE UNCHANGED sensorDeployment
       \/ Fault("stage") /\ upg' = Ran(TRUE)
          /\ \/ UNCHANGED sensorDeployment
             \/ Updates(v) /\ Update(v)
    /\ UNCHANGED <<deployment, snapshot, gone>>

RunCleanup ==
    /\ \/ NoFault /\ NoDeployment
       \/ Fault("stage") /\ upg' = Ran(TRUE) /\ UNCHANGED <<deployment, snapshot, gone>>
    /\ UNCHANGED sensorDeployment

UpgraderRun ==
    /\ upg.step = "run"
    /\ LET stage == Workflows[upg.workflow][upg.ran + 1]
       IN  \/ stage = "prepare" /\ RunPrepare
           \/ stage = "preflight" /\ RunCheck(TRUE)
           \/ stage = "prepareRollback" /\ RunCheck(snapshot.id = upg.id)
           \/ stage = "execute" /\ upg.workflow = "roll-forward"
              /\ RunExecute(IF upg.type = "UPGRADE" THEN upg.bundle ELSE deployed)
           \/ stage = "execute" /\ upg.workflow = "roll-back" /\ RunExecute(snapshot.version)
           \/ stage = "cleanup" /\ RunCleanup
    /\ UNCHANGED <<centralVars, triggers, sensorVars>>

RestartUpgrader ==
    /\ upg # NoUpgrader /\ Fault("upgrader")
    /\ upg' = NewUpgrader(upg.id, upg.type)
    /\ UNCHANGED <<centralVars, triggers, sensorVars, sensorDeployment, deployment, snapshot,
                   gone>>

\* The upgrader has exhausted its retries and cleans up.
GiveUp ==
    /\ upg.step = "ask" /\ Fault("giveup") /\ NoDeployment
    /\ UNCHANGED <<centralVars, triggers, sensorVars, sensorDeployment>>

Central == Connect \/ WatchConnection \/ StopConnection \/ \E p \in 1..MaxProcs : Reconcile(p)
Sensor == (\E t \in triggers : SensorTrigger(t)) \/ SensorLaunch \/ SensorPoll \/ SensorCheckIn
Upgrader == UpgraderCheckIn \/ UpgraderRun
Cluster == StopPod \/ StartPod
Environment ==
    \/ \E type \in ProcessTypes : Trigger(type)
    \/ Disconnect \/ RestartCentral \/ RestartSensor \/ RestartUpgrader \/ GiveUp

Next == Central \/ Sensor \/ Upgrader \/ Cluster \/ Tick \/ Environment

Spec == Init /\ [][Next]_vars

\* Time passes, the reconciling goroutines poll, a replaced pod of Sensor stops, and a
\* running one reconnects.  Nothing is assumed of the upgrader and of Sensor's check-ins,
\* nor that the new Sensor ever starts.
FairSpec ==
    /\ Spec /\ WF_vars(Tick) /\ WF_vars(\E p \in 1..MaxProcs : Reconcile(p))
    /\ WF_vars(StopPod) /\ WF_vars(Connect)

-----------------------------------------------------------------------------
Ids == 0..MaxProcs
Versions0 == Versions \cup {0}
Process ==
    [id : Ids, type : ProcessTypes, state : UpgradeState, active : BOOLEAN,
     target : Versions0, since : Ages \cup {NoTime}, initiated : Ages]

\* Only a process that is still initializing may lack the time since when it is in its
\* state: maybeTimeoutUpgrade relies on it.
HasSince(p) == p.since = NoTime => p.state = "INITIALIZING"

\* The variables have their types, and the processes in memory and in the database the
\* timestamps that the timeout needs.
TypeOK ==
    /\ main \in Versions
    /\ upgradability \in {"UNSET", "UP_TO_DATE", "AUTO_UPGRADE_POSSIBLE", "SENSOR_VERSION_HIGHER"}
    /\ proc \in Process /\ HasSince(proc) /\ saved \in Process /\ HasSince(saved)
    /\ active \in BOOLEAN /\ errored \in BOOLEAN /\ watchers \subseteq 1..MaxProcs
    /\ conn \in [version : Versions0, live : BOOLEAN]
    /\ triggers \subseteq [id : Ids, type : ProcessTypes]
    /\ link \in BOOLEAN /\ running \in Versions0
    /\ sproc \in [id : Ids, type : ProcessTypes, step : {"none", "launch", "watch"},
                  checkIn : {"none", "launchOk", "launchError", "gone", "podsOk", "podsError"}]
    /\ deployed \in Versions /\ annotated \in Ids /\ deployment \in Ids
    /\ snapshot \in [id : Ids, version : Versions0]
    /\ upg \in [id : Ids, type : ProcessTypes, workflow : DOMAIN Workflows, ran : 0..3,
                err : BOOLEAN, bundle : Versions0, step : {"none", "ask", "run"}]
    /\ nextId \in 1..(MaxProcs + 1) /\ faults \in 0..MaxFaults
    /\ rollback \in [1..MaxProcs -> {"no", "begun", "abandoned"}] /\ gone \subseteq 1..MaxProcs

\* The reconciling goroutine of the active process runs, also after Central has
\* restarted: no active process is left without its timeout.
ActiveIsWatched == active => proc.id \in watchers

\* TerminalStates: once the persisted process is in one of these states, it never gets
\* out, whatever late check-ins, ticks and restarts follow.
TerminalIsFinal ==
    [][saved.state \in TerminalStates /\ saved'.id = saved.id
        => saved'.state = saved.state /\ ~ saved'.active]_vars

\* When the most recent upgrade is complete, Sensor's deployment has at least the target
\* version and stays there: no upgrader still rolls it back.  A process that has abandoned
\* its rollback is excepted: its upgrader skips what the process has changed before, and
\* succeeds.  (Many failed writes can break this, too: do answers a check-in whose write has
\* failed, and a restart forgets the change.)
CompleteMeansDeployed ==
    /\ saved.type = "UPGRADE" /\ saved.state = "COMPLETE"
    /\ rollback[saved.id] # "abandoned"
    => deployed >= saved.target

\* An upgrader that is told to roll back finds the snapshot of its process, also after
\* restarts of its pod: SnapshotForRollbackStage requires it (Options.MustExist).  Only a
\* process whose upgrader is launched again has lost it, with the first deployment.
RollbackHasSnapshot ==
    upg.workflow = "roll-back" /\ upg.id \notin gone
    => snapshot.id = upg.id /\ snapshot.version # 0

\* A process that rolls forward after its rollback: its upgrader has nothing to do, and the
\* old Sensor stays.
RolledForwardAgain == active /\ rollback[proc.id] = "abandoned"

\* Every upgrade ends, by its success, its failure or the timeout, also when the upgrader
\* or the new Sensor is never heard of, unless the controller is in its error state.  A
\* process that rolls forward after its rollback is excepted: the old Sensor's check-ins
\* about healthy pods, whenever it is stuck, and the upgrader's answers renew its timeout
\* for ever.
UpgradesEnd == []<>(~ active \/ errored \/ RolledForwardAgain)

\* "Upgrader restarted in the middle of rolling back. Tell it to keep rolling back."
RollbackContinues ==
    upg.step = "run" /\ rollback[upg.id] # "no" => upg.workflow # "roll-forward"
=============================================================================
