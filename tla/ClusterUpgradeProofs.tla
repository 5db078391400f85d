------------------------- MODULE ClusterUpgradeProofs -------------------------
(***************************************************************************)
(* Proofs about ClusterUpgrade, for any versions, any number of processes    *)
(* and any faults.                                                          *)
(***************************************************************************)
EXTENDS ClusterUpgrade, TLAPS

Fields == {"id", "type", "state", "active", "target", "since", "initiated"}

\* What the proofs need of a process.
IsProcess(p) ==
    /\ DOMAIN p = Fields
    /\ p.id \in Int
    /\ p.active \in BOOLEAN

\* The zero process of a cluster that was never upgraded.
LEMMA NoProcFacts ==
    IsProcess(NoProc) /\ NoProc.id = 0 /\ NoProc.active = FALSE
    /\ NoProc.state \notin TerminalStates
BY DEF NoProc, IsProcess, Fields, TerminalStates

\* setUpgradeProgress keeps the process and deactivates it in a terminal state.
LEMMA InStateFacts ==
    ASSUME NEW p, NEW s, IsProcess(p)
    PROVE  LET q == InState(p, s)
           IN  /\ IsProcess(q) /\ q.id = p.id /\ q.state = s
               /\ q.active = (p.active /\ s \notin TerminalStates)
<1> DEFINE q == InState(p, s)
<1>1. DOMAIN q = Fields /\ q.id = p.id /\ q.state = s
  BY DEF InState, IsProcess, Fields
<1>2. q.active = (p.active /\ s \notin TerminalStates)
  BY DEF InState, IsProcess, Fields
<1> QED
  BY <1>1, <1>2 DEF IsProcess

\* The passing of time changes neither the process nor its state.
LEMMA OlderFacts ==
    ASSUME NEW p, IsProcess(p)
    PROVE  LET q == Older(p)
           IN  IsProcess(q) /\ q.id = p.id /\ q.state = p.state /\ q.active = p.active
BY DEF Older, IsProcess, Fields
-----------------------------------------------------------------------------
\* The inductive invariant.  The active process is the most recent one, is watched and in
\* no terminal state; the database has it unless a write has failed; no id is used again.
NotEnded(p) == p.active => p.state \notin TerminalStates

ProcessInv ==
    /\ IsProcess(proc) /\ NotEnded(proc) /\ IsProcess(saved) /\ NotEnded(saved)
    /\ nextId \in Int /\ proc.id < nextId /\ saved.id < nextId
    /\ active \in BOOLEAN /\ (active <=> proc.active)
    /\ active => proc.id \in watchers
    /\ ~ errored => saved = proc

\* What a step may do to the persisted process: TerminalIsFinal.
Final ==
    saved.state \in TerminalStates /\ saved'.id = saved.id
        => saved'.state = saved.state /\ ~ saved'.active

\* The states that Sensor's check-ins and the reconciling goroutine lead to.
LEMMA CheckInStates ==
    ASSUME NEW c
    PROVE  CheckInState(c) \in {"none", "LAUNCHING", "INITIALIZATION_ERROR", "ERROR_UNKNOWN"}
BY DEF CheckInState

LEMMA ReconciledStates ==
    /\ ReconciledState \in {"none", "COMPLETE", "ROLLED_BACK", "TIMED_OUT"}
    /\ ReconciledState = "COMPLETE" => UpgradeSucceeded
BY DEF ReconciledState

\* The steps of Next, seen from the controller.
Flushed == Flush \/ (saved' = proc' /\ UNCHANGED errored)
Idle ==
    /\ UNCHANGED <<proc, active, errored, saved, nextId, rollback>>
    /\ \/ watchers' = watchers
       \/ \E p \in watchers : (~ active \/ proc.id # p) /\ watchers' = watchers \ {p}
Refresh == ~ errored /\ NoProcessChange /\ Flush
Reported(s) ==
    \/ s \in {"LAUNCHING", "INITIALIZATION_ERROR", "ERROR_UNKNOWN", "ROLLED_BACK", "TIMED_OUT"}
    \/ s = "COMPLETE" /\ UpgradeSucceeded
Progress ==
    /\ ~ errored /\ active /\ Flushed
    /\ \E s : SetUpgradeProgress(s) /\ (UpgraderCheckIn \/ Reported(s))
Start ==
    /\ ~ errored /\ ~ active /\ Flush /\ UNCHANGED <<main, clusterVars>>
    /\ \E type \in ProcessTypes : MakeProcessActive(type)
Age ==
    /\ proc' = Older(proc) /\ saved' = Older(saved)
    /\ UNCHANGED <<active, errored, watchers, nextId, rollback>>
Reload ==
    /\ proc' = saved /\ active' = saved.active
    /\ watchers' = IF saved.active THEN {saved.id} ELSE {}
    /\ errored' = FALSE /\ UNCHANGED <<saved, nextId, rollback>>

\* Every step is one of the controller's six kinds of step.
LEMMA StepsOfNext ==
    ASSUME [Next]_vars
    PROVE  Idle \/ Refresh \/ Progress \/ Start \/ Age \/ Reload
<1> USE DEF controllerVars, centralVars, sensorVars, vars
<1>1. CASE Connect
  <2>1. CASE errored
    BY <1>1, <2>1 DEF Connect, Idle
  <2>2. CASE ~ errored
    BY <1>1, <2>2 DEF Connect, AutoTriggers, Refresh, Start, ProcessTypes
  <2> QED BY <2>1, <2>2
<1>2. CASE WatchConnection \/ StopConnection
  BY <1>2 DEF WatchConnection, StopConnection, Idle
<1>3. CASE \E p \in 1..MaxProcs : Reconcile(p)
  <2> PICK p \in 1..MaxProcs : Reconcile(p) BY <1>3
  <2>1. CASE ~ active \/ proc.id # p
    BY <2>1 DEF Reconcile, Idle
  <2>2. CASE active /\ proc.id = p
    <3>1. ~ errored /\ ReconciledState # "none" /\ SetUpgradeProgress(ReconciledState) /\ Flush
      BY <2>2 DEF Reconcile
    <3>2. Reported(ReconciledState)
      BY <3>1, ReconciledStates DEF Reported
    <3> QED BY <2>2, <3>1, <3>2 DEF Progress, Flushed
  <2> QED BY <2>1, <2>2
<1>4. CASE (\E t \in triggers : SensorTrigger(t)) \/ SensorLaunch \/ SensorPoll
  BY <1>4 DEF SensorTrigger, SensorLaunch, SensorPoll, Idle
<1>5. CASE SensorCheckIn
  <2>1. CASE UNCHANGED controllerVars
    BY <2>1 DEF Idle
  <2>2. CASE ~ UNCHANGED controllerVars
    <3>1. /\ ~ errored /\ active /\ CheckInState(sproc.checkIn) # "none"
          /\ SetUpgradeProgress(CheckInState(sproc.checkIn)) /\ Flush
      BY <1>5, <2>2 DEF SensorCheckIn
    <3>2. Reported(CheckInState(sproc.checkIn))
      BY <3>1, CheckInStates DEF Reported
    <3> QED BY <3>1, <3>2 DEF Progress, Flushed
  <2> QED BY <2>1, <2>2
<1>6. CASE UpgraderCheckIn
  <2>1. CASE UNCHANGED controllerVars
    BY <2>1 DEF Idle
  <2>2. CASE ~ UNCHANGED controllerVars
    <3>1. ~ errored /\ active /\ (\E s : SetUpgradeProgress(s)) /\ Flushed
      BY <1>6, <2>2 DEF UpgraderCheckIn, Flushed
    <3> QED BY <1>6, <3>1 DEF Progress
  <2> QED BY <2>1, <2>2
<1>7. CASE UpgraderRun \/ StopPod \/ StartPod
  BY <1>7 DEF UpgraderRun, StopPod, StartPod, Idle
<1>8. CASE Tick
  BY <1>8 DEF Tick, Age
<1>9. CASE \E type \in ProcessTypes : Trigger(type)
  BY <1>9 DEF Trigger, Start
<1>10. CASE Disconnect \/ RestartSensor \/ RestartUpgrader \/ GiveUp
  BY <1>10 DEF Disconnect, RestartSensor, RestartUpgrader, GiveUp, Idle
<1>11. CASE RestartCentral
  BY <1>11 DEF RestartCentral, Reload
<1>12. CASE UNCHANGED vars
  BY <1>12 DEF Idle
<1> QED
  BY <1>1, <1>2, <1>3, <1>4, <1>5, <1>6, <1>7, <1>8, <1>9, <1>10, <1>11, <1>12
     DEF Next, Central, Sensor, Upgrader, Cluster, Environment
-----------------------------------------------------------------------------
\* The invariant holds initially.
LEMMA InitInv == Init => ProcessInv
<1> SUFFICES ASSUME Init PROVE ProcessInv
  OBVIOUS
<1>1. proc = NoProc /\ saved = NoProc /\ nextId = 1 /\ active = FALSE
  BY DEF Init
<1>2. nextId \in Int /\ proc.id < nextId /\ saved.id < nextId
  BY <1>1, NoProcFacts
<1>3. IsProcess(proc) /\ NotEnded(proc) /\ (active <=> proc.active)
  BY <1>1, NoProcFacts DEF NotEnded
<1> QED
  BY <1>1, <1>2, <1>3, Zenon DEF ProcessInv

\* A step of the others, or the end of a goroutine whose process is not active.
LEMMA IdleKeeps == ProcessInv /\ Idle => ProcessInv' /\ Final
BY DEF ProcessInv, Idle, Final, IsProcess, NotEnded

\* A registered connection that triggers no upgrade.
LEMMA RefreshKeeps == ProcessInv /\ Refresh => ProcessInv' /\ Final
BY DEF ProcessInv, Refresh, NoProcessChange, Flush, Final, IsProcess, NotEnded

\* A check-in or a tick changes the state of the active process.
LEMMA ProgressKeeps == ProcessInv /\ Progress => ProcessInv' /\ Final
<1> SUFFICES ASSUME ProcessInv, Progress PROVE ProcessInv' /\ Final
  OBVIOUS
<1> PICK s : SetUpgradeProgress(s)
  BY DEF Progress
<1>1. /\ IsProcess(proc') /\ proc'.id = proc.id
      /\ proc'.active = (proc.active /\ s \notin TerminalStates)
      /\ proc'.state = s
  BY InStateFacts DEF ProcessInv, SetUpgradeProgress
<1>2. active' = (s \notin TerminalStates) /\ UNCHANGED <<watchers, nextId>>
  BY DEF SetUpgradeProgress
<1>3. ~ errored /\ active /\ saved = proc /\ proc.active /\ proc.state \notin TerminalStates
  BY DEF Progress, ProcessInv, NotEnded
<1>4. \/ saved' = proc' /\ errored' = errored
      \/ saved' = saved /\ errored'
  BY DEF Progress, Flushed, Flush
<1>5. NotEnded(proc')
  BY <1>1 DEF NotEnded
<1>6. IsProcess(saved') /\ NotEnded(saved') /\ saved'.id = proc.id
  BY <1>1, <1>3, <1>4, <1>5 DEF ProcessInv
<1>7. active' \in BOOLEAN /\ (active' <=> proc'.active)
  BY <1>1, <1>2, <1>3
<1>8. ProcessInv'
  BY <1>1, <1>2, <1>3, <1>4, <1>5, <1>6, <1>7 DEF ProcessInv
<1>9. Final
  BY <1>3 DEF Final
<1> QED BY <1>8, <1>9

\* makeProcessActive: the new process has an id of its own.
LEMMA StartKeeps == ProcessInv /\ Start => ProcessInv' /\ Final
<1> SUFFICES ASSUME ProcessInv, Start PROVE ProcessInv' /\ Final
  OBVIOUS
<1> PICK type \in ProcessTypes : MakeProcessActive(type)
  BY DEF Start
<1>1. /\ DOMAIN proc' = Fields /\ proc'.id = nextId /\ proc'.state = "INITIALIZING"
      /\ proc'.active = TRUE
  BY DEF MakeProcessActive, NoProc, Fields
<1>2. active' = TRUE /\ watchers' = watchers \cup {nextId} /\ nextId' = nextId + 1
  BY DEF MakeProcessActive
<1>3. \/ saved' = proc' /\ errored' = errored
      \/ saved' = saved /\ errored'
  BY DEF Start, Flush
<1>4. IsProcess(proc') /\ NotEnded(proc')
  BY <1>1 DEF IsProcess, ProcessInv, NotEnded, TerminalStates
<1>5. nextId' \in Int /\ proc'.id < nextId' /\ saved'.id < nextId'
  BY <1>1, <1>2, <1>3 DEF ProcessInv, IsProcess
<1>6. IsProcess(saved') /\ NotEnded(saved')
  BY <1>3, <1>4 DEF ProcessInv
<1>7. ProcessInv'
  BY <1>1, <1>2, <1>3, <1>4, <1>5, <1>6 DEF ProcessInv, Start
<1>8. Final
  <2>1. CASE saved' = saved
    BY <2>1 DEF Final, ProcessInv, NotEnded
  <2>2. CASE saved' = proc'
    BY <2>2, <1>1 DEF Final, ProcessInv, IsProcess
  <2> QED BY <1>3, <2>1, <2>2
<1> QED BY <1>7, <1>8

\* Time passes.
LEMMA AgeKeeps == ProcessInv /\ Age => ProcessInv' /\ Final
BY OlderFacts DEF ProcessInv, Age, Final, NotEnded

\* Central restarts and initializes the controller from the database.
LEMMA ReloadKeeps == ProcessInv /\ Reload => ProcessInv' /\ Final
BY DEF ProcessInv, Reload, Final, IsProcess, NotEnded

\* Every step keeps the invariant and leaves terminal states alone.
LEMMA StepKeeps == ProcessInv /\ [Next]_vars => ProcessInv' /\ Final
BY StepsOfNext, IdleKeeps, RefreshKeeps, ProgressKeeps, StartKeeps, AgeKeeps, ReloadKeeps

\* The invariant holds in every reachable state.
LEMMA Invariance == Spec => []ProcessInv
BY InitInv, StepKeeps, PTL DEF Spec

\* The active process has its reconciling goroutine (reconcileUpgradeStateRegularly), and
\* with it its timeout, in every reachable state, restarts and failed writes included.
THEOREM ActiveProcessIsWatched == Spec => []ActiveIsWatched
<1>1. ProcessInv => ActiveIsWatched
  BY DEF ProcessInv, ActiveIsWatched
<1> QED BY <1>1, Invariance, PTL

\* A persisted process never leaves a terminal state (stateutils.TerminalStates).
THEOREM TerminalStaysTerminal == Spec => TerminalIsFinal
<1>1. ProcessInv /\ [Next]_vars => [Final]_vars
  BY StepKeeps
<1> QED BY <1>1, Invariance, PTL DEF Spec, TerminalIsFinal, Final
-----------------------------------------------------------------------------
\* The table of transitions.  What the upgrader may be told to do.
Told == {"roll-forward", "roll-back", "cleanup"}
Rows == DOMAIN AllTransitions
Leads(i, next, execute) == AllTransitions[i].next = next /\ AllTransitions[i].execute = execute

LEMMA RowsAre == Rows = 1..15
BY DEF Rows, AllTransitions

\* Where each row of the table leads.
LEMMA Table ==
    /\ Leads(1, Same, "cleanup")
    /\ Leads(2, "LAUNCHED", "roll-forward")
    /\ Leads(3, "ROLLING_BACK", "roll-back")
    /\ Leads(4, "LAUNCHED", "roll-forward")
    /\ Leads(5, "INITIALIZATION_ERROR", "cleanup")
    /\ Leads(6, "PRE_FLIGHT_COMPLETE", "roll-forward")
    /\ Leads(7, "PRE_FLIGHT_FAILED", "cleanup")
    /\ Leads(8, "OPERATIONS_DONE", "roll-forward")
    /\ Leads(9, "COMPLETE", "cleanup")
    /\ Leads(10, "ROLLING_BACK", "roll-back")
    /\ Leads(11, "ROLLING_BACK", "roll-back")
    /\ Leads(12, "ROLLING_BACK", "cleanup")
    /\ Leads(13, "ROLLED_BACK", "cleanup")
    /\ Leads(14, "ROLLBACK_FAILED", "cleanup")
    /\ Leads(15, Same, "cleanup")
BY DEF AllTransitions, To, Leads

LEMMA RowTypes ==
    \A i \in Rows : /\ AllTransitions[i].next \in UpgradeState \cup {Same}
                    /\ AllTransitions[i].execute \in Told
<1>1. \A i \in Rows : AllTransitions[i].execute \in Told
  BY RowsAre, Table DEF Leads, Told
<1>2. \A i \in Rows : AllTransitions[i].next \in
         {Same, "LAUNCHED", "ROLLING_BACK", "INITIALIZATION_ERROR", "PRE_FLIGHT_COMPLETE",
          "PRE_FLIGHT_FAILED", "OPERATIONS_DONE", "COMPLETE", "ROLLED_BACK", "ROLLBACK_FAILED"}
  BY RowsAre, Table DEF Leads
<1> QED
  BY <1>1, <1>2 DEF UpgradeState, RunningStates, TerminalStates, BeforeLaunch

\* The first match exists.
LEMMA Minimum == ASSUME NEW M, M \subseteq 1..15, M # {} PROVE \E i \in M : \A j \in M : i <= j
<1> SUFFICES ASSUME \A i \in M: \E j \in M : j < i PROVE FALSE
  OBVIOUS
<1> DEFINE Above(k) == \A j \in M : j > k
<1>1. ASSUME NEW k \in 0..15, Above(k) PROVE Above(k+1)
  BY <1>1
<1>2. Above(0)
  OBVIOUS
<1> HIDE DEF Above
<1>3. Above(4) BY <1>1, <1>2
<1>4. Above(8) BY <1>1, <1>3
<1>5. Above(12) BY <1>1, <1>4
<1>6. Above(15) BY <1>1, <1>5
<1>7. PICK m \in M : TRUE OBVIOUS
<1> QED BY <1>6, <1>7 DEF Above

LEMMA First ==
    ASSUME NEW r, Matching(r) # {}
    PROVE  FirstMatch(r) \in Rows /\ r \in AllTransitions[FirstMatch(r)].match
<1>1. Matching(r) \subseteq 1..15
  BY RowsAre DEF Matching, Rows
<1>2. \E i \in Matching(r) : \A j \in Matching(r) : i <= j
  BY <1>1, Minimum
<1>3. FirstMatch(r) \in Matching(r)
  BY <1>2 DEF FirstMatch
<1> QED
  BY <1>3 DEF Matching, Rows

LEMMA AnswerTypes ==
    ASSUME NEW r, r.state \in UpgradeState
    PROVE  NextState(r) \in UpgradeState /\ WorkflowToExecute(r) \in Told
  BY First, RowTypes DEF NextState, WorkflowToExecute, Told
-----------------------------------------------------------------------------
\* The upgrader's pod.
Pod == [id : Ids, type : ProcessTypes, workflow : DOMAIN Workflows, ran : 0..3,
        err : BOOLEAN, bundle : Versions0, step : {"none", "ask", "run"}]

\* It runs a stage only if one of its workflow is left.
UpgraderOK ==
    /\ upg.ran <= Len(Workflows[upg.workflow])
    /\ upg.step = "run" => upg.ran < Len(Workflows[upg.workflow])
    /\ upg.step = "none" => upg = NoUpgrader
    /\ upg.step # "none" => upg.id # 0

LEMMA Lengths ==
    /\ DOMAIN Workflows = {"none", "roll-forward", "roll-back", "cleanup"}
    /\ Len(Workflows["none"]) = 0 /\ Len(Workflows["roll-forward"]) = 3
    /\ Len(Workflows["roll-back"]) = 2 /\ Len(Workflows["cleanup"]) = 1
BY DEF Workflows

\* What setUpgradeProgress and the passing of time make of a process.
LEMMA InStateType ==
    ASSUME NEW p \in Process, NEW s \in UpgradeState
    PROVE  InState(p, s) \in Process /\ HasSince(InState(p, s))
<1> DEFINE t == IF p.state # s \/ p.since = NoTime THEN 0 ELSE p.since
           a == p.active /\ s \notin TerminalStates
<1>1. t \in Ages /\ a \in BOOLEAN
  BY DEF Process, Ages
<1>2. InState(p, s) = [p EXCEPT !.state = s, !.since = t, !.active = a]
  BY DEF InState
<1> HIDE DEF t, a
<1>3. t \in Ages \cup {NoTime} /\ t # NoTime
  BY <1>1 DEF Ages, NoTime
<1>4. InState(p, s) \in Process
  BY <1>1, <1>2, <1>3 DEF Process
<1>5. InState(p, s).since = t
  BY <1>2 DEF Process
<1> QED
  BY <1>3, <1>4, <1>5 DEF HasSince

LEMMA OlderType ==
    ASSUME NEW p \in Process, HasSince(p)
    PROVE  Older(p) \in Process /\ HasSince(Older(p))
<1> DEFINE t == IF p.since \in {NoTime, NoProgress} THEN p.since ELSE p.since + 1
           i == IF p.state # "INITIALIZING" \/ p.initiated = NoProgress
                THEN p.initiated ELSE p.initiated + 1
<1>1. t \in Ages \cup {NoTime} /\ i \in Ages /\ (t = NoTime => p.since = NoTime)
  BY DEF Process, Ages, NoTime, NoProgress
<1>2. Older(p) = [p EXCEPT !.since = t, !.initiated = i]
  BY DEF Older
<1> HIDE DEF t, i
<1> QED
  BY <1>1, <1>2 DEF Process, HasSince

LEMMA NoProcType == NoProc \in Process /\ HasSince(NoProc) /\ ~ NoProc.active
BY UpgradeAssumption DEF NoProc, Process, HasSince, Ids, ProcessTypes, Versions0, Ages,
   UpgradeState, RunningStates, BeforeLaunch

\* A pod that has just started, and no pod.
LEMMA NewUpgraderType ==
    ASSUME NEW p \in Ids, NEW type \in ProcessTypes
    PROVE  /\ NewUpgrader(p, type) \in Pod
           /\ NewUpgrader(p, type) = [id |-> p, type |-> type, workflow |-> "none", ran |-> 0,
                                      err |-> FALSE, bundle |-> 0, step |-> "ask"]
<1>1. "none" \in DOMAIN Workflows /\ 0 \in Versions0
  BY Lengths DEF Versions0
<1> QED BY <1>1 DEF NewUpgrader, Pod

LEMMA NoUpgraderType ==
    /\ NoUpgrader \in Pod /\ NoUpgrader.step = "none" /\ NoUpgrader.workflow = "none"
    /\ NoUpgrader.ran = 0 /\ NoUpgrader.id = 0 /\ NoUpgrader.type = "UPGRADE"
<1>1. 0 \in Ids
  BY UpgradeAssumption DEF Ids
<1>2. NewUpgrader(0, "UPGRADE") \in Pod
  BY <1>1, NewUpgraderType DEF ProcessTypes
<1>3. NoUpgrader \in Pod
  BY <1>2 DEF NoUpgrader, Pod
<1> QED BY <1>3 DEF NoUpgrader, NewUpgrader

\* The pod goes on with the workflow it is told, or starts it.
LEMMA InstructedType ==
    ASSUME upg \in Pod, UpgraderOK, NEW w \in Told
    PROVE  LET q == Instructed(w)
           IN  /\ q \in Pod /\ q.workflow = w /\ q.id = upg.id /\ q.type = upg.type
               /\ q.err = FALSE /\ q.bundle = upg.bundle /\ q.step # "none"
               /\ q.ran <= Len(Workflows[w]) /\ (q.step = "run" => q.ran < Len(Workflows[w]))
               /\ q.ran # 0 => w = upg.workflow /\ ~ upg.err /\ q.ran = upg.ran
               /\ w = upg.workflow /\ ~ upg.err => q.ran = upg.ran
<1> DEFINE fresh == w # upg.workflow \/ upg.err
           n == IF fresh THEN 0 ELSE upg.ran
           st == IF n = Len(Workflows[w]) THEN "ask" ELSE "run"
<1>1. w \in DOMAIN Workflows /\ Len(Workflows[w]) \in 1..3
  BY Lengths DEF Told
<1>2. /\ n \in 0..Len(Workflows[w]) /\ n \in 0..3 /\ st \in {"ask", "run"}
      /\ st = "run" => n < Len(Workflows[w])
      /\ n # 0 => w = upg.workflow /\ ~ upg.err /\ n = upg.ran
      /\ w = upg.workflow /\ ~ upg.err => n = upg.ran
  BY <1>1 DEF Pod, UpgraderOK
<1>3. Instructed(w) = [upg EXCEPT !.workflow = w, !.ran = n, !.err = FALSE, !.step = st]
  <2>1. CASE fresh
    BY <2>1 DEF Instructed, Pod
  <2>2. CASE ~ fresh
    BY <2>2 DEF Instructed, Pod
  <2> QED BY <2>1, <2>2
<1> HIDE DEF n, st
<1>4. Instructed(w) \in Pod
  BY <1>1, <1>2, <1>3 DEF Pod
<1> QED
  BY <1>1, <1>2, <1>3, <1>4 DEF Pod

\* The pod has run a stage.
LEMMA RanType ==
    ASSUME upg \in Pod, UpgraderOK, upg.step = "run", NEW e \in BOOLEAN
    PROVE  LET q == Ran(e)
           IN  /\ q \in Pod /\ q.workflow = upg.workflow /\ q.id = upg.id /\ q.type = upg.type
               /\ q.ran = upg.ran + 1 /\ q.err = e /\ q.step = "ask" /\ q.bundle = upg.bundle
               /\ q.ran <= Len(Workflows[upg.workflow])
<1>1. upg.ran + 1 \in 0..3 /\ upg.ran + 1 <= Len(Workflows[upg.workflow])
  <2> DEFINE len == Len(Workflows[upg.workflow])
  <2>1. len \in 0..3
    BY Lengths DEF Pod
  <2>2. upg.ran \in 0..3 /\ upg.ran < len
    BY DEF Pod, UpgraderOK
  <2> HIDE DEF len
  <2>3. upg.ran + 1 \in 0..3 /\ upg.ran + 1 <= len
    BY <2>1, <2>2
  <2> QED
    BY <2>3 DEF len
<1>2. Ran(e) \in Pod
  BY <1>1 DEF Ran, Pod
<1> QED
  BY <1>1, <1>2 DEF Ran, Pod
-----------------------------------------------------------------------------
\* The types, in parts: the controller, the pod of the upgrader, and the rest.
ProcOK(p) == p \in Process /\ HasSince(p) /\ (p.active => p.id # 0)

Rollbacks == [1..MaxProcs -> {"no", "begun", "abandoned"}]

ControllerOK ==
    /\ main \in Versions
    /\ upgradability \in {"UNSET", "UP_TO_DATE", "AUTO_UPGRADE_POSSIBLE", "SENSOR_VERSION_HIGHER"}
    /\ ProcOK(proc) /\ ProcOK(saved)
    /\ active \in BOOLEAN /\ errored \in BOOLEAN /\ watchers \subseteq 1..MaxProcs
    /\ nextId \in 1..(MaxProcs + 1) /\ rollback \in Rollbacks

PodOK == upg \in Pod /\ UpgraderOK

Triggers == [id : Ids, type : ProcessTypes]
SensorProcess ==
    [id : Ids, type : ProcessTypes, step : {"none", "launch", "watch"},
     checkIn : {"none", "launchOk", "launchError", "gone", "podsOk", "podsError"}]

SensorOK ==
    /\ conn \in [version : Versions0, live : BOOLEAN] /\ triggers \subseteq Triggers
    /\ link \in BOOLEAN /\ running \in Versions0
    /\ sproc \in SensorProcess /\ (sproc.step = "launch" => sproc.id # 0)

\* The upgrader and its snapshot belong to the upgrader's deployment.
ClusterOK ==
    /\ deployed \in Versions /\ annotated \in Ids /\ deployment \in Ids /\ gone \subseteq 1..MaxProcs
    /\ snapshot \in [id : Ids, version : Versions0] /\ (snapshot.id # 0 => snapshot.version # 0)
    /\ snapshot.id \in {0, deployment} /\ upg.id \in {0, deployment}
    /\ faults \in 0..MaxFaults

TypeInv == ControllerOK /\ PodOK /\ SensorOK /\ ClusterOK

LEMMA TypeParts == TypeInv => TypeOK
BY Zenon DEF TypeInv, TypeOK, ControllerOK, ProcOK, PodOK, Pod, SensorOK, SensorProcess, Triggers,
   ClusterOK, Rollbacks

LEMMA FaultType ==
    ASSUME faults \in 0..MaxFaults, NEW f, Fault(f) \/ NoFault PROVE faults' \in 0..MaxFaults
BY UpgradeAssumption DEF Fault, NoFault

LEMMA FlushType ==
    ASSUME ControllerOK, ClusterOK, ProcOK(proc'), Flush
    PROVE  ProcOK(saved') /\ errored' \in BOOLEAN /\ faults' \in 0..MaxFaults
<1>1. CASE NoFault /\ saved' = proc' /\ UNCHANGED errored
  BY <1>1, FaultType DEF ControllerOK, ClusterOK
<1>2. CASE Fault("db") /\ errored' = TRUE /\ UNCHANGED saved
  BY <1>2, FaultType DEF ControllerOK, ClusterOK, ProcOK
<1> QED BY <1>1, <1>2 DEF Flush

LEMMA ProgressType ==
    ASSUME ControllerOK, NEW s \in UpgradeState, SetUpgradeProgress(s)
    PROVE  /\ ProcOK(proc') /\ active' \in BOOLEAN /\ rollback' \in Rollbacks
           /\ UNCHANGED <<upgradability, watchers, nextId>>
<1>1. IsProcess(proc)
  BY DEF ControllerOK, ProcOK, Process, IsProcess, Fields, Ids
<1>2. proc'.id = proc.id /\ (proc'.active => proc.active)
  BY <1>1, InStateFacts DEF SetUpgradeProgress
<1>3. proc' \in Process /\ HasSince(proc')
  BY InStateType DEF ControllerOK, ProcOK, SetUpgradeProgress
<1>4. ProcOK(proc')
  BY <1>2, <1>3 DEF ControllerOK, ProcOK
<1>5. rollback' \in Rollbacks
  BY DEF SetUpgradeProgress, ControllerOK, Rollbacks
<1> QED
  BY <1>4, <1>5 DEF SetUpgradeProgress, ControllerOK

LEMMA StartType ==
    ASSUME ControllerOK, NEW type \in ProcessTypes, MakeProcessActive(type)
    PROVE  /\ ProcOK(proc') /\ active' \in BOOLEAN /\ rollback' \in Rollbacks
           /\ watchers' \subseteq 1..MaxProcs /\ nextId' \in 1..(MaxProcs + 1)
           /\ proc'.id = nextId /\ proc'.type = type /\ proc'.state = "INITIALIZING"
<1> DEFINE t == IF type = "UPGRADE" THEN main ELSE 0
<1>1. nextId \in Ids /\ nextId # 0 /\ nextId \in 1..MaxProcs /\ t \in Versions0
  BY UpgradeAssumption DEF ControllerOK, MakeProcessActive, Ids, Versions0
<1>2. proc' = [NoProc EXCEPT !.id = nextId, !.type = type, !.active = TRUE, !.target = t]
  BY DEF MakeProcessActive
<1> HIDE DEF t
<1>3. proc' \in Process /\ proc'.id = nextId /\ proc'.type = type /\ proc'.state = NoProc.state
  BY <1>1, <1>2, NoProcType DEF Process
<1>4. NoProc.state = "INITIALIZING"
  BY DEF NoProc
<1>5. ProcOK(proc')
  BY <1>1, <1>3, <1>4 DEF ProcOK, HasSince
<1>6. watchers' \subseteq 1..MaxProcs /\ nextId' \in 1..(MaxProcs + 1)
  BY <1>1, UpgradeAssumption DEF ControllerOK, MakeProcessActive
<1> QED
  BY <1>3, <1>4, <1>5, <1>6 DEF MakeProcessActive, ControllerOK

\* Every step keeps the types of the controller.
LEMMA ControllerStep == ASSUME TypeInv, [Next]_vars PROVE ControllerOK'
<1> USE DEF TypeInv, controllerVars, centralVars, vars
<1>1. CASE UNCHANGED <<main, controllerVars>>
  BY <1>1 DEF ControllerOK, ProcOK
<1>2. ASSUME NEW s \in UpgradeState, SetUpgradeProgress(s), Flushed, UNCHANGED main
      PROVE  ControllerOK'
  <2>1. /\ ProcOK(proc') /\ active' \in BOOLEAN /\ rollback' \in Rollbacks
        /\ UNCHANGED <<upgradability, watchers, nextId>>
    BY <1>2, ProgressType
  <2>2. ProcOK(saved') /\ errored' \in BOOLEAN
    BY <1>2, <2>1, FlushType DEF Flushed, ControllerOK
  <2> QED BY <1>2, <2>1, <2>2 DEF ControllerOK, ProcOK
<1>3. ASSUME NEW type \in ProcessTypes, MakeProcessActive(type), Flush, UNCHANGED main,
             upgradability' \in {"UNSET", "UP_TO_DATE", "AUTO_UPGRADE_POSSIBLE",
                                 "SENSOR_VERSION_HIGHER"}
      PROVE  ControllerOK'
  <2>1. /\ ProcOK(proc') /\ active' \in BOOLEAN /\ rollback' \in Rollbacks
        /\ watchers' \subseteq 1..MaxProcs /\ nextId' \in 1..(MaxProcs + 1)
    BY <1>3, StartType
  <2>2. ProcOK(saved') /\ errored' \in BOOLEAN
    BY <1>3, <2>1, FlushType
  <2> QED BY <1>3, <2>1, <2>2 DEF ControllerOK, ProcOK
<1>4. CASE Connect /\ ~ errored
  <2>1. upgradability' \in {"UP_TO_DATE", "AUTO_UPGRADE_POSSIBLE", "SENSOR_VERSION_HIGHER"}
    BY <1>4 DEF Connect, UpgradabilityOf
  <2>2. Flush /\ main' = main
    BY <1>4 DEF Connect
  <2>3. CASE MakeProcessActive("UPGRADE")
    BY <1>3, <2>1, <2>2, <2>3 DEF ProcessTypes
  <2>4. CASE NoProcessChange
    <3>1. ProcOK(proc')
      BY <2>4 DEF NoProcessChange, ControllerOK, ProcOK
    <3>2. ProcOK(saved') /\ errored' \in BOOLEAN
      BY <2>2, <3>1, FlushType
    <3> QED BY <2>1, <2>2, <2>4, <3>1, <3>2 DEF NoProcessChange, ControllerOK, ProcOK
  <2> QED BY <1>4, <2>3, <2>4 DEF Connect
<1>5. ASSUME NEW p \in 1..MaxProcs, Reconcile(p) PROVE ControllerOK'
  <2>1. CASE ~ active \/ proc.id # p
    BY <1>5, <2>1 DEF Reconcile, ControllerOK, ProcOK
  <2>2. CASE active /\ proc.id = p
    <3>1. ReconciledState \in UpgradeState
      BY <1>5, <2>2, ReconciledStates DEF Reconcile, UpgradeState, TerminalStates
    <3> QED BY <1>2, <1>5, <2>2, <3>1 DEF Reconcile, Flushed
  <2> QED BY <2>1, <2>2
<1>6. CASE Tick
  <2>1. IsProcess(proc) /\ IsProcess(saved)
    BY DEF ControllerOK, ProcOK, Process, IsProcess, Fields, Ids
  <2>2. ProcOK(Older(proc)) /\ ProcOK(Older(saved))
    BY <2>1, OlderType, OlderFacts DEF ControllerOK, ProcOK
  <2> QED BY <1>6, <2>2 DEF Tick, ControllerOK
<1>7. CASE RestartCentral
  <2>1. saved.active => saved.id \in 1..MaxProcs
    BY UpgradeAssumption DEF ControllerOK, ProcOK, Process, Ids
  <2>2. main' \in Versions /\ upgradability' = "UNSET" /\ errored' = FALSE /\ nextId' = nextId
    BY <1>7 DEF RestartCentral
  <2>3. ProcOK(proc') /\ ProcOK(saved') /\ active' \in BOOLEAN /\ rollback' \in Rollbacks
    BY <1>7 DEF RestartCentral, ControllerOK, ProcOK, Process
  <2>4. watchers' \subseteq 1..MaxProcs
    BY <1>7, <2>1 DEF RestartCentral
  <2> QED BY <2>2, <2>3, <2>4 DEF ControllerOK, ProcOK
<1>8. CASE SensorCheckIn
  <2>1. CASE ~ UNCHANGED controllerVars
    <3>1. /\ CheckInState(sproc.checkIn) # "none" /\ main' = main
          /\ SetUpgradeProgress(CheckInState(sproc.checkIn)) /\ Flush
      BY <1>8, <2>1 DEF SensorCheckIn
    <3>2. CheckInState(sproc.checkIn) \in UpgradeState
      BY <3>1, CheckInStates DEF UpgradeState, TerminalStates, RunningStates, BeforeLaunch
    <3> QED BY <1>2, <3>1, <3>2 DEF Flushed
  <2> QED BY <1>1, <1>8, <2>1 DEF SensorCheckIn
<1>9. CASE UpgraderCheckIn
  <2>1. CASE ~ UNCHANGED controllerVars
    <3> DEFINE r == [state |-> proc.state, workflow |-> upg.workflow,
                     stage |-> StageOf(upg.workflow, upg.ran), err |-> upg.err,
                     type |-> proc.type]
    <3>1. SetUpgradeProgress(NextState(r)) /\ Flushed /\ main' = main
      BY <1>9, <2>1 DEF UpgraderCheckIn, Flushed
    <3>2. r.state \in UpgradeState
      BY DEF ControllerOK, ProcOK, Process
    <3>3. NextState(r) \in UpgradeState
      BY <3>2, AnswerTypes
    <3> QED BY <1>2, <3>1, <3>3
  <2> QED BY <1>1, <1>9, <2>1 DEF UpgraderCheckIn
<1>10. ASSUME NEW type \in ProcessTypes, Trigger(type) PROVE ControllerOK'
  BY <1>3, <1>10 DEF Trigger, ControllerOK
<1> QED
  BY <1>1, <1>4, <1>5, <1>6, <1>7, <1>8, <1>9, <1>10
     DEF Next, Central, Sensor, Upgrader, Cluster, Environment, Connect, WatchConnection,
         StopConnection, SensorTrigger, SensorLaunch, SensorPoll, UpgraderRun, StopPod, StartPod,
         Disconnect, RestartSensor, RestartUpgrader, GiveUp
-----------------------------------------------------------------------------
\* The upgrader.  A prepared one has its bundle and its snapshot, as has one that has checked
\* it for a rollback, and every one that rolls back with its first deployment.
Past(w) == upg.workflow = w /\ (upg.ran >= 2 \/ (upg.ran = 1 /\ ~ upg.err))
Prepared == Past("roll-forward")
Checked == Past("roll-back")
SnapshotOK ==
    /\ upg.step = "run" => ~ upg.err
    /\ Prepared => upg.bundle # 0
    /\ Prepared \/ Checked \/ (upg.workflow = "roll-back" /\ upg.id \notin gone) => snapshot.id = upg.id

\* The stage that a running upgrader is at determines its workflow and how far it is.
LEMMA StageFacts ==
    ASSUME PodOK, upg.step = "run", NEW stage, stage = Workflows[upg.workflow][upg.ran + 1]
    PROVE  /\ stage = "prepare" => upg.workflow = "roll-forward" /\ upg.ran = 0
           /\ stage = "preflight" => upg.workflow = "roll-forward" /\ upg.ran = 1
           /\ stage = "execute" /\ upg.workflow = "roll-forward" => upg.ran = 2
           /\ stage = "execute" /\ upg.workflow = "roll-back" => upg.ran = 1
           /\ stage = "prepareRollback" => upg.workflow = "roll-back" /\ upg.ran = 0
           /\ stage = "cleanup" => upg.workflow = "cleanup"
<1>1. upg.workflow \in {"none", "roll-forward", "roll-back", "cleanup"}
  BY Lengths DEF PodOK, Pod
<1>2. CASE upg.workflow = "none"
  BY <1>2, Lengths DEF PodOK, Pod, UpgraderOK
<1>3. CASE upg.workflow = "roll-forward"
  <2>1. upg.ran \in {0, 1, 2}
    BY <1>3, Lengths DEF PodOK, Pod, UpgraderOK
  <2>2. Workflows["roll-forward"] = <<"prepare", "preflight", "execute">>
    BY DEF Workflows
  <2> QED BY <1>3, <2>1, <2>2
<1>4. CASE upg.workflow = "roll-back"
  <2>1. upg.ran \in {0, 1}
    BY <1>4, Lengths DEF PodOK, Pod, UpgraderOK
  <2>2. Workflows["roll-back"] = <<"prepareRollback", "execute">>
    BY DEF Workflows
  <2> QED BY <1>4, <2>1, <2>2
<1>5. CASE upg.workflow = "cleanup"
  <2>1. upg.ran = 0
    BY <1>5, Lengths DEF PodOK, Pod, UpgraderOK
  <2>2. Workflows["cleanup"] = <<"cleanup">>
    BY DEF Workflows
  <2> QED BY <1>5, <2>1, <2>2
<1> QED BY <1>1, <1>2, <1>3, <1>4, <1>5

\* The steps of Next, seen from the upgrader's pod.
PodQuiet == UNCHANGED clusterVars
PodNew ==
    /\ UNCHANGED sensorDeployment
    /\ \/ NoDeployment
       \/ \E p \in Ids \ {0}, type \in ProcessTypes : NewDeployment(p, type)
PodRestarts ==
    /\ upg.id # 0 /\ upg' = NewUpgrader(upg.id, upg.type)
    /\ UNCHANGED <<sensorDeployment, deployment, snapshot, gone>>

LEMMA PodKinds ==
    ASSUME TypeInv, [Next]_vars
    PROVE  PodQuiet \/ PodNew \/ PodRestarts \/ UpgraderCheckIn \/ UpgraderRun
<1> USE DEF sensorVars, vars
<1>1. CASE Central \/ Cluster \/ Tick \/ UNCHANGED vars
  BY <1>1 DEF Central, Cluster, Connect, WatchConnection, StopConnection, Reconcile, StopPod,
     StartPod, Tick, PodQuiet
<1>2. ASSUME NEW t \in triggers, SensorTrigger(t) PROVE PodQuiet \/ PodNew
  BY <1>2 DEF SensorTrigger, PodQuiet, PodNew, clusterVars
<1>3. CASE SensorLaunch
  <2>1. sproc.id \in Ids \ {0} /\ sproc.type \in ProcessTypes
    BY <1>3 DEF SensorLaunch, TypeInv, SensorOK, SensorProcess
  <2> QED BY <1>3, <2>1 DEF SensorLaunch, PodQuiet, PodNew, clusterVars
<1>4. CASE SensorPoll \/ SensorCheckIn
  BY <1>4 DEF SensorPoll, SensorCheckIn, PodQuiet, PodNew, clusterVars
<1>5. CASE RestartUpgrader
  <2>1. upg.id # 0
    BY <1>5 DEF RestartUpgrader, TypeInv, PodOK, UpgraderOK
  <2> QED BY <1>5, <2>1 DEF RestartUpgrader, PodRestarts
<1>6. CASE GiveUp
  BY <1>6 DEF GiveUp, PodNew
<1>7. CASE (\E type \in ProcessTypes : Trigger(type)) \/ Disconnect \/ RestartCentral \/ RestartSensor
  BY <1>7 DEF Trigger, Disconnect, RestartCentral, RestartSensor, PodQuiet
<1> QED
  BY <1>1, <1>2, <1>3, <1>4, <1>5, <1>6, <1>7 DEF Next, Sensor, Upgrader, Environment

\* The pods of the four kinds of step.
LEMMA PodNewFacts ==
    ASSUME TypeInv, PodNew \/ PodRestarts
    PROVE  PodOK' /\ upg'.workflow = "none" /\ upg'.step # "run" /\ UNCHANGED sensorDeployment
<1>1. CASE upg' = NoUpgrader
  <2>1. UpgraderOK'
    BY <1>1, NoUpgraderType, Lengths DEF UpgraderOK, NoUpgrader, NewUpgrader
  <2> QED BY <1>1, <2>1, NoUpgraderType DEF PodNew, PodRestarts, PodOK, Pod
<1>2. ASSUME NEW p \in Ids \ {0}, NEW type \in ProcessTypes, upg' = NewUpgrader(p, type)
      PROVE  PodOK' /\ upg'.workflow = "none" /\ upg'.step # "run"
  <2>1. upg' \in Pod /\ upg'.id # 0 /\ upg'.workflow = "none" /\ upg'.ran = 0 /\ upg'.step = "ask"
    BY <1>2, NewUpgraderType
  <2>2. UpgraderOK'
    BY <2>1, Lengths DEF UpgraderOK
  <2> QED BY <2>1, <2>2 DEF PodOK, Pod
<1>3. upg.id \in Ids /\ upg.type \in ProcessTypes
  BY DEF TypeInv, PodOK, Pod
<1> QED BY <1>1, <1>2, <1>3 DEF PodNew, PodRestarts, NoDeployment, NewDeployment

Request ==
    [state |-> proc.state, workflow |-> upg.workflow, stage |-> StageOf(upg.workflow, upg.ran),
     err |-> upg.err, type |-> proc.type]

\* A check-in: the upgrader is told to clean up, or what the table says, or hears nothing.
LEMMA CheckInFacts ==
    ASSUME TypeInv, UpgraderCheckIn
    PROVE  /\ PodOK' /\ UNCHANGED <<sensorDeployment, deployment, snapshot, gone>>
           /\ upg.step = "ask" /\ ~ errored /\ upg'.id = upg.id
           /\ \/ upg' = Instructed("cleanup") /\ UNCHANGED controllerVars
              \/ /\ active /\ proc.id = upg.id /\ SetUpgradeProgress(NextState(Request)) /\ Flushed
                 /\ upg' \in {upg, Instructed(WorkflowToExecute(Request))}
<1>1. Request.state \in UpgradeState
  BY DEF Request, TypeInv, ControllerOK, ProcOK, Process
<1>2. WorkflowToExecute(Request) \in Told /\ "cleanup" \in Told
  BY <1>1, AnswerTypes DEF Told
<1>3. /\ UNCHANGED <<sensorDeployment, deployment, snapshot, gone>> /\ upg.step = "ask" /\ ~ errored
      /\ \/ upg' = Instructed("cleanup") /\ UNCHANGED controllerVars
         \/ /\ active /\ proc.id = upg.id /\ SetUpgradeProgress(NextState(Request)) /\ Flushed
            /\ upg' \in {upg, Instructed(WorkflowToExecute(Request))}
  BY DEF UpgraderCheckIn, Flushed, Request
<1>4. upg' = upg \/ \E w \in Told : upg' = Instructed(w)
  BY <1>2, <1>3
<1>5. ASSUME upg' = upg PROVE PodOK' /\ upg'.id = upg.id
  BY <1>5 DEF TypeInv, PodOK, Pod, UpgraderOK
<1>6. ASSUME NEW w \in Told, upg' = Instructed(w) PROVE PodOK' /\ upg'.id = upg.id
  <2>1. upg \in Pod /\ UpgraderOK
    BY DEF TypeInv, PodOK
  <2>2. /\ upg' \in Pod /\ upg'.workflow = w /\ upg'.id = upg.id
        /\ upg'.ran <= Len(Workflows[w]) /\ (upg'.step = "run" => upg'.ran < Len(Workflows[w]))
        /\ upg'.step # "none"
    BY <1>6, <2>1, InstructedType
  <2>3. upg.id # 0
    BY <1>3, <2>1 DEF UpgraderOK
  <2>4. UpgraderOK'
    BY <2>2, <2>3 DEF UpgraderOK
  <2> QED BY <2>2, <2>4 DEF PodOK, Pod
<1> QED BY <1>3, <1>4, <1>5, <1>6

\* The upgrader runs a stage: the pod afterwards.
LEMMA RunKeepsPod ==
    ASSUME TypeInv, UpgraderRun
    PROVE  /\ PodOK' /\ upg.step = "run" /\ UNCHANGED <<centralVars, triggers, sensorVars>>
           /\ upg' # NoUpgrader => /\ upg'.id = upg.id /\ upg'.workflow = upg.workflow
                                   /\ upg'.ran = upg.ran + 1 /\ upg'.type = upg.type
<1>1. upg.step = "run" /\ upg \in Pod /\ UpgraderOK /\ UNCHANGED <<centralVars, triggers, sensorVars>>
  BY DEF UpgraderRun, TypeInv, PodOK
<1>2. \/ upg' = NoUpgrader
      \/ \E e \in BOOLEAN : upg' = Ran(e)
      \/ upg' = [Ran(FALSE) EXCEPT !.bundle = main]
  BY DEF UpgraderRun, RunPrepare, RunCheck, RunExecute, RunCleanup, NoDeployment
<1>3. CASE upg' = NoUpgrader
  BY <1>1, <1>3, NoUpgraderType, Lengths DEF PodOK, Pod, UpgraderOK
<1>4. ASSUME NEW e \in BOOLEAN, NEW q \in Pod, q.workflow = Ran(e).workflow, q.id = Ran(e).id,
             q.type = Ran(e).type, q.ran = Ran(e).ran, q.step = Ran(e).step, upg' = q
      PROVE  /\ PodOK' /\ upg'.id = upg.id /\ upg'.workflow = upg.workflow
             /\ upg'.ran = upg.ran + 1 /\ upg'.type = upg.type
  <2>1. /\ upg'.workflow = upg.workflow /\ upg'.id = upg.id /\ upg'.type = upg.type
        /\ upg'.ran = upg.ran + 1 /\ upg'.step = "ask" /\ upg'.ran <= Len(Workflows[upg.workflow])
    BY <1>1, <1>4, RanType
  <2>2. upg.id # 0
    BY <1>1 DEF UpgraderOK
  <2>3. UpgraderOK'
    BY <2>1, <2>2 DEF UpgraderOK
  <2> QED BY <1>4, <2>1, <2>3 DEF PodOK, Pod
<1>5. ASSUME NEW e \in BOOLEAN, upg' = Ran(e)
      PROVE  /\ PodOK' /\ upg'.id = upg.id /\ upg'.workflow = upg.workflow
             /\ upg'.ran = upg.ran + 1 /\ upg'.type = upg.type
  <2>1. Ran(e) \in Pod
    BY <1>1, RanType
  <2> QED BY <1>4, <1>5, <2>1
<1>6. CASE upg' = [Ran(FALSE) EXCEPT !.bundle = main]
  <2>1. Ran(FALSE) \in Pod /\ main \in Versions0
    BY <1>1, RanType DEF TypeInv, ControllerOK, Versions0
  <2>2. [Ran(FALSE) EXCEPT !.bundle = main] \in Pod
    BY <2>1 DEF Pod
  <2>3. /\ PodOK' /\ upg'.id = upg.id /\ upg'.workflow = upg.workflow
        /\ upg'.ran = upg.ran + 1 /\ upg'.type = upg.type
    BY <1>4, <1>6, <2>1, <2>2 DEF Pod
  <2> QED BY <1>1, <2>3
<1> QED BY <1>1, <1>2, <1>3, <1>5, <1>6
-----------------------------------------------------------------------------
\* Every step keeps the types of Central's connection and of Sensor.
LEMMA TriggerType ==
    ASSUME ProcOK(proc'), active' \in BOOLEAN PROVE TriggerOf(active', proc') \in Triggers
<1>1. 0 \in Ids
  BY UpgradeAssumption DEF Ids
<1> QED BY <1>1 DEF TriggerOf, Triggers, ProcOK, Process, ProcessTypes

LEMMA NoSprocType == NoSproc \in SensorProcess /\ NoSproc.step = "none" /\ NoSproc.id = 0
BY UpgradeAssumption DEF NoSproc, SensorProcess, Ids, ProcessTypes

LEMMA SensorStep == ASSUME TypeInv, ControllerOK', [Next]_vars PROVE SensorOK'
<1> DEFINE Conns == [version : Versions0, live : BOOLEAN]
<1>1. SensorOK /\ deployed \in Versions0 /\ NoConn \in Conns
  BY DEF TypeInv, ClusterOK, NoConn, Versions0
<1>2. TriggerOf(active', proc') \in Triggers
  BY TriggerType DEF ControllerOK
<1> USE DEF sensorVars, centralVars, vars
<1>3. CASE UNCHANGED <<conn, triggers, sensorVars>>
  BY <1>1, <1>3 DEF SensorOK
<1>4. CASE Connect
  <2>1. /\ conn' = conn \/ conn' = [version |-> running, live |-> TRUE]
        /\ triggers' = triggers \/ triggers' = {TriggerOf(active', proc')}
    BY <1>4 DEF Connect
  <2>2. conn' \in Conns
    <3>1. conn \in Conns /\ [version |-> running, live |-> TRUE] \in Conns
      BY <1>1 DEF SensorOK
    <3> QED BY <2>1, <3>1
  <2>3. triggers' \subseteq Triggers
    BY <1>1, <1>2, <2>1 DEF SensorOK
  <2> QED BY <1>1, <1>4, <2>2, <2>3 DEF Connect, SensorOK
<1>5. ASSUME Disconnected, UNCHANGED <<running, sproc>> PROVE SensorOK'
  BY <1>1, <1>5 DEF Disconnected, SensorOK
<1>6. CASE WatchConnection
  BY <1>1, <1>6 DEF WatchConnection, SensorOK
<1>7. ASSUME NEW type \in ProcessTypes, Trigger(type) PROVE SensorOK'
  BY <1>1, <1>2, <1>7 DEF Trigger, SensorOK
<1>8. CASE RestartCentral
  BY <1>1, <1>8 DEF RestartCentral, SensorOK
<1>9. ASSUME NEW t \in triggers, SensorTrigger(t) PROVE SensorOK'
  <2>1. t.id \in Ids /\ t.type \in ProcessTypes
    BY <1>1, <1>9 DEF SensorOK, Triggers
  <2>2. sproc' \in SensorProcess /\ (sproc'.step = "launch" => sproc'.id # 0)
    BY <1>1, <1>9, <2>1, NoSprocType DEF SensorTrigger, SensorOK, SensorProcess
  <2> QED BY <1>1, <1>9, <2>2 DEF SensorTrigger, SensorOK
<1>10. CASE SensorLaunch
  BY <1>1, <1>10 DEF SensorLaunch, SensorOK, SensorProcess
<1>11. CASE SensorPoll
  BY <1>1, <1>11 DEF SensorPoll, SensorOK, SensorProcess
<1>12. CASE SensorCheckIn
  BY <1>1, <1>12, NoSprocType DEF SensorCheckIn, SensorOK, SensorProcess
<1>13. CASE StopPod \/ RestartSensor
  BY <1>1, <1>13, NoSprocType DEF StopPod, RestartSensor, Disconnected, SensorOK, Versions0
<1>14. CASE StartPod
  BY <1>1, <1>14 DEF StartPod, SensorOK
<1> QED
  BY <1>3, <1>4, <1>5, <1>6, <1>7, <1>8, <1>9, <1>10, <1>11, <1>12, <1>13, <1>14
     DEF Next, Central, Sensor, Upgrader, Cluster, Environment, StopConnection, Reconcile, Tick,
         Disconnect, UpgraderCheckIn, UpgraderRun, RestartUpgrader, GiveUp

\* A step has one fault or none.
LEMMA FaultKinds == ASSUME [Next]_vars PROVE NoFault \/ \E f : Fault(f)
<1>1. Flush => NoFault \/ \E f : Fault(f)
  BY DEF Flush
<1>2. Central \/ Cluster \/ Tick \/ UNCHANGED vars => NoFault \/ Flush
  BY DEF Central, Connect, WatchConnection, StopConnection, Reconcile, Cluster, StopPod, StartPod,
     Tick, NoFault, vars
<1>3. Sensor => NoFault \/ Flush \/ \E f : Fault(f)
  BY DEF Sensor, SensorTrigger, SensorLaunch, SensorPoll, SensorCheckIn, NoFault
<1>4. Upgrader => NoFault \/ Flush \/ \E f : Fault(f)
  BY DEF Upgrader, UpgraderCheckIn, UpgraderRun, RunPrepare, RunCheck, RunExecute, RunCleanup
<1>5. Environment => NoFault \/ Flush \/ \E f : Fault(f)
  BY DEF Environment, Trigger, Disconnect, RestartCentral, RestartSensor, RestartUpgrader, GiveUp
<1> QED BY <1>1, <1>2, <1>3, <1>4, <1>5 DEF Next

\* The stages, seen from the pod and the cluster.  The plan of an execution leaves out what
\* this process has changed already, or, in a rollback, what it has not.
Cleans == NoDeployment /\ UNCHANGED sensorDeployment
Advances ==
    /\ upg'.id = upg.id /\ upg'.workflow = upg.workflow /\ upg'.type = upg.type
    /\ upg'.ran = upg.ran + 1 /\ upg'.step = "ask" /\ UNCHANGED <<deployment, gone>>
Prepares ==
    /\ upg.workflow = "roll-forward" /\ upg.ran = 0 /\ UNCHANGED sensorDeployment
    /\ snapshot' \in {snapshot, OwnSnapshot}
    /\ ~ upg'.err => upg'.bundle = main /\ snapshot' = OwnSnapshot
Executes ==
    /\ upg.workflow = "roll-forward" /\ upg.ran = 2 /\ UNCHANGED snapshot
    /\ upg'.bundle = upg.bundle
    /\ UNCHANGED sensorDeployment \/ (upg.type = "UPGRADE" /\ Update(upg.bundle))
    /\ ~ upg'.err /\ upg.type = "UPGRADE" => deployed' = upg.bundle \/ annotated = upg.id
Recovers ==
    /\ upg.workflow = "roll-back" /\ upg.ran = 1 /\ UNCHANGED snapshot
    /\ upg'.bundle = upg.bundle
    /\ UNCHANGED sensorDeployment \/ Update(snapshot.version)
Others ==
    /\ upg.workflow = "roll-forward" => upg.ran = 1
    /\ upg.workflow = "roll-back" /\ ~ upg'.err => snapshot.id = upg.id
    /\ UNCHANGED <<snapshot, sensorDeployment>> /\ upg'.bundle = upg.bundle

LEMMA StageEffects ==
    ASSUME TypeInv, UpgraderRun
    PROVE  Cleans \/ (Advances /\ (Prepares \/ Executes \/ Recovers \/ Others))
<1>1. PICK stage : stage = Workflows[upg.workflow][upg.ran + 1] /\ upg.step = "run"
  BY DEF UpgraderRun
<1>2. /\ stage = "prepare" => upg.workflow = "roll-forward" /\ upg.ran = 0
      /\ stage = "preflight" => upg.workflow = "roll-forward" /\ upg.ran = 1
      /\ stage = "execute" /\ upg.workflow = "roll-forward" => upg.ran = 2
      /\ stage = "execute" /\ upg.workflow = "roll-back" => upg.ran = 1
      /\ stage = "prepareRollback" => upg.workflow = "roll-back" /\ upg.ran = 0
      /\ stage = "cleanup" => upg.workflow = "cleanup"
  BY <1>1, StageFacts DEF TypeInv
<1>3. ASSUME NEW e \in BOOLEAN
      PROVE  /\ Ran(e).id = upg.id /\ Ran(e).workflow = upg.workflow /\ Ran(e).type = upg.type
             /\ Ran(e).ran = upg.ran + 1 /\ Ran(e).step = "ask" /\ Ran(e).err = e
             /\ Ran(e).bundle = upg.bundle /\ Ran(e) \in Pod
  BY <1>1, <1>3, RanType DEF TypeInv, PodOK
<1>4. ASSUME NEW e \in BOOLEAN, upg' = Ran(e), UNCHANGED <<deployment, gone>>
      PROVE  Advances /\ upg'.bundle = upg.bundle /\ upg'.err = e
  BY <1>3, <1>4 DEF Advances
<1>5. CASE stage = "prepare" /\ RunPrepare
  <2>1. CASE upg' = [Ran(FALSE) EXCEPT !.bundle = main] /\ snapshot' = OwnSnapshot
    <3>1. Advances /\ upg'.bundle = main
      BY <1>3, <1>5, <2>1 DEF RunPrepare, Advances, Pod
    <3> QED BY <1>2, <1>5, <2>1, <3>1 DEF RunPrepare, Prepares
  <2>2. CASE upg' = Ran(TRUE) /\ snapshot' \in {snapshot, OwnSnapshot}
    BY <1>2, <1>4, <1>5, <2>2 DEF RunPrepare, Prepares
  <2> QED BY <1>5, <2>1, <2>2 DEF RunPrepare
<1>6. ASSUME NEW ok, stage \in {"preflight", "prepareRollback"}, RunCheck(ok),
             stage = "prepareRollback" => (ok <=> snapshot.id = upg.id)
      PROVE  Advances /\ Others
  <2>1. PICK e \in BOOLEAN : upg' = Ran(e) /\ (~ e => ok)
    BY <1>6 DEF RunCheck
  <2>2. Advances /\ upg'.bundle = upg.bundle /\ upg'.err = e
    BY <1>4, <1>6, <2>1 DEF RunCheck
  <2> QED BY <1>2, <1>6, <2>1, <2>2 DEF RunCheck, Others
<1>7. ASSUME NEW v, RunExecute(v)
      PROVE  /\ Advances /\ upg'.bundle = upg.bundle /\ UNCHANGED snapshot
             /\ UNCHANGED sensorDeployment \/ (Updates(v) /\ Update(v))
             /\ ~ upg'.err => (Updates(v) => Update(v))
  <2>1. PICK e \in BOOLEAN :
             /\ upg' = Ran(e) /\ (UNCHANGED sensorDeployment \/ (Updates(v) /\ Update(v)))
             /\ ~ e => (Updates(v) => Update(v))
    BY <1>7 DEF RunExecute
  <2> QED BY <1>4, <1>7, <2>1 DEF RunExecute
<1>8. CASE /\ stage = "execute" /\ upg.workflow = "roll-forward"
           /\ RunExecute(IF upg.type = "UPGRADE" THEN upg.bundle ELSE deployed)
  <2> DEFINE v == IF upg.type = "UPGRADE" THEN upg.bundle ELSE deployed
  <2>1. /\ Advances /\ upg'.bundle = upg.bundle /\ UNCHANGED snapshot
        /\ UNCHANGED sensorDeployment \/ (Updates(v) /\ Update(v))
        /\ ~ upg'.err => (Updates(v) => Update(v))
    BY <1>7, <1>8
  <2>2. CASE upg.type = "UPGRADE"
    <3>1. ~ upg'.err => deployed' = upg.bundle \/ annotated = upg.id
      <4>1. v = upg.bundle /\ upg.workflow # "roll-back"
        BY <1>8, <2>2
      <4>2. CASE Updates(v)
        BY <2>1, <4>1, <4>2 DEF Update
      <4>3. CASE ~ Updates(v)
        BY <2>1, <4>1, <4>3 DEF Updates, sensorDeployment
      <4> QED BY <4>2, <4>3
    <3> QED BY <1>2, <1>8, <2>1, <2>2, <3>1 DEF Executes
  <2>3. CASE upg.type # "UPGRADE"
    <3>1. ~ Updates(v)
      BY <2>3 DEF Updates
    <3> QED BY <1>2, <1>8, <2>1, <2>3, <3>1 DEF Executes
  <2> QED BY <2>2, <2>3
<1>9. CASE stage = "execute" /\ upg.workflow = "roll-back" /\ RunExecute(snapshot.version)
  BY <1>2, <1>7, <1>9 DEF Recovers
<1>10. CASE stage = "cleanup" /\ RunCleanup
  BY <1>2, <1>4, <1>10 DEF RunCleanup, Cleans, Others
<1>11. \/ stage = "prepare" /\ RunPrepare
       \/ /\ stage \in {"preflight", "prepareRollback"}
          /\ \E ok : RunCheck(ok) /\ (stage = "prepareRollback" => (ok <=> snapshot.id = upg.id))
       \/ /\ stage = "execute" /\ upg.workflow = "roll-forward"
          /\ RunExecute(IF upg.type = "UPGRADE" THEN upg.bundle ELSE deployed)
       \/ stage = "execute" /\ upg.workflow = "roll-back" /\ RunExecute(snapshot.version)
       \/ stage = "cleanup" /\ RunCleanup
  BY <1>1, Zenon DEF UpgraderRun
<1> QED BY <1>5, <1>6, <1>8, <1>9, <1>10, <1>11

\* The cluster after a step: no prepared upgrader deploys, and none that has checked its
\* snapshot restores, anything but a version.
LEMMA NoDeploymentType ==
    ASSUME TypeInv, NoDeployment \/ \E p \in Ids \ {0}, type \in ProcessTypes : NewDeployment(p, type)
    PROVE  /\ deployment' \in Ids /\ gone' \subseteq 1..MaxProcs
           /\ snapshot' = NoSnapshot /\ NoSnapshot \in [id : Ids, version : Versions0]
           /\ upg'.id \in {0, deployment'}
<1>1. 0 \in Ids /\ 0 \in Versions0 /\ deployment \in Ids /\ gone \subseteq 1..MaxProcs
  BY UpgradeAssumption DEF Ids, Versions0, TypeInv, ClusterOK
<1>2. NoUpgrader.id = 0
  BY NoUpgraderType
<1>3. ASSUME NEW q, NEW type PROVE NewUpgrader(q, type).id = q
  BY DEF NewUpgrader
<1>4. NoSnapshot \in [id : Ids, version : Versions0]
  BY <1>1 DEF NoSnapshot
<1>5. gone \cup ({deployment} \ {0}) \subseteq 1..MaxProcs
  BY <1>1, UpgradeAssumption DEF Ids
<1>6. CASE NoDeployment
  BY <1>1, <1>2, <1>4, <1>5, <1>6 DEF NoDeployment
<1>7. ASSUME NEW q \in Ids \ {0}, NEW type, NewDeployment(q, type)
      PROVE  /\ deployment' = q /\ upg'.id = q /\ snapshot' = NoSnapshot
             /\ gone' = gone \cup ({deployment} \ {0})
  BY <1>3, <1>7 DEF NewDeployment
<1> QED BY <1>4, <1>5, <1>6, <1>7

LEMMA RunFacts ==
    ASSUME TypeInv, SnapshotOK, UpgraderRun, faults' \in 0..MaxFaults PROVE ClusterOK'
<1>1. upg.step = "run" /\ (Cleans \/ (Advances /\ (Prepares \/ Executes \/ Recovers \/ Others)))
  BY StageEffects DEF UpgraderRun
<1>2. /\ deployed \in Versions /\ deployment \in Ids /\ annotated \in Ids /\ gone \subseteq 1..MaxProcs
      /\ snapshot \in [id : Ids, version : Versions0] /\ (snapshot.id # 0 => snapshot.version # 0)
      /\ snapshot.id \in {0, deployment} /\ upg.id = deployment
      /\ upg.id \in Ids /\ upg.id # 0 /\ upg.bundle \in Versions0 /\ upg.ran \in 0..3
  BY <1>1 DEF TypeInv, ClusterOK, PodOK, Pod, UpgraderOK
<1>3. OwnSnapshot \in [id : Ids, version : Versions0] /\ OwnSnapshot.version # 0
      /\ OwnSnapshot.id = upg.id
  BY <1>2, UpgradeAssumption DEF OwnSnapshot, Versions0
<1>4. CASE Cleans
  BY <1>2, <1>4, NoDeploymentType DEF Cleans, sensorDeployment, ClusterOK, NoSnapshot
<1>5. CASE Advances /\ Prepares
  BY <1>2, <1>3, <1>5 DEF Advances, Prepares, sensorDeployment, ClusterOK
<1>6. CASE Advances /\ Executes
  <2>1. upg.bundle \in Versions
    BY <1>2, <1>6 DEF SnapshotOK, Prepared, Past, Executes, Versions0
  <2> QED BY <1>2, <1>6, <2>1 DEF Advances, Executes, Update, sensorDeployment, ClusterOK
<1>7. CASE Advances /\ Recovers
  <2>1. Checked
    BY <1>1, <1>7 DEF SnapshotOK, Checked, Past, Recovers
  <2>2. snapshot.version \in Versions
    BY <1>2, <2>1 DEF SnapshotOK, Versions0
  <2> QED BY <1>2, <1>7, <2>2 DEF Advances, Recovers, Update, sensorDeployment, ClusterOK
<1>8. CASE Advances /\ Others
  BY <1>2, <1>8 DEF Advances, Others, sensorDeployment, ClusterOK
<1> QED BY <1>1, <1>4, <1>5, <1>6, <1>7, <1>8

\* Every step keeps the types of the cluster.
LEMMA ClusterStep == ASSUME TypeInv, SnapshotOK, [Next]_vars PROVE ClusterOK'
<1>1. faults' \in 0..MaxFaults
  BY FaultKinds, FaultType DEF TypeInv, ClusterOK
<1>2. ClusterOK
  BY DEF TypeInv
<1>3. CASE UpgraderRun
  BY <1>1, <1>3, RunFacts
<1>4. CASE PodQuiet
  BY <1>1, <1>2, <1>4
     DEF PodQuiet, clusterVars, sensorDeployment, upgraderDeployment, ClusterOK
<1>5. CASE PodNew
  BY <1>1, <1>2, <1>5, NoDeploymentType
     DEF PodNew, sensorDeployment, NoSnapshot, ClusterOK
<1>6. CASE PodRestarts
  <2>1. upg'.id = upg.id
    BY <1>6 DEF PodRestarts, NewUpgrader
  <2> QED BY <1>1, <1>2, <1>6, <2>1 DEF PodRestarts, sensorDeployment, ClusterOK
<1>7. CASE UpgraderCheckIn
  BY <1>1, <1>2, <1>7, CheckInFacts DEF sensorDeployment, ClusterOK
<1> QED BY <1>3, <1>4, <1>5, <1>6, <1>7, PodKinds

\* The types hold initially, and every step keeps them.
LEMMA TypeInit == Init => TypeInv
<1> SUFFICES ASSUME Init PROVE TypeInv
  OBVIOUS
<1>1. 0 \in Ids /\ 0 \in Versions0 /\ running \in Versions0
  BY UpgradeAssumption DEF Init, Ids, Versions0
<1>2. ControllerOK
  <2>1. ProcOK(NoProc)
    BY NoProcType DEF ProcOK
  <2>2. nextId \in 1..(MaxProcs + 1)
    BY UpgradeAssumption DEF Init
  <2>3. rollback \in Rollbacks
    BY DEF Init, Rollbacks
  <2> QED BY <2>1, <2>2, <2>3 DEF Init, ControllerOK
<1>3. PodOK
  BY NoUpgraderType, Lengths DEF Init, PodOK, UpgraderOK
<1>4. SensorOK
  BY <1>1, NoSprocType DEF Init, SensorOK, NoConn
<1>5. ClusterOK
  BY <1>1, NoUpgraderType, UpgradeAssumption DEF Init, ClusterOK, NoSnapshot
<1> QED BY <1>2, <1>3, <1>4, <1>5 DEF TypeInv

LEMMA TypeStep == ASSUME TypeInv, SnapshotOK, [Next]_vars PROVE TypeInv'
<1>1. PodOK'
  <2>1. CASE PodQuiet
    BY <2>1 DEF PodQuiet, clusterVars, upgraderDeployment, TypeInv, PodOK, Pod, UpgraderOK
  <2> QED BY <2>1, PodKinds, PodNewFacts, CheckInFacts, RunKeepsPod
<1> QED BY <1>1, ControllerStep, SensorStep, ClusterStep DEF TypeInv
-----------------------------------------------------------------------------
\* The rows of the table that concern a rollback.
LEMMA RollbackRows ==
    ASSUME NEW i \in Rows,
           AllTransitions[i].next = "ROLLING_BACK" \/ AllTransitions[i].execute = "roll-back"
    PROVE  i \in {3, 10, 11, 12}
<1>1. i \in {3, 10, 11, 12} \/ i \in {1, 2, 4, 5, 6, 7, 8, 9, 13, 14, 15}
  BY RowsAre
<1>2. CASE i \in {1, 2, 4, 5, 6}
  BY <1>2, Table DEF Leads, Same
<1>3. CASE i \in {7, 8, 9, 13, 14, 15}
  BY <1>3, Table DEF Leads, Same
<1> QED BY <1>1, <1>2, <1>3

LEMMA RollbackMatches ==
    ASSUME NEW r
    PROVE  /\ r \in AllTransitions[3].match => r.state = "ROLLING_BACK"
           /\ r \in AllTransitions[10].match => r.workflow = "roll-forward" /\ r.stage = "execute"
           /\ r \in AllTransitions[11].match => r.workflow = "roll-back"
           /\ r \in AllTransitions[12].match => r.workflow = "roll-back"
<1>1. r \in AllTransitions[3].match => r.state = "ROLLING_BACK"
  BY DEF AllTransitions, To, When, On
<1>2. r \in AllTransitions[10].match => r.workflow = "roll-forward" /\ r.stage = "execute"
  BY DEF AllTransitions, To, When, On
<1>3. r \in AllTransitions[11].match => r.workflow = "roll-back"
  BY DEF AllTransitions, To, When, On
<1>4. r \in AllTransitions[12].match => r.workflow = "roll-back"
  BY DEF AllTransitions, To, When, On
<1> QED BY <1>1, <1>2, <1>3, <1>4

\* The answers of the table that concern a rollback: it was going on, the execution has
\* failed, or the upgrader rolls back already.
LEMMA RollbackAnswers ==
    ASSUME NEW r, NextState(r) = "ROLLING_BACK" \/ WorkflowToExecute(r) = "roll-back"
    PROVE  \/ r.state = "ROLLING_BACK"
           \/ r.workflow = "roll-forward" /\ r.stage = "execute"
           \/ r.workflow = "roll-back"
<1>1. CASE Matching(r) = {}
  BY <1>1 DEF NextState, WorkflowToExecute
<1>2. CASE Matching(r) # {}
  <2> DEFINE i == FirstMatch(r)
  <2>1. i \in Rows /\ r \in AllTransitions[i].match
    BY <1>2, First
  <2>2. \/ r.state = "ROLLING_BACK"
        \/ AllTransitions[i].next = "ROLLING_BACK"
        \/ AllTransitions[i].execute = "roll-back"
    BY <1>2 DEF NextState, WorkflowToExecute
  <2> HIDE DEF i
  <2>3. r.state = "ROLLING_BACK" \/ i \in {3, 10, 11, 12}
    BY <2>1, <2>2, RollbackRows
  <2> QED BY <2>1, <2>3, RollbackMatches
<1> QED BY <1>1, <1>2

\* A process is rolling back only when its upgrader has stored the snapshot, which may be gone
\* with its deployment; no upgrader of another process is at work then.
RollbackOK(p) ==
    p.state = "ROLLING_BACK" =>
        /\ p.active /\ (snapshot.id = p.id \/ p.id \in gone)
        /\ upg.id # p.id => upg.workflow \in {"none", "cleanup"}

SnapshotInv == TypeInv /\ ProcessInv /\ SnapshotOK /\ RollbackOK(proc) /\ RollbackOK(saved)

\* The upgrader of the active process that asks at the end of its execution has prepared it.
LEMMA ExecuteStage ==
    ASSUME PodOK, StageOf(upg.workflow, upg.ran) = "execute", upg.workflow = "roll-forward"
    PROVE  upg.ran = 3
<1>1. upg.ran \in 0..3
  BY DEF PodOK, Pod
<1>2. Workflows["roll-forward"] = <<"prepare", "preflight", "execute">>
  BY DEF Workflows
<1> QED BY <1>1, <1>2 DEF StageOf

LEMMA RollbackRequest ==
    ASSUME SnapshotInv, active, proc.id = upg.id,
           NextState(Request) = "ROLLING_BACK" \/ WorkflowToExecute(Request) = "roll-back"
    PROVE  snapshot.id = upg.id \/ upg.id \in gone
<1>1. \/ proc.state = "ROLLING_BACK"
      \/ upg.workflow = "roll-forward" /\ StageOf(upg.workflow, upg.ran) = "execute"
      \/ upg.workflow = "roll-back"
  <2>1. /\ Request.state = proc.state /\ Request.workflow = upg.workflow
        /\ Request.stage = StageOf(upg.workflow, upg.ran)
    BY DEF Request
  <2> QED BY <2>1, RollbackAnswers
<1>2. CASE upg.workflow = "roll-forward" /\ StageOf(upg.workflow, upg.ran) = "execute"
  <2>1. Prepared
    BY <1>2, ExecuteStage DEF SnapshotInv, TypeInv, Prepared, Past
  <2> QED BY <2>1 DEF SnapshotInv, SnapshotOK
<1> QED BY <1>1, <1>2 DEF SnapshotInv, SnapshotOK, RollbackOK

\* An instruction keeps what the upgrader has prepared.
LEMMA InstructedFacts ==
    ASSUME SnapshotInv, NEW w \in Told, upg' = Instructed(w), UNCHANGED <<snapshot, gone>>,
           w = "roll-back" => snapshot.id = upg.id \/ upg.id \in gone
    PROVE  SnapshotOK' /\ upg'.id = upg.id /\ upg'.workflow = w /\ (Prepared' => Prepared)
<1>1. /\ upg' \in Pod /\ upg'.workflow = w /\ upg'.id = upg.id /\ upg'.err = FALSE
      /\ upg'.bundle = upg.bundle
      /\ upg'.ran # 0 => w = upg.workflow /\ ~ upg.err /\ upg'.ran = upg.ran
  BY InstructedType DEF SnapshotInv, TypeInv, PodOK
<1>2. (Prepared' => Prepared) /\ (Checked' => Checked)
  BY <1>1 DEF Prepared, Checked, Past
<1>3. SnapshotOK'
  BY <1>1, <1>2 DEF SnapshotInv, SnapshotOK
<1> QED BY <1>1, <1>2, <1>3

\* Every step keeps the snapshot of an upgrader that may need it.
LEMMA SnapshotStep == ASSUME SnapshotInv, [Next]_vars PROVE SnapshotOK'
<1>1. CASE PodQuiet
  BY <1>1
     DEF PodQuiet, clusterVars, upgraderDeployment, SnapshotInv, SnapshotOK, Prepared, Checked, Past
<1>2. CASE PodNew \/ PodRestarts
  <2>1. upg'.workflow = "none" /\ upg'.step # "run"
    BY <1>2, PodNewFacts DEF SnapshotInv
  <2> QED BY <2>1 DEF SnapshotOK, Prepared, Checked, Past
<1>3. CASE UpgraderCheckIn
  <2>1. UNCHANGED <<snapshot, gone>> /\ Request.state \in UpgradeState
    BY <1>3, CheckInFacts DEF SnapshotInv, Request, TypeInv, ControllerOK, ProcOK, Process
  <2>2. CASE upg' = upg
    BY <2>1, <2>2 DEF SnapshotInv, SnapshotOK, Prepared, Checked, Past
  <2>3. CASE upg' = Instructed("cleanup")
    BY <2>1, <2>3, InstructedFacts DEF Told
  <2>4. CASE active /\ proc.id = upg.id /\ upg' = Instructed(WorkflowToExecute(Request))
    BY <2>1, <2>4, InstructedFacts, AnswerTypes, RollbackRequest
  <2> QED BY <1>3, <2>2, <2>3, <2>4, CheckInFacts DEF SnapshotInv
<1>4. CASE UpgraderRun
  <2>1. /\ upg.step = "run" /\ ~ upg.err /\ upg.ran \in 0..3 /\ main # 0
        /\ Cleans \/ (Advances /\ (Prepares \/ Executes \/ Recovers \/ Others))
    BY <1>4, StageEffects, UpgradeAssumption
       DEF SnapshotInv, SnapshotOK, TypeInv, PodOK, Pod, ControllerOK, UpgraderRun
  <2>2. CASE Cleans
    BY <2>2, NoUpgraderType DEF Cleans, NoDeployment, SnapshotOK, Prepared, Checked, Past
  <2>3. CASE Advances /\ Prepares
    <3>1. OwnSnapshot.id = upg.id
      BY DEF OwnSnapshot
    <3> QED BY <2>1, <2>3, <3>1 DEF Advances, Prepares, SnapshotOK, Prepared, Checked, Past
  <2>4. CASE Advances /\ (Executes \/ Recovers \/ Others)
    <3>1. /\ Prepared' => Prepared
          /\ Checked' => Checked \/ snapshot.id = upg.id
      BY <2>1, <2>4 DEF Advances, Executes, Recovers, Others, Prepared, Checked, Past
    <3> QED BY <2>4, <3>1 DEF Advances, Executes, Recovers, Others, SnapshotOK, SnapshotInv
  <2> QED BY <2>1, <2>2, <2>3, <2>4
<1> QED BY <1>1, <1>2, <1>3, <1>4, PodKinds DEF SnapshotInv

\* Steps other than check-ins of the upgrader let no process roll back that did not before.
Heir(p, q) ==
    p.state = "ROLLING_BACK" =>
        q.state = "ROLLING_BACK" /\ p.id = q.id /\ p.active = q.active

LEMMA Inherits ==
    ASSUME ProcessInv, [Next]_vars, ~ UpgraderCheckIn
    PROVE  /\ Heir(proc', proc) \/ Heir(proc', saved)
           /\ Heir(saved', proc) \/ Heir(saved', saved)
<1>1. CASE Idle \/ Refresh \/ Reload
  BY <1>1 DEF Idle, Refresh, NoProcessChange, Flush, Reload, Heir
<1>2. CASE Age
  BY <1>2, OlderFacts DEF Age, Heir, ProcessInv
<1>3. CASE Start
  <2>1. proc'.state = "INITIALIZING"
    BY <1>3 DEF Start, MakeProcessActive, NoProc
  <2> QED BY <1>3, <2>1 DEF Start, Flush, Heir
<1>4. CASE Progress
  <2>1. PICK s : SetUpgradeProgress(s) /\ Reported(s)
    BY <1>4 DEF Progress
  <2>2. proc'.state = s /\ s # "ROLLING_BACK"
    BY <2>1, InStateFacts DEF SetUpgradeProgress, ProcessInv, Reported
  <2> QED BY <1>4, <2>2 DEF Progress, Flushed, Flush, Heir
<1> QED BY <1>1, <1>2, <1>3, <1>4, StepsOfNext

\* Every step keeps the snapshot of a process that is rolling back.
LEMMA RollbackStep ==
    ASSUME SnapshotInv, [Next]_vars PROVE RollbackOK(proc)' /\ RollbackOK(saved)'
<1>1. CASE ~ UpgraderCheckIn
  <2>1. ASSUME NEW q \in {proc, saved}, q.state = "ROLLING_BACK"
        PROVE  /\ q.active /\ (snapshot'.id = q.id \/ q.id \in gone')
               /\ upg'.id # q.id => upg'.workflow \in {"none", "cleanup"}
    <3>1. /\ q.active /\ (snapshot.id = q.id \/ q.id \in gone)
          /\ upg.id # q.id => upg.workflow \in {"none", "cleanup"}
      BY <2>1 DEF SnapshotInv, RollbackOK
    <3>2. CASE PodQuiet
      BY <3>1, <3>2 DEF PodQuiet, clusterVars, upgraderDeployment
    <3>3. ASSUME gone' = gone \cup ({deployment} \ {0}) PROVE q.id \in gone'
      <4>1. q.id # 0 /\ snapshot.id \in {0, deployment}
        BY <3>1 DEF SnapshotInv, TypeInv, ControllerOK, ProcOK, ClusterOK
      <4> QED BY <3>1, <3>3, <4>1
    <3>4. CASE PodNew
      <4>1. gone' = gone \cup ({deployment} \ {0})
        BY <3>4 DEF PodNew, NoDeployment, NewDeployment
      <4> QED BY <3>1, <3>3, <3>4, <4>1, PodNewFacts DEF SnapshotInv
    <3>5. CASE PodRestarts
      BY <3>1, <3>5, PodNewFacts DEF PodRestarts, SnapshotInv
    <3>6. CASE UpgraderRun
      <4>1. Cleans \/ (Advances /\ (Prepares \/ Executes \/ Recovers \/ Others))
        BY <3>6, StageEffects DEF SnapshotInv
      <4>2. CASE Cleans
        BY <3>1, <3>3, <4>2, NoUpgraderType DEF Cleans, NoDeployment
      <4>3. CASE Advances /\ Prepares
        BY <3>1, <4>3 DEF Advances, Prepares, OwnSnapshot
      <4>4. CASE Advances /\ (Executes \/ Recovers \/ Others)
        BY <3>1, <4>4 DEF Advances, Executes, Recovers, Others
      <4> QED BY <4>1, <4>2, <4>3, <4>4
    <3> QED BY <1>1, <3>2, <3>4, <3>5, <3>6, PodKinds DEF SnapshotInv
  <2>2. /\ Heir(proc', proc) \/ Heir(proc', saved)
        /\ Heir(saved', proc) \/ Heir(saved', saved)
    BY <1>1, Inherits DEF SnapshotInv
  <2> QED BY <2>1, <2>2 DEF Heir, RollbackOK
<1>2. CASE UpgraderCheckIn
  <2>1. /\ UNCHANGED <<snapshot, gone>> /\ ~ errored /\ upg'.id = upg.id
        /\ \/ upg' = Instructed("cleanup") /\ UNCHANGED controllerVars
           \/ /\ active /\ proc.id = upg.id /\ SetUpgradeProgress(NextState(Request)) /\ Flushed
              /\ upg' \in {upg, Instructed(WorkflowToExecute(Request))}
    BY <1>2, CheckInFacts DEF SnapshotInv
  <2>2. CASE upg' = Instructed("cleanup") /\ UNCHANGED controllerVars
    <3>1. upg'.workflow = "cleanup"
      BY <2>2, InstructedType DEF SnapshotInv, TypeInv, PodOK, Told
    <3> QED BY <2>1, <2>2, <3>1 DEF controllerVars, SnapshotInv, RollbackOK
  <2>3. CASE /\ active /\ proc.id = upg.id /\ SetUpgradeProgress(NextState(Request)) /\ Flushed
             /\ upg' \in {upg, Instructed(WorkflowToExecute(Request))}
    <3>2. saved = proc /\ proc.active
      BY <2>1, <2>3 DEF SnapshotInv, ProcessInv
    <3>3. /\ proc'.id = proc.id /\ proc'.state = NextState(Request)
          /\ proc'.active = (proc.active /\ NextState(Request) \notin TerminalStates)
      BY <2>3, InStateFacts DEF SetUpgradeProgress, SnapshotInv, ProcessInv
    <3>4. RollbackOK(proc)'
      BY <2>1, <2>3, <3>2, <3>3, RollbackRequest DEF RollbackOK, TerminalStates
    <3>5. saved' = proc' \/ saved' = proc
      BY <2>3, <3>2 DEF Flushed, Flush
    <3>6. RollbackOK(saved)'
      BY <2>1, <2>3, <3>2, <3>4, <3>5 DEF RollbackOK, SnapshotInv
    <3> QED BY <3>4, <3>6
  <2> QED BY <2>1, <2>2, <2>3
<1> QED BY <1>1, <1>2

LEMMA SnapshotInit == Init => SnapshotInv
<1>1. Init => SnapshotOK
  BY NoUpgraderType DEF Init, SnapshotOK, Prepared, Checked, Past
<1>2. Init => RollbackOK(proc) /\ RollbackOK(saved)
  BY DEF Init, NoProc, RollbackOK
<1> QED BY <1>1, <1>2, TypeInit, InitInv DEF SnapshotInv

LEMMA SnapshotKept == SnapshotInv /\ [Next]_vars => SnapshotInv'
BY TypeStep, StepKeeps, SnapshotStep, RollbackStep DEF SnapshotInv

LEMMA SnapshotInvariance == Spec => []SnapshotInv
BY SnapshotInit, SnapshotKept, PTL DEF Spec

\* Type correctness: the variables have their types, and only a process that initializes
\* lacks the time that maybeTimeoutUpgrade reads.
THEOREM TypeCorrect == Spec => []TypeOK
<1>1. SnapshotInv => TypeOK
  BY TypeParts DEF SnapshotInv
<1> QED BY <1>1, SnapshotInvariance, PTL

\* An upgrader that is told to roll back (SnapshotForRollbackStage) finds the snapshot of
\* its process, whatever restarts, lost answers and failed writes have happened, unless an
\* earlier deployment of its upgrader was deleted, and the snapshot with it.
THEOREM RollbackFindsSnapshot == Spec => []RollbackHasSnapshot
<1>1. SnapshotInv => RollbackHasSnapshot
  <2> SUFFICES ASSUME SnapshotInv, upg.workflow = "roll-back", upg.id \notin gone
               PROVE  snapshot.id = upg.id /\ snapshot.version # 0
    BY DEF RollbackHasSnapshot
  <2>1. upg.id # 0
    BY NoUpgraderType DEF SnapshotInv, TypeInv, PodOK, UpgraderOK
  <2> QED BY <2>1 DEF SnapshotInv, SnapshotOK, TypeInv, ClusterOK
<1> QED BY <1>1, SnapshotInvariance, PTL
-----------------------------------------------------------------------------
\* Completion, as long as every write to the database succeeds.

\* The rows of the table that end the operations, and those that leave the state alone.
LEMMA DoneRows ==
    ASSUME NEW i \in Rows
    PROVE  /\ AllTransitions[i].next = "OPERATIONS_DONE" => i = 8
           /\ AllTransitions[i].next = "COMPLETE" => i = 9
           /\ AllTransitions[i].next = Same => AllTransitions[i].execute = "cleanup"
<1>1. i \in 1..15
  BY RowsAre
<1>2. CASE i \in {1, 2, 3, 4, 5}
  BY <1>2, Table DEF Leads, Same
<1>3. CASE i \in {6, 7, 8, 9, 10}
  BY <1>3, Table DEF Leads, Same
<1>4. CASE i \in {11, 12, 13, 14, 15}
  BY <1>4, Table DEF Leads, Same
<1> QED BY <1>1, <1>2, <1>3, <1>4

LEMMA DoneMatches ==
    ASSUME NEW r
    PROVE  /\ r \in AllTransitions[8].match =>
                r.workflow = "roll-forward" /\ r.stage = "execute" /\ r.err = FALSE
           /\ r \in AllTransitions[9].match => r.type = "CERT_ROTATION"
<1>1. r \in AllTransitions[8].match =>
         r.workflow = "roll-forward" /\ r.stage = "execute" /\ r.err = FALSE
  BY DEF AllTransitions, To, When, On
<1>2. r \in AllTransitions[9].match => r.type = "CERT_ROTATION"
  BY DEF AllTransitions, To, When, On
<1> QED BY <1>1, <1>2

LEMMA DoneAnswers ==
    ASSUME NEW r, r.type = "UPGRADE", r.state # "COMPLETE",
           NextState(r) \in {"OPERATIONS_DONE", "COMPLETE"}
    PROVE  /\ NextState(r) = "OPERATIONS_DONE"
           /\ \/ r.state = "OPERATIONS_DONE" /\ WorkflowToExecute(r) = "cleanup"
              \/ /\ r.workflow = "roll-forward" /\ r.stage = "execute" /\ r.err = FALSE
                 /\ WorkflowToExecute(r) = "roll-forward"
<1>1. CASE Matching(r) = {}
  BY <1>1 DEF NextState, WorkflowToExecute
<1>2. CASE Matching(r) # {}
  <2> DEFINE i == FirstMatch(r)
  <2>1. i \in Rows /\ r \in AllTransitions[i].match
    BY <1>2, First
  <2>2. /\ NextState(r) = IF AllTransitions[i].next = Same THEN r.state ELSE AllTransitions[i].next
        /\ WorkflowToExecute(r) = AllTransitions[i].execute
    BY <1>2 DEF NextState, WorkflowToExecute
  <2> HIDE DEF i
  <2>3. CASE AllTransitions[i].next = Same
    BY <2>1, <2>2, <2>3, DoneRows
  <2>4. CASE AllTransitions[i].next = "OPERATIONS_DONE"
    <3>1. i = 8
      BY <2>1, <2>4, DoneRows
    <3>2. AllTransitions[8].execute = "roll-forward"
      BY Table DEF Leads
    <3>3. NextState(r) = "OPERATIONS_DONE"
      BY <2>2, <2>4 DEF Same
    <3> QED BY <2>1, <2>2, <3>1, <3>2, <3>3, DoneMatches
  <2>5. CASE AllTransitions[i].next = "COMPLETE"
    BY <2>1, <2>5, DoneRows, DoneMatches
  <2> QED BY <2>2, <2>3, <2>4, <2>5
<1> QED BY <1>1, <1>2

\* Sensor, the upgrader and the triggers on their way know no process that the controller
\* has not made, and the type of the most recent one.
Known(x) == x.id \in 0..(nextId - 1) /\ (x.id = proc.id => x.type = proc.type)
Done == upg.workflow = "roll-forward" /\ upg.ran = 3 /\ ~ upg.err
IsDone(p) == p.type = "UPGRADE" /\ p.state \in {"OPERATIONS_DONE", "COMPLETE"}

KnownOK ==
    /\ annotated < nextId /\ Known(NoSproc) /\ Known(sproc) /\ Known(upg)
    /\ \A t \in triggers : Known(t)

\* The bundle that an upgrader has prepared is what Central offered, which is not older than
\* the target.
BundleOK ==
    /\ main >= proc.target
    /\ Prepared /\ upg.id = proc.id => upg.bundle >= proc.target

\* The most recent process has begun its rollback when it is in that state, and when its
\* upgrader works on it; from then on its upgrader rolls forward no further.
Begun == rollback[proc.id] # "no"
Abandoned == rollback[proc.id] = "abandoned"
Own(w) == upg.id = proc.id /\ proc.id # 0 /\ upg.workflow = w
BegunOK ==
    /\ proc.state = "ROLLING_BACK" => Begun
    /\ Own("roll-back") => Begun
    /\ Own("roll-forward") /\ Begun => Abandoned \/ (upg.ran = 3 /\ upg.err)

\* Sensor's deployment carries the annotation of the most recent upgrade, or its upgrader is
\* done: then it has at least the target version, but for rollbacks.
AnnotatedOK ==
    proc.type = "UPGRADE" =>
        /\ annotated = proc.id => Begun \/ deployed >= proc.target
        /\ Own("roll-forward") /\ Done => Abandoned \/ deployed >= proc.target

\* After its end, no upgrader changes the deployment any more.
DoneOK ==
    IsDone(proc) =>
        \/ Abandoned
        \/ /\ deployed >= proc.target
           /\ upg.workflow \in {"none", "cleanup"} \/ (upg.id = proc.id /\ Done)

DeployedInv ==
    SnapshotInv /\ ~ errored /\ KnownOK /\ BundleOK /\ BegunOK /\ AnnotatedOK /\ DoneOK

\* The steps of Next, seen from the most recent process: it stays, or there is a new one.
Stays ==
    /\ proc'.id = proc.id /\ proc'.type = proc.type /\ proc'.target = proc.target
    /\ nextId' = nextId
    /\ \/ UpgraderCheckIn
       \/ /\ rollback' = rollback /\ (IsDone(proc') => IsDone(proc))
          /\ proc'.state = "ROLLING_BACK" => proc.state = "ROLLING_BACK"
Begins ==
    /\ proc'.id = nextId /\ nextId' = nextId + 1 /\ proc'.target \in {main, 0}
    /\ proc'.state = "INITIALIZING" /\ UNCHANGED <<main, clusterVars>>

LEMMA InStateKeeps ==
    ASSUME NEW p, NEW s, IsProcess(p)
    PROVE  InState(p, s).type = p.type /\ InState(p, s).target = p.target
BY DEF InState, IsProcess, Fields

LEMMA OlderKeeps ==
    ASSUME NEW p, IsProcess(p)
    PROVE  Older(p).type = p.type /\ Older(p).target = p.target
BY DEF Older, IsProcess, Fields

LEMMA ProcKinds ==
    ASSUME "db" \notin Faults, DeployedInv, [Next]_vars
    PROVE  ~ errored' /\ (Stays \/ Begins)
<1>1. ProcessInv /\ ~ errored /\ saved = proc /\ IsProcess(proc)
  BY DEF DeployedInv, SnapshotInv, ProcessInv
<1>2. Flush => saved' = proc' /\ UNCHANGED errored
  BY DEF Flush, Fault
<1>3. CASE Idle \/ Refresh \/ Reload
  BY <1>1, <1>2, <1>3 DEF Idle, Refresh, NoProcessChange, Reload, Stays, IsDone
<1>4. CASE Age
  BY <1>1, <1>4, OlderFacts, OlderKeeps DEF Age, Stays, IsDone
<1>5. CASE Progress
  <2>1. PICK s : SetUpgradeProgress(s) /\ (UpgraderCheckIn \/ Reported(s))
    BY <1>5 DEF Progress
  <2>2. /\ proc'.id = proc.id /\ proc'.type = proc.type /\ proc'.target = proc.target
        /\ proc'.state = s /\ nextId' = nextId
    BY <1>1, <2>1, InStateFacts, InStateKeeps DEF SetUpgradeProgress
  <2>3. ~ UpgraderCheckIn =>
          /\ IsDone(proc') => IsDone(proc)
          /\ s \notin {"ROLLING_BACK", "LAUNCHED"}
    BY <2>1, <2>2 DEF IsDone, Reported, UpgradeSucceeded
  <2>4. s \notin {"ROLLING_BACK", "LAUNCHED"} => rollback' = rollback
    BY <2>1 DEF SetUpgradeProgress, DeployedInv, SnapshotInv, TypeInv, ControllerOK, Rollbacks
  <2>5. ~ errored'
    BY <1>1, <1>2, <1>5 DEF Progress, Flushed
  <2> QED BY <2>2, <2>3, <2>4, <2>5 DEF Stays
<1>6. CASE Start
  <2>1. /\ proc'.id = nextId /\ nextId' = nextId + 1 /\ proc'.target \in {main, 0}
        /\ proc'.state = "INITIALIZING"
    BY <1>6 DEF Start, MakeProcessActive, NoProc
  <2> QED BY <1>1, <1>2, <1>6, <2>1 DEF Start, Begins
<1> QED BY <1>3, <1>4, <1>5, <1>6, StepsOfNext

\* Where Sensor, the upgrader and the triggers have their processes from.
Like(x, y) == x.id = y.id /\ x.type = y.type

LEMMA SensorSources ==
    ASSUME SensorOK, [Next]_vars
    PROVE  Like(sproc', sproc) \/ Like(sproc', NoSproc) \/ \E t \in triggers : Like(sproc', t)
<1> USE DEF sensorVars, centralVars, vars
<1>1. CASE UNCHANGED sproc \/ sproc' = NoSproc
  BY <1>1 DEF Like
<1>2. ASSUME NEW t \in triggers, SensorTrigger(t)
      PROVE  UNCHANGED sproc \/ sproc' = NoSproc \/ Like(sproc', t)
  BY <1>2 DEF SensorTrigger, Like
<1>3. SensorLaunch \/ SensorPoll \/ SensorCheckIn => Like(sproc', sproc) \/ sproc' = NoSproc
  BY DEF SensorOK, SensorProcess, SensorLaunch, SensorPoll, SensorCheckIn, Like
<1>4. CASE ~ Sensor
  BY <1>1, <1>4 DEF Next, Central, Connect, WatchConnection, StopConnection, Reconcile, Cluster,
     StopPod, StartPod, Tick, Upgrader, UpgraderCheckIn, UpgraderRun, Environment, Trigger,
     Disconnect, RestartCentral, RestartSensor, RestartUpgrader, GiveUp
<1> QED BY <1>1, <1>2, <1>3, <1>4 DEF Sensor

LEMMA TriggerSources ==
    ASSUME [Next]_vars PROVE triggers' \subseteq triggers \cup {TriggerOf(active', proc')}
BY DEF Next, Central, Connect, WatchConnection, StopConnection, Reconcile, Disconnected, Cluster,
   StopPod, StartPod, Tick, Upgrader, UpgraderCheckIn, UpgraderRun, Environment, Trigger,
   Disconnect, RestartCentral, RestartSensor, RestartUpgrader, GiveUp, Sensor, SensorTrigger,
   SensorLaunch, SensorPoll, SensorCheckIn, vars

LEMMA PodSources ==
    ASSUME TypeInv, [Next]_vars
    PROVE  Like(upg', upg) \/ Like(upg', sproc) \/ Like(upg', NoSproc)
<1>1. Like(NoUpgrader, NoSproc)
  BY NoUpgraderType DEF Like, NoSproc
<1>2. CASE UpgraderRun
  BY <1>1, <1>2, StageEffects DEF Cleans, NoDeployment, Advances, Like
<1>3. CASE UpgraderCheckIn
  <2>1. WorkflowToExecute(Request) \in Told /\ "cleanup" \in Told
    BY AnswerTypes DEF Request, TypeInv, ControllerOK, ProcOK, Process, Told
  <2>2. upg' = upg \/ \E w \in Told : upg' = Instructed(w)
    BY <1>3, <2>1, CheckInFacts
  <2> QED BY <2>2, InstructedType DEF TypeInv, PodOK, Like
<1>4. CASE SensorLaunch
  <2>1. upg' \in {upg, NoUpgrader, NewUpgrader(sproc.id, sproc.type)}
    BY <1>4 DEF SensorLaunch, NewDeployment, NoDeployment, upgraderDeployment
  <2>2. Like(NewUpgrader(sproc.id, sproc.type), sproc)
    BY DEF NewUpgrader, Like
  <2> QED BY <1>1, <2>1, <2>2 DEF Like
<1>5. CASE RestartUpgrader
  BY <1>5 DEF RestartUpgrader, NewUpgrader, Like
<1>6. CASE UNCHANGED upg \/ upg' = NoUpgrader
  BY <1>1, <1>6 DEF Like
<1>7. CASE ~ Upgrader /\ ~ SensorLaunch /\ ~ RestartUpgrader
  BY <1>6, <1>7 DEF Next, Central, Connect, WatchConnection, StopConnection, Reconcile, Cluster,
     StopPod, StartPod, Tick, Sensor, SensorTrigger, SensorPoll, SensorCheckIn, Environment,
     Trigger, Disconnect, RestartCentral, RestartSensor, GiveUp, NoDeployment, upgraderDeployment,
     clusterVars, vars
<1> QED BY <1>2, <1>3, <1>4, <1>5, <1>7 DEF Upgrader

\* Only an upgrader changes Sensor's deployment, and annotates it with its process.
LEMMA AnnotationSources ==
    ASSUME TypeInv, [Next]_vars
    PROVE  annotated' \in {annotated, upg.id} /\ (annotated' # upg.id => UNCHANGED deployed)
<1>1. CASE PodQuiet \/ PodNew \/ PodRestarts \/ UpgraderCheckIn
  <2>1. UNCHANGED sensorDeployment
    BY <1>1, CheckInFacts DEF PodQuiet, PodNew, PodRestarts, clusterVars
  <2> QED BY <2>1 DEF sensorDeployment
<1>2. CASE UpgraderRun
  BY <1>2, StageEffects
     DEF Cleans, Prepares, Executes, Recovers, Others, Update, sensorDeployment
<1> QED BY <1>1, <1>2, PodKinds

LEMMA KnownStep ==
    ASSUME "db" \notin Faults, DeployedInv, [Next]_vars PROVE KnownOK'
<1>1. TypeInv /\ KnownOK /\ nextId \in Int
  BY DEF DeployedInv, SnapshotInv, ProcessInv
<1>2. Stays \/ Begins
  BY ProcKinds
<1>3. ASSUME NEW x, NEW y, Known(y), Like(x, y)
      PROVE  x.id \in 0..(nextId' - 1) /\ (x.id = proc'.id => x.type = proc'.type)
  BY <1>1, <1>2, <1>3 DEF Known, Like, Stays, Begins
<1>4. ASSUME NEW x, Like(x, proc')
      PROVE  x.id \in 0..(nextId' - 1) /\ (x.id = proc'.id => x.type = proc'.type)
  <2>1. proc.id < nextId /\ proc.id \in Nat /\ nextId \in Nat
    BY UpgradeAssumption
       DEF DeployedInv, SnapshotInv, ProcessInv, TypeInv, ControllerOK, ProcOK, Process, Ids
  <2> QED BY <1>1, <1>2, <1>4, <2>1 DEF Like, Stays, Begins
<1>5. ASSUME NEW t \in triggers'
      PROVE  t.id \in 0..(nextId' - 1) /\ (t.id = proc'.id => t.type = proc'.type)
  <2>1. CASE t \in triggers
    BY <1>1, <1>3, <2>1 DEF KnownOK, Like
  <2>2. CASE t = TriggerOf(active', proc')
    <3>1. Like(t, proc') \/ Like(t, NoSproc)
      BY <2>2 DEF TriggerOf, Like, NoSproc
    <3> QED BY <1>1, <1>3, <1>4, <3>1 DEF KnownOK
  <2> QED BY <2>1, <2>2, TriggerSources
<1>6. sproc'.id \in 0..(nextId' - 1) /\ (sproc'.id = proc'.id => sproc'.type = proc'.type)
  BY <1>1, <1>3, SensorSources DEF KnownOK, TypeInv
<1>7. upg'.id \in 0..(nextId' - 1) /\ (upg'.id = proc'.id => upg'.type = proc'.type)
  BY <1>1, <1>3, PodSources DEF KnownOK
<1>8. NoSproc.id \in 0..(nextId' - 1) /\ (NoSproc.id = proc'.id => NoSproc.type = proc'.type)
  BY <1>1, <1>3 DEF KnownOK, Like
<1>9. annotated' < nextId'
  <2>1. annotated \in Int /\ annotated < nextId /\ upg.id \in Int /\ upg.id < nextId /\ nextId \in Int
    BY UpgradeAssumption
       DEF DeployedInv, SnapshotInv, KnownOK, Known, TypeInv, ControllerOK, ClusterOK, PodOK, Pod, Ids
  <2> QED BY <1>1, <1>2, <2>1, AnnotationSources DEF Stays, Begins
<1> QED BY <1>5, <1>6, <1>7, <1>8, <1>9 DEF KnownOK, Known

\* Central is never replaced by an older version.
LEMMA MainGrows == ASSUME main \in Versions, [Next]_vars PROVE main' \in Versions /\ main' >= main
<1>1. main >= main
  BY UpgradeAssumption
<1>2. CASE RestartCentral
  BY <1>2 DEF RestartCentral
<1>3. CASE ~ RestartCentral
  BY <1>1, <1>3 DEF Next, Central, Connect, WatchConnection, StopConnection, Reconcile, Cluster,
     StopPod, StartPod, Tick, Sensor, SensorTrigger, SensorLaunch, SensorPoll, SensorCheckIn,
     Upgrader, UpgraderCheckIn, UpgraderRun, Environment, Trigger, Disconnect, RestartSensor,
     RestartUpgrader, GiveUp, centralVars, vars
<1> QED BY <1>2, <1>3

\* What the upgrader has prepared and done, after a step of it.
LEMMA PodProgress ==
    ASSUME SnapshotInv, [Next]_vars
    PROVE  \/ upg'.workflow \in {"none", "cleanup"} /\ UNCHANGED sensorDeployment
           \/ UpgraderCheckIn \/ PodQuiet
           \/ UpgraderRun /\ Advances /\ (Prepares \/ Executes \/ Recovers \/ Others)
<1>1. CASE PodNew \/ PodRestarts
  BY <1>1, PodNewFacts DEF SnapshotInv
<1>2. CASE UpgraderRun /\ Cleans
  BY <1>2, NoUpgraderType DEF Cleans, NoDeployment
<1> QED BY <1>1, <1>2, PodKinds, StageEffects DEF SnapshotInv

\* An instruction of Central keeps the state of an upgrader that goes on.
LEMMA CheckInKeeps ==
    ASSUME SnapshotInv, UpgraderCheckIn
    PROVE  /\ UNCHANGED sensorDeployment /\ upg'.id = upg.id /\ upg'.type = upg.type
           /\ upg'.bundle = upg.bundle /\ (Prepared' => Prepared) /\ (Done' => Done)
<1>1. WorkflowToExecute(Request) \in Told /\ "cleanup" \in Told
  BY AnswerTypes DEF Request, SnapshotInv, TypeInv, ControllerOK, ProcOK, Process, Told
<1>2. UNCHANGED sensorDeployment /\ (upg' = upg \/ \E w \in Told : upg' = Instructed(w))
  BY <1>1, CheckInFacts DEF SnapshotInv
<1>3. CASE upg' = upg
  BY <1>2, <1>3 DEF Prepared, Past, Done
<1>4. ASSUME NEW w \in Told, upg' = Instructed(w)
      PROVE  /\ upg'.id = upg.id /\ upg'.type = upg.type
             /\ upg'.bundle = upg.bundle /\ (Prepared' => Prepared) /\ (Done' => Done)
  <2>1. /\ upg'.workflow = w /\ upg'.id = upg.id /\ upg'.type = upg.type
        /\ upg'.bundle = upg.bundle
        /\ upg'.ran # 0 => w = upg.workflow /\ ~ upg.err /\ upg'.ran = upg.ran
    BY <1>4, InstructedType DEF SnapshotInv, TypeInv, PodOK
  <2>2. Prepared' => Prepared
    BY <2>1 DEF Prepared, Past
  <2>3. Done' => Done
    BY <2>1 DEF Done
  <2> QED BY <2>1, <2>2, <2>3
<1> QED BY <1>2, <1>3, <1>4

LEMMA BundleStep ==
    ASSUME "db" \notin Faults, DeployedInv, [Next]_vars PROVE BundleOK'
<1>1. Stays \/ Begins
  BY ProcKinds
<1>2. /\ main \in Versions /\ main' \in Versions /\ main' >= main /\ Versions \subseteq Nat
      /\ proc.target \in Nat /\ upg.bundle \in Nat /\ upg.ran \in 0..3 /\ main >= proc.target
  <2>1. /\ main \in Versions /\ proc.target \in Versions0 /\ upg.bundle \in Versions0
        /\ upg.ran \in 0..3 /\ main >= proc.target
    BY DEF DeployedInv, SnapshotInv, TypeInv, ControllerOK, ProcOK, Process, PodOK, Pod, BundleOK
  <2>2. main' \in Versions /\ main' >= main
    BY <2>1, MainGrows
  <2>3. Versions \subseteq Nat /\ Versions0 \subseteq Nat
    BY UpgradeAssumption DEF Versions0
  <2> QED BY <2>1, <2>2, <2>3
<1>3. main' >= proc'.target
  BY <1>1, <1>2 DEF Stays, Begins
<1>4. CASE Begins
  <2>1. upg.id # proc'.id /\ upg' = upg
    BY <1>4 DEF Begins, DeployedInv, SnapshotInv, ProcessInv, KnownOK, Known, clusterVars,
       upgraderDeployment
  <2> QED BY <1>3, <2>1 DEF BundleOK
<1>5. CASE Stays
  <2>1. /\ proc'.id = proc.id /\ proc'.target = proc.target
        /\ Prepared /\ upg.id = proc.id => upg.bundle >= proc.target
    BY <1>5 DEF Stays, DeployedInv, BundleOK
  <2>2. CASE upg'.workflow \in {"none", "cleanup"}
    BY <1>3, <2>2 DEF BundleOK, Prepared, Past
  <2>3. CASE UpgraderCheckIn
    BY <1>3, <2>1, <2>3, CheckInKeeps DEF BundleOK, DeployedInv
  <2>4. CASE PodQuiet
    BY <1>3, <2>1, <2>4
       DEF BundleOK, PodQuiet, clusterVars, upgraderDeployment, Prepared, Past
  <2>5. CASE UpgraderRun /\ Advances /\ Prepares
    <3>1. UNCHANGED main
      BY <2>5 DEF UpgraderRun, centralVars
    <3>2. upg'.ran = 1 /\ upg'.workflow = "roll-forward"
      BY <2>5 DEF Advances, Prepares
    <3> QED BY <1>2, <1>3, <2>1, <2>5, <3>1, <3>2 DEF BundleOK, Prepared, Past, Prepares
  <2>6. CASE UpgraderRun /\ Advances /\ (Executes \/ Recovers \/ Others)
    <3>1. ~ upg.err
      BY <2>6 DEF UpgraderRun, DeployedInv, SnapshotInv, SnapshotOK
    <3>2. Prepared' => Prepared
      BY <1>2, <2>6, <3>1 DEF Advances, Executes, Recovers, Others, Prepared, Past
    <3> QED BY <1>3, <2>1, <2>6, <3>2 DEF BundleOK, Advances, Executes, Recovers, Others
  <2> QED BY <2>2, <2>3, <2>4, <2>5, <2>6, PodProgress DEF DeployedInv
<1> QED BY <1>1, <1>4, <1>5

\* The rows of the table that let an upgrader roll forward, and those that lead into a
\* rollback or out of it.
LEMMA ForwardRows ==
    ASSUME NEW i \in Rows
    PROVE  /\ AllTransitions[i].execute = "roll-forward" =>
                 AllTransitions[i].next = "LAUNCHED" \/ i \in {6, 8}
           /\ AllTransitions[i].execute = "roll-forward" =>
                 AllTransitions[i].next \notin {"ROLLING_BACK", Same}
           /\ AllTransitions[i].execute = "roll-back" => AllTransitions[i].next = "ROLLING_BACK"
<1>1. i \in 1..15
  BY RowsAre
<1>2. CASE i \in {1, 2, 3, 4, 5}
  BY <1>2, Table DEF Leads, Same
<1>3. CASE i \in {6, 7, 8, 9, 10}
  BY <1>3, Table DEF Leads, Same
<1>4. CASE i \in {11, 12, 13, 14, 15}
  BY <1>4, Table DEF Leads, Same
<1> QED BY <1>1, <1>2, <1>3, <1>4

LEMMA ForwardMatches ==
    ASSUME NEW r
    PROVE  /\ r \in AllTransitions[6].match => r.workflow = "roll-forward" /\ r.stage = "preflight"
           /\ r \in AllTransitions[8].match => r.workflow = "roll-forward" /\ r.err = FALSE
           /\ r \in AllTransitions[10].match => r.err = TRUE
<1>1. r \in AllTransitions[6].match => r.workflow = "roll-forward" /\ r.stage = "preflight"
  BY DEF AllTransitions, To, When, On
<1>2. r \in AllTransitions[8].match => r.workflow = "roll-forward" /\ r.err = FALSE
  BY DEF AllTransitions, To, When, On
<1>3. r \in AllTransitions[10].match => r.err = TRUE
  BY DEF AllTransitions, To, When, On
<1> QED BY <1>1, <1>2, <1>3

LEMMA ForwardAnswers ==
    ASSUME NEW r
    PROVE  /\ WorkflowToExecute(r) = "roll-back" => NextState(r) = "ROLLING_BACK"
           /\ WorkflowToExecute(r) = "roll-forward" =>
                /\ NextState(r) # "ROLLING_BACK"
                /\ \/ NextState(r) = "LAUNCHED"
                   \/ r.workflow = "roll-forward" /\ (r.stage = "preflight" \/ r.err = FALSE)
           /\ NextState(r) = "ROLLING_BACK" /\ r.workflow = "roll-forward" =>
                r.state = "ROLLING_BACK" \/ (r.stage = "execute" /\ r.err = TRUE)
<1>1. CASE Matching(r) = {}
  BY <1>1 DEF NextState, WorkflowToExecute
<1>2. CASE Matching(r) # {}
  <2> DEFINE i == FirstMatch(r)
  <2>1. i \in Rows /\ r \in AllTransitions[i].match
    BY <1>2, First
  <2>2. /\ NextState(r) = IF AllTransitions[i].next = Same THEN r.state ELSE AllTransitions[i].next
        /\ WorkflowToExecute(r) = AllTransitions[i].execute
    BY <1>2 DEF NextState, WorkflowToExecute
  <2>3. "ROLLING_BACK" # Same
    BY DEF Same
  <2> HIDE DEF i
  <2>4. WorkflowToExecute(r) = "roll-back" => NextState(r) = "ROLLING_BACK"
    BY <2>1, <2>2, <2>3, ForwardRows
  <2>5. WorkflowToExecute(r) = "roll-forward" =>
           /\ NextState(r) # "ROLLING_BACK"
           /\ \/ NextState(r) = "LAUNCHED"
              \/ r.workflow = "roll-forward" /\ (r.stage = "preflight" \/ r.err = FALSE)
    BY <2>1, <2>2, ForwardRows, ForwardMatches
  <2>6. NextState(r) = "ROLLING_BACK" /\ r.workflow = "roll-forward" =>
           r.state = "ROLLING_BACK" \/ (r.stage = "execute" /\ r.err = TRUE)
    <3>1. SUFFICES ASSUME AllTransitions[i].next = "ROLLING_BACK", r.workflow = "roll-forward"
                   PROVE  r.state = "ROLLING_BACK" \/ (r.stage = "execute" /\ r.err = TRUE)
      BY <2>2
    <3>2. i \in {3, 10, 11, 12}
      BY <2>1, <3>1, RollbackRows
    <3> QED BY <2>1, <3>1, <3>2, RollbackMatches, ForwardMatches
  <2> QED BY <2>4, <2>5, <2>6
<1> QED BY <1>1, <1>2

\* What a check-in of the upgrader of the most recent process does to its rollback.
LEMMA CheckInBegun ==
    ASSUME DeployedInv, UpgraderCheckIn, Stays
    PROVE  /\ proc'.id = proc.id /\ (Begun => Begun') /\ (Abandoned => Abandoned')
           /\ \/ /\ upg' = Instructed("cleanup") /\ UNCHANGED <<proc, rollback>>
              \/ /\ active /\ proc.id = upg.id /\ proc.id \in 1..MaxProcs
                 /\ proc'.state = NextState(Request) /\ proc'.type = proc.type
                 /\ upg' \in {upg, Instructed(WorkflowToExecute(Request))}
                 /\ NextState(Request) = "ROLLING_BACK" => Begun'
                 /\ Begun /\ NextState(Request) = "LAUNCHED" => Abandoned'
                 /\ Begun' => Begun \/ NextState(Request) = "ROLLING_BACK"
<1>1. \/ upg' = Instructed("cleanup") /\ UNCHANGED controllerVars
      \/ /\ active /\ proc.id = upg.id /\ SetUpgradeProgress(NextState(Request))
         /\ upg' \in {upg, Instructed(WorkflowToExecute(Request))}
  BY CheckInFacts DEF DeployedInv, SnapshotInv
<1>2. CASE upg' = Instructed("cleanup") /\ UNCHANGED controllerVars
  BY <1>2 DEF controllerVars, Begun, Abandoned
<1>3. CASE /\ active /\ proc.id = upg.id /\ SetUpgradeProgress(NextState(Request))
           /\ upg' \in {upg, Instructed(WorkflowToExecute(Request))}
  <2>1. /\ IsProcess(proc) /\ rollback \in Rollbacks /\ proc.id \in 1..MaxProcs
    BY <1>3, UpgradeAssumption
       DEF DeployedInv, SnapshotInv, ProcessInv, TypeInv, ControllerOK, ProcOK, Process, Ids
  <2>2. proc'.id = proc.id /\ proc'.state = NextState(Request) /\ proc'.type = proc.type
    BY <1>3, <2>1, InStateFacts DEF SetUpgradeProgress, Stays
  <2>3. rollback'[proc.id] =
           IF rollback[proc.id] = "no" /\ NextState(Request) = "ROLLING_BACK" THEN "begun"
           ELSE IF rollback[proc.id] = "begun" /\ NextState(Request) = "LAUNCHED" THEN "abandoned"
           ELSE rollback[proc.id]
    BY <1>3, <2>1 DEF SetUpgradeProgress, Rollbacks
  <2>4. rollback[proc.id] \in {"no", "begun", "abandoned"}
    BY <2>1 DEF Rollbacks
  <2> QED BY <1>3, <2>1, <2>2, <2>3, <2>4 DEF Begun, Abandoned
<1> QED BY <1>1, <1>2, <1>3

LEMMA BegunStep ==
    ASSUME "db" \notin Faults, DeployedInv, [Next]_vars PROVE BegunOK'
<1>1. Stays \/ Begins
  BY ProcKinds
<1>2. CASE Begins
  <2>1. upg.id # proc'.id /\ upg' = upg /\ proc'.state # "ROLLING_BACK"
    BY <1>2 DEF Begins, DeployedInv, SnapshotInv, ProcessInv, KnownOK, Known, clusterVars,
       upgraderDeployment
  <2> QED BY <2>1 DEF BegunOK, Own
<1>3. CASE Stays /\ ~ UpgraderCheckIn
  <2>1. /\ proc'.id = proc.id /\ (Begun' <=> Begun) /\ (Abandoned' <=> Abandoned)
        /\ proc'.state = "ROLLING_BACK" => proc.state = "ROLLING_BACK"
    BY <1>3 DEF Stays, Begun, Abandoned
  <2>2. BegunOK
    BY DEF DeployedInv
  <2>3. CASE upg'.workflow \in {"none", "cleanup"}
    BY <2>1, <2>2, <2>3 DEF BegunOK, Own
  <2>4. CASE PodQuiet
    BY <2>1, <2>2, <2>4 DEF PodQuiet, clusterVars, upgraderDeployment, BegunOK, Own
  <2>5. CASE UpgraderRun /\ Advances /\ (Prepares \/ Executes \/ Recovers \/ Others)
    <3>1. ~ upg.err
      BY <2>5 DEF UpgraderRun, DeployedInv, SnapshotInv, SnapshotOK
    <3> QED BY <2>1, <2>2, <2>5, <3>1 DEF Advances, BegunOK, Own
  <2> QED BY <1>3, <2>3, <2>4, <2>5, PodProgress DEF DeployedInv
<1>4. CASE Stays /\ UpgraderCheckIn
  <2>1. /\ proc'.id = proc.id /\ (Begun => Begun') /\ (Abandoned => Abandoned')
        /\ upg'.id = upg.id
    BY <1>4, CheckInBegun, CheckInKeeps DEF DeployedInv
  <2>2. BegunOK /\ upg \in Pod /\ UpgraderOK
    BY DEF DeployedInv, SnapshotInv, TypeInv, PodOK
  <2>3. ASSUME NEW w \in Told, upg' = Instructed(w) PROVE upg'.workflow = w
    BY <2>2, <2>3, InstructedType
  <2>4. CASE upg' = Instructed("cleanup") /\ UNCHANGED <<proc, rollback>>
    <3>1. upg'.workflow = "cleanup"
      BY <2>3, <2>4 DEF Told
    <3> QED BY <2>2, <2>4, <3>1 DEF BegunOK, Own, Begun
  <2>5. CASE ~ (upg' = Instructed("cleanup") /\ UNCHANGED <<proc, rollback>>)
    <3> DEFINE s == NextState(Request)
               w == WorkflowToExecute(Request)
    <3>1. /\ proc'.state = s /\ upg' \in {upg, Instructed(w)}
          /\ s = "ROLLING_BACK" => Begun'
          /\ Begun /\ s = "LAUNCHED" => Abandoned'
          /\ Begun' => Begun \/ s = "ROLLING_BACK"
          /\ upg.id = proc.id /\ proc.id # 0
      BY <1>4, <2>5, CheckInBegun
    <3>2. /\ Request.state = proc.state /\ Request.workflow = upg.workflow
          /\ Request.stage = StageOf(upg.workflow, upg.ran) /\ Request.err = upg.err
          /\ Request.state \in UpgradeState
      BY <2>2 DEF Request, Pod, DeployedInv, SnapshotInv, TypeInv, ControllerOK, ProcOK, Process
    <3>3. /\ w \in Told /\ (w = "roll-back" => s = "ROLLING_BACK")
          /\ w = "roll-forward" =>
                /\ s # "ROLLING_BACK"
                /\ \/ s = "LAUNCHED"
                   \/ /\ upg.workflow = "roll-forward"
                      /\ Request.stage = "preflight" \/ upg.err = FALSE
          /\ s = "ROLLING_BACK" /\ upg.workflow = "roll-forward" =>
                proc.state = "ROLLING_BACK" \/ (Request.stage = "execute" /\ upg.err = TRUE)
      <4>1. w \in Told
        BY <3>2, AnswerTypes
      <4>2. /\ w = "roll-back" => s = "ROLLING_BACK"
            /\ w = "roll-forward" =>
                  /\ s # "ROLLING_BACK"
                  /\ \/ s = "LAUNCHED"
                     \/ /\ Request.workflow = "roll-forward"
                        /\ Request.stage = "preflight" \/ Request.err = FALSE
            /\ s = "ROLLING_BACK" /\ Request.workflow = "roll-forward" =>
                  Request.state = "ROLLING_BACK" \/ (Request.stage = "execute" /\ Request.err = TRUE)
        BY ForwardAnswers
      <4> QED BY <3>2, <4>1, <4>2
    <3>4. upg.workflow = "roll-forward" /\ Request.stage = "execute" => upg.ran = 3
      BY <3>2, ExecuteStage DEF DeployedInv, SnapshotInv, TypeInv
    <3>5. upg.workflow = "roll-forward" /\ upg.ran = 3 => Request.stage = "execute"
      <4>1. Workflows["roll-forward"] = <<"prepare", "preflight", "execute">>
        BY DEF Workflows
      <4> QED BY <3>2, <4>1 DEF StageOf
    <3> HIDE DEF s, w
    <3>6. CASE upg' = upg
      <4>1. Own("roll-back")' => Begun'
        BY <2>1, <2>2, <3>6 DEF BegunOK, Own
      <4>2. Own("roll-forward")' /\ Begun' => Abandoned' \/ (upg'.ran = 3 /\ upg'.err)
        BY <2>1, <2>2, <3>1, <3>3, <3>4, <3>6 DEF BegunOK, Own
      <4> QED BY <3>1, <4>1, <4>2 DEF BegunOK
    <3>7. CASE upg' = Instructed(w)
      <4>1. upg'.workflow = w
        BY <2>3, <3>3, <3>7
      <4>2. Own("roll-back")' => Begun'
        BY <3>1, <3>3, <4>1 DEF Own
      <4>3. ASSUME Own("roll-forward")', Begun' PROVE Abandoned'
        <5>1. w = "roll-forward" /\ s # "ROLLING_BACK" /\ Begun
          BY <3>1, <3>3, <4>1, <4>3 DEF Own
        <5>2. CASE s = "LAUNCHED"
          BY <3>1, <5>1, <5>2
        <5>3. CASE s # "LAUNCHED"
          <6>1. upg.workflow = "roll-forward" /\ (Request.stage = "preflight" \/ upg.err = FALSE)
            BY <3>3, <5>1, <5>3
          <6>2. Abandoned
            BY <2>2, <3>1, <3>5, <5>1, <6>1 DEF BegunOK, Own
          <6> QED BY <2>1, <6>2
        <5> QED BY <5>2, <5>3
      <4> QED BY <3>1, <4>2, <4>3 DEF BegunOK
    <3> QED BY <3>1, <3>6, <3>7
  <2> QED BY <2>4, <2>5
<1> QED BY <1>1, <1>2, <1>3, <1>4

LEMMA AnnotatedStep ==
    ASSUME "db" \notin Faults, DeployedInv, [Next]_vars PROVE AnnotatedOK'
<1>1. Stays \/ Begins
  BY ProcKinds
<1>2. CASE Begins
  <2>1. /\ upg.id # proc'.id /\ upg' = upg /\ annotated' = annotated /\ annotated # proc'.id
    BY <1>2 DEF Begins, DeployedInv, SnapshotInv, ProcessInv, TypeInv, ClusterOK, KnownOK, Known,
       clusterVars, sensorDeployment, upgraderDeployment, Ids
  <2> QED BY <2>1 DEF AnnotatedOK, Own
<1>3. CASE Stays
  <2>1. /\ proc'.id = proc.id /\ proc'.type = proc.type /\ proc'.target = proc.target
        /\ (Begun => Begun') /\ (Abandoned => Abandoned')
    BY <1>3, CheckInBegun DEF Stays, Begun, Abandoned
  <2>2. AnnotatedOK
    BY DEF DeployedInv
  <2>3. CASE upg'.workflow \in {"none", "cleanup"} /\ UNCHANGED sensorDeployment
    BY <2>1, <2>2, <2>3 DEF sensorDeployment, AnnotatedOK, Own
  <2>4. CASE PodQuiet
    BY <2>1, <2>2, <2>4
       DEF PodQuiet, clusterVars, sensorDeployment, upgraderDeployment, AnnotatedOK, Own, Done
  <2>5. CASE UpgraderCheckIn
    <3>1. UNCHANGED sensorDeployment /\ upg'.id = upg.id /\ (Done' => Done)
      BY <2>5, CheckInKeeps DEF DeployedInv
    <3> QED BY <2>1, <2>2, <3>1 DEF sensorDeployment, AnnotatedOK, Own, Done
  <2>6. CASE UpgraderRun /\ Advances /\ (Prepares \/ Executes \/ Recovers \/ Others)
    <3>1. /\ ~ upg.err /\ upg.ran \in 0..3 /\ upg.id # 0 /\ upg'.id = upg.id
          /\ upg'.workflow = upg.workflow /\ upg'.ran = upg.ran + 1
      BY <2>6 DEF UpgraderRun, Advances, DeployedInv, SnapshotInv, SnapshotOK, TypeInv, PodOK, Pod,
         UpgraderOK
    <3>2. CASE Prepares \/ Others
      <4>1. UNCHANGED sensorDeployment /\ ~ Done'
        BY <3>1, <3>2 DEF Prepares, Others, Done
      <4> QED BY <2>1, <2>2, <4>1 DEF sensorDeployment, AnnotatedOK
    <3>3. CASE Recovers
      <4>1. ~ Done' /\ (upg.id = proc.id => Begun)
        BY <3>1, <3>3 DEF Recovers, Done, DeployedInv, BegunOK, Own
      <4>2. UNCHANGED sensorDeployment \/ annotated' = upg.id
        BY <3>3 DEF Recovers, Update
      <4> QED BY <2>1, <2>2, <4>1, <4>2 DEF sensorDeployment, AnnotatedOK
    <3>4. CASE Executes
      <4>1. /\ upg.id = proc.id => upg.bundle >= proc.target /\ upg.type = proc.type
            /\ upg.id = proc.id /\ Begun => Abandoned
        BY <3>1, <3>4
           DEF Executes, Prepared, Past, DeployedInv, BundleOK, BegunOK, Own, KnownOK, Known
      <4>2. CASE UNCHANGED sensorDeployment
        BY <2>1, <2>2, <3>1, <3>4, <4>1, <4>2 DEF Executes, sensorDeployment, AnnotatedOK, Own, Done
      <4>3. CASE Update(upg.bundle)
        BY <2>1, <3>1, <4>1, <4>3 DEF Update, AnnotatedOK, Own
      <4> QED BY <3>4, <4>2, <4>3 DEF Executes
    <3> QED BY <2>6, <3>2, <3>3, <3>4
  <2> QED BY <2>3, <2>4, <2>5, <2>6, PodProgress DEF DeployedInv
<1> QED BY <1>1, <1>2, <1>3

\* The upgrader of an active upgrade reports that it is done: its bundle is deployed, and it
\* goes on with its workflow, of which nothing is left.
LEMMA DoneRequest ==
    ASSUME DeployedInv, active, proc.id = upg.id, proc.type = "UPGRADE",
           NextState(Request) \in {"OPERATIONS_DONE", "COMPLETE"}
    PROVE  /\ Abandoned \/ deployed >= proc.target
           /\ \/ WorkflowToExecute(Request) = "cleanup" /\ IsDone(proc)
              \/ WorkflowToExecute(Request) = "roll-forward" /\ Done
<1>1. /\ Request.state = proc.state /\ Request.workflow = upg.workflow
      /\ Request.stage = StageOf(upg.workflow, upg.ran) /\ Request.err = upg.err
      /\ Request.type = proc.type
  BY DEF Request
<1>2. proc.state # "COMPLETE" /\ proc.id # 0
  BY DEF DeployedInv, SnapshotInv, ProcessInv, NotEnded, TerminalStates, TypeInv, ControllerOK, ProcOK
<1>3. \/ proc.state = "OPERATIONS_DONE" /\ WorkflowToExecute(Request) = "cleanup"
      \/ /\ upg.workflow = "roll-forward" /\ StageOf(upg.workflow, upg.ran) = "execute"
         /\ upg.err = FALSE /\ WorkflowToExecute(Request) = "roll-forward"
  BY <1>1, <1>2, DoneAnswers
<1>4. CASE proc.state = "OPERATIONS_DONE" /\ WorkflowToExecute(Request) = "cleanup"
  BY <1>4 DEF DeployedInv, DoneOK, IsDone
<1>5. CASE /\ upg.workflow = "roll-forward" /\ StageOf(upg.workflow, upg.ran) = "execute"
           /\ upg.err = FALSE /\ WorkflowToExecute(Request) = "roll-forward"
  <2>1. Done
    BY <1>5, ExecuteStage DEF DeployedInv, SnapshotInv, TypeInv, Done
  <2> QED BY <1>2, <1>5, <2>1 DEF DeployedInv, AnnotatedOK, Own
<1> QED BY <1>3, <1>4, <1>5

LEMMA DoneStep ==
    ASSUME "db" \notin Faults, DeployedInv, [Next]_vars PROVE DoneOK'
<1> SUFFICES ASSUME IsDone(proc'), ~ Abandoned' PROVE
             /\ deployed' >= proc'.target
             /\ upg'.workflow \in {"none", "cleanup"} \/ (upg'.id = proc'.id /\ Done')
  BY DEF DoneOK, IsDone
<1>1. Stays
  BY ProcKinds DEF Begins, IsDone
<1>2. ~ Abandoned
  BY <1>1, CheckInBegun DEF Stays, Abandoned
<1>3. DoneOK /\ proc'.id = proc.id /\ proc'.target = proc.target
  BY <1>1 DEF DeployedInv, Stays
<1>4. CASE ~ UpgraderCheckIn
  <2>1. /\ deployed >= proc.target
        /\ upg.workflow \in {"none", "cleanup"} \/ (upg.id = proc.id /\ Done)
    BY <1>1, <1>2, <1>3, <1>4 DEF Stays, DoneOK
  <2>2. CASE UpgraderRun /\ Advances /\ (Prepares \/ Executes \/ Recovers \/ Others)
    <3>1. upg.workflow \in {"none", "cleanup"}
      BY <2>1, <2>2 DEF Prepares, Executes, Recovers, Others, Done
    <3> QED BY <1>3, <2>1, <2>2, <3>1
            DEF Advances, Prepares, Executes, Recovers, Others, sensorDeployment
  <2>3. CASE PodQuiet
    BY <1>3, <2>1, <2>3
       DEF PodQuiet, clusterVars, sensorDeployment, upgraderDeployment, Done
  <2> QED BY <1>3, <1>4, <2>1, <2>2, <2>3, PodProgress DEF DeployedInv, sensorDeployment
<1>5. CASE UpgraderCheckIn
  <2>1. UNCHANGED deployed /\ upg'.id = upg.id
    BY <1>5, CheckInKeeps DEF DeployedInv, sensorDeployment
  <2>2. ASSUME NEW w \in Told, upg' = Instructed(w)
        PROVE  /\ upg'.workflow = w
               /\ w = upg.workflow /\ ~ upg.err => upg'.ran = upg.ran /\ ~ upg'.err
    BY <2>2, InstructedType DEF DeployedInv, SnapshotInv, TypeInv, PodOK
  <2>3. CASE upg' = Instructed("cleanup") /\ UNCHANGED <<proc, rollback>>
    <3>1. upg'.workflow = "cleanup"
      BY <2>2, <2>3 DEF Told
    <3> QED BY <1>2, <1>3, <2>1, <2>3, <3>1 DEF DoneOK, IsDone
  <2>4. CASE /\ active /\ proc.id = upg.id /\ proc'.state = NextState(Request)
             /\ upg' \in {upg, Instructed(WorkflowToExecute(Request))}
    <3>1. /\ deployed >= proc.target
          /\ \/ WorkflowToExecute(Request) = "cleanup" /\ IsDone(proc)
             \/ WorkflowToExecute(Request) = "roll-forward" /\ Done
      BY <1>1, <1>2, <2>4, DoneRequest DEF IsDone, Stays
    <3>2. CASE upg' = upg
      BY <1>2, <1>3, <2>1, <2>4, <3>1, <3>2 DEF DoneOK, Done
    <3>3. CASE upg' = Instructed(WorkflowToExecute(Request))
      <4>1. CASE WorkflowToExecute(Request) = "cleanup"
        <5>1. upg'.workflow = "cleanup"
          BY <2>2, <3>3, <4>1 DEF Told
        <5> QED BY <1>3, <2>1, <3>1, <5>1
      <4>2. CASE WorkflowToExecute(Request) = "roll-forward" /\ Done
        <5>1. upg'.workflow = "roll-forward" /\ upg'.ran = upg.ran /\ ~ upg'.err
          BY <2>2, <3>3, <4>2 DEF Told, Done
        <5> QED BY <1>3, <2>1, <2>4, <3>1, <4>2, <5>1 DEF Done
      <4> QED BY <3>1, <4>1, <4>2
    <3> QED BY <2>4, <3>2, <3>3
  <2> QED BY <1>1, <1>5, <2>3, <2>4, CheckInBegun
<1> QED BY <1>4, <1>5

\* When the most recent upgrade is complete, Sensor's deployment has at least the version
\* that it was for, and no upgrader rolls it back any more: the reconciling goroutine
\* completes an upgrade in the state that its upgrader reported at the end of its execution.
\* An upgrade whose rollback was given up for rolling forward is excepted: its upgrader finds
\* nothing left to do, because the rollback has annotated what it restored.
\* It takes that every write to the database succeeds: upgradeController.do answers a
\* check-in although its write has failed, and a restart of Central forgets the change.
THEOREM CompleteIsDeployed ==
    ASSUME "db" \notin Faults PROVE Spec => []CompleteMeansDeployed
<1>1. Init => DeployedInv
  <2> SUFFICES ASSUME Init PROVE DeployedInv
    OBVIOUS
  <2>1. SnapshotInv
    BY SnapshotInit
  <2>2. KnownOK
    BY NoUpgraderType DEF Init, KnownOK, Known, NoSproc, NoProc
  <2>3. BundleOK
    <3>1. main >= 0
      BY UpgradeAssumption DEF Init
    <3> QED BY <3>1, NoUpgraderType DEF Init, BundleOK, NoProc, Prepared, Past
  <2>4. BegunOK /\ AnnotatedOK
    <3>1. deployed >= 0
      BY UpgradeAssumption DEF Init
    <3> QED BY <3>1 DEF Init, BegunOK, AnnotatedOK, Own, NoProc
  <2>5. ~ errored /\ DoneOK
    BY DEF Init, DoneOK, IsDone, NoProc
  <2> QED BY <2>1, <2>2, <2>3, <2>4, <2>5 DEF DeployedInv
<1>2. DeployedInv /\ [Next]_vars => DeployedInv'
  <2> SUFFICES ASSUME DeployedInv, [Next]_vars PROVE DeployedInv'
    OBVIOUS
  <2>1. SnapshotInv'
    BY SnapshotKept DEF DeployedInv
  <2> QED BY <2>1, ProcKinds, KnownStep, BundleStep, BegunStep, AnnotatedStep, DoneStep
         DEF DeployedInv
<1>3. DeployedInv => CompleteMeansDeployed
  BY DEF DeployedInv, SnapshotInv, ProcessInv, DoneOK, IsDone, Abandoned, CompleteMeansDeployed
<1> QED BY <1>1, <1>2, <1>3, PTL DEF Spec
=============================================================================
