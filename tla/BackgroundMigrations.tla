------------------------ MODULE BackgroundMigrations ------------------------
(***************************************************************************)
(* The background migrations of a Central that serves, composed with the   *)
(* startup migrations that precede them.  The runner waits until the       *)
(* status of the deployment says that its rollout is complete, takes a     *)
(* lock, and rewrites the rows of the database; a Central of an older      *)
(* version writes rows that the later migrations would have to rewrite     *)
(* again.                                                                  *)
(*                                                                         *)
(* With the strategy "Recreate" the runner is left out: pods do not meet   *)
(* there, and the number it keeps moves with the database.                 *)
(***************************************************************************)
EXTENDS StartupMigrations

CONSTANTS
    BgOf,       \* CurrentBgMigrationSeqNum of each version
    InCluster   \* Central finds its Kubernetes configuration

ASSUME BgAssumption ==
    /\ InCluster \in BOOLEAN
    /\ BgOf \in [Versions -> Nat]
    /\ \A a, b \in Versions : a <= b => BgOf[a] <= BgOf[b]

BgMigrations == 0..(BgOf[MaxSeq] - 1)

VARIABLES
    rpc,       \* where the runner of each pod is
    bver,      \* the migration it is at, or 0
    bgSeq,     \* the table background_migration_versions
    bgLock,    \* holder of the runner's advisory lock
    oldRows,   \* the migrations that some row of the database would need
    avail,     \* the pods that have been ready for minReadySeconds
    hasty      \* ghost: a runner started, or a rollback was undone, too early

bgVars == <<rpc, bver, bgSeq, bgLock, oldRows, avail, hasty>>
allVars == <<vars, bgVars>>

BgLocked == {"state", "run", "write"}
Started == {"lock"} \cup BgLocked    \* the rollout has been checked
BgPCs == {"off", "check", "done"} \cup Started

BgInit ==
    /\ rpc = [p \in Pods |-> "off"]
    /\ bver = [p \in Pods |-> 0]
    /\ bgSeq = 0
    /\ bgLock = NoPod
    /\ oldRows = {} /\ avail = {}
    /\ hasty = FALSE

-----------------------------------------------------------------------------
BgGoto(p, place) ==
    /\ rpc' = [rpc EXCEPT ![p] = place]
    /\ bgLock' = IF bgLock = p /\ place \notin BgLocked THEN NoPod ELSE bgLock

UpdatedReplicas == {p \in Pods : pc[p] # "off" /\ bin[p] = want}
WantedAvailable == \E p \in avail : bin[p] = want
\* Once a wanted pod is available, the deployment deletes the others.
TerminatingPods == {p \in Pods : pc[p] # "off" /\ bin[p] # want /\ WantedAvailable}
AvailableReplicas == avail \ TerminatingPods

\* checkRolloutStatus, for one replica.  An old pod counts as available until the new one is.
RolloutStatusDone == Cardinality(UpdatedReplicas) = 1 /\ Cardinality(AvailableReplicas) = 1

\* Mutant: terminating pods are not looked for.
IsRolloutDoneByStatus == InCluster => RolloutStatusDone

\* IsRolloutDone; without a configuration of Kubernetes there is nothing to check.
IsRolloutDone == InCluster => RolloutStatusDone /\ TerminatingPods = {}

\* A runner that passes the check has no pod of its deployment's version to rely on.
TooEarly == ~ (InCluster /\ WantedAvailable)

\* Mutant: no retry.
CheckRolloutOnce(p) ==
    /\ rpc[p] = "check"
    /\ BgGoto(p, IF IsRolloutDone THEN "lock" ELSE "done")
    /\ hasty' = (hasty \/ (IsRolloutDone /\ TooEarly))
    /\ UNCHANGED <<vars, bver, bgSeq, oldRows, avail>>

\* runOnce: the check, with its retries.
CheckRollout(p) ==
    /\ rpc[p] = "check" /\ IsRolloutDone
    /\ BgGoto(p, "lock")
    /\ hasty' = (hasty \/ TooEarly)
    /\ UNCHANGED <<vars, bver, bgSeq, oldRows, avail>>

\* acquireLock does not wait; without the lock the runner starts over.
TakeBgLock(p) ==
    /\ rpc[p] = "lock"
    /\ \/ bgLock = NoPod /\ bgLock' = p /\ rpc' = [rpc EXCEPT ![p] = "state"]
       \/ bgLock # NoPod /\ BgGoto(p, "check")
    /\ UNCHANGED <<vars, bver, bgSeq, oldRows, avail, hasty>>

\* runMigrations: readState; a number above the target means a rollback and is lowered.
ReadState(p) ==
    /\ rpc[p] = "state"
    /\ LET target == BgOf[bin[p]] IN
          /\ bgSeq' = IF bgSeq > target THEN target ELSE bgSeq
          /\ bver' = [bver EXCEPT ![p] = IF bgSeq' = target THEN 0 ELSE bgSeq']
          /\ BgGoto(p, IF bgSeq' = target THEN "done" ELSE "run")
    /\ UNCHANGED <<vars, oldRows, avail, hasty>>

\* migration.Run: no row needs the migration any more, except those written from now on.
RunBgMigration(p) ==
    /\ rpc[p] = "run"
    /\ oldRows' = oldRows \ {bver[p]}
    /\ BgGoto(p, "write")
    /\ UNCHANGED <<vars, bver, bgSeq, avail, hasty>>

\* Mutant: one migration too many.
MoreRowsToMigrateInclusive(p) == bver[p] + 1 <= BgOf[bin[p]]
MoreRowsToMigrate(p) == bver[p] + 1 < BgOf[bin[p]]

\* writeSeqNum; after the last one the indexes are reconciled and the runner ends.
WriteSeqNum(p) ==
    /\ rpc[p] = "write"
    /\ bgSeq' = bver[p] + 1
    /\ bver' = [bver EXCEPT ![p] = IF MoreRowsToMigrate(p) THEN @ + 1 ELSE 0]
    /\ BgGoto(p, IF MoreRowsToMigrate(p) THEN "run" ELSE "done")
    /\ UNCHANGED <<vars, oldRows, avail, hasty>>

\* A call of the runner fails: the lock is released, and it starts over after a while.
BgFail(p) ==
    /\ "fail" \in Faults /\ faults < MaxFaults
    /\ rpc[p] \in BgLocked
    /\ faults' = faults + 1
    /\ BgGoto(p, "check")
    /\ UNCHANGED <<strategy, want, bin, pc, ver, clone, dbs, lock, rollouts, restores,
                   assumedFresh, bver, bgSeq, oldRows, avail, hasty>>

\* Central stores a row in the format of its version.
WriteRows(p) ==
    /\ strategy = "RollingUpdate" /\ pc[p] \in Serving
    /\ oldRows' = oldRows \cup {m \in BgMigrations : m >= BgOf[bin[p]]}
    /\ UNCHANGED <<vars, rpc, bver, bgSeq, bgLock, avail, hasty>>

\* A Central that serves has been ready for minReadySeconds.
BecomeAvailable(p) ==
    /\ strategy = "RollingUpdate" /\ pc[p] \in Serving /\ p \notin avail
    /\ avail' = avail \cup {p}
    /\ UNCHANGED <<vars, rpc, bver, bgSeq, bgLock, oldRows, hasty>>

\* A rolling update keeps one pod available (maxUnavailable rounds down to none).
OneStays(p) == strategy = "Recreate" \/ p \notin avail \/ avail # {p}

\* What a step of the pods means for their runners: one starts when its Central starts to
\* serve, and ends with it.
RunnersFollow ==
    /\ rpc' = [p \in Pods |-> CASE pc'[p] \notin Serving \/ strategy = "Recreate" -> "off"
                                [] pc'[p] \in Serving /\ pc[p] \in Serving -> rpc[p]
                                [] OTHER -> "check"]
    /\ bgLock' = IF bgLock # NoPod /\ rpc'[bgLock] = "off" THEN NoPod ELSE bgLock
    /\ avail' = {p \in avail : pc'[p] \in Serving}
    /\ bver' = [p \in Pods |-> IF rpc'[p] = "off" THEN 0 ELSE bver[p]]
    /\ UNCHANGED <<bgSeq, oldRows>>
    /\ hasty' = (hasty \/ /\ BgOf[want'] > BgOf[want]
                          /\ \/ bgSeq > BgOf[want]
                             \/ \E p \in Pods : rpc[p] \in Started /\ BgOf[bin[p]] > BgOf[want])

BgStep(p) ==
    \/ CheckRollout(p) \/ TakeBgLock(p) \/ ReadState(p) \/ RunBgMigration(p) \/ WriteSeqNum(p)

AllNext ==
    \/ Rollout /\ RunnersFollow
    \/ \E p \in Pods : (StartPod(p) \/ Crash(p) \/ Migrate(p) \/ Restore(p)) /\ RunnersFollow
    \/ \E p \in Pods : StopPod(p) /\ OneStays(p) /\ RunnersFollow
    \/ \E p \in Pods : BgStep(p) \/ BgFail(p) \/ WriteRows(p) \/ BecomeAvailable(p)

AllInit == Init /\ BgInit
AllSpec == AllInit /\ [][AllNext]_allVars

\* The cluster starts and stops pods and finds them available, a restore ends, migrators and
\* runners make progress.
FairSpec ==
    /\ AllSpec
    /\ \A p \in Pods : /\ WF_allVars(StartPod(p) /\ RunnersFollow)
                       /\ WF_allVars(StopPod(p) /\ OneStays(p) /\ RunnersFollow)
                       /\ WF_allVars(BecomeAvailable(p))
                       /\ WF_allVars(Migrate(p) /\ RunnersFollow)
                       /\ WF_allVars((FinishRestore(p) \/ FailRestore(p)) /\ RunnersFollow)
                       /\ WF_allVars(BgStep(p))
-----------------------------------------------------------------------------
\* The variables have their types.
BgTypeOK ==
    /\ rpc \in [Pods -> BgPCs]
    /\ bver \in [Pods -> 0..BgOf[MaxSeq]]
    /\ bgSeq \in 0..BgOf[MaxSeq]
    /\ bgLock \in Pods \cup {NoPod}
    /\ oldRows \subseteq BgMigrations
    /\ avail \subseteq Pods
    /\ hasty \in BOOLEAN

\* Rows that need a migration of the wanted version are still ahead of the number in the
\* database, so that the runner will come to them: terminating pods are waited for
\* (rollout.go:108), and a rollback lowers the number (runner.go:177).  Two exceptions: a
\* runner that passed the check while no pod of the wanted version was available, or
\* without asking the cluster; and a rollback that is undone before its runner is through.
OldRowsAreAhead ==
    ~hasty => \A m \in oldRows : bgSeq <= m \/ BgOf[want] <= m

\* The start of the wanted version is refused for good.
Refused ==
    \/ dbs["current"].seq # 0 /\ dbs["current"].min > want
    \/ Exists("restore") /\ ~Restorable(dbs["restore"].seq, want)

WantedServes == \E p \in Pods : bin[p] = want /\ pc[p] \in Serving

\* After the last fault and the last change of the deployment, a Central of the wanted
\* version serves for good: nobody waits for a lock that is not released, and failing
\* starts do not undo each other's versions.
EventuallyServes == <>[]Refused \/ <>[]WantedServes

\* The background migrations of the wanted version get to every row, with the exceptions
\* of OldRowsAreAhead.
EventuallyMigrated ==
    <>[](Refused \/ hasty \/ strategy = "Recreate" \/ \A m \in oldRows : m >= BgOf[want])
=============================================================================
