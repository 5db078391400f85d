------------------------- MODULE StartupMigrations -------------------------
(***************************************************************************)
(* The migrator, which runs in every Central pod before Central itself: it *)
(* brings the database to the version of its binary, forwards by the       *)
(* numbered migrations or backwards by lowering the stored version, and    *)
(* puts a restored database in the place of the active one.                *)
(*                                                                         *)
(* Pods of several versions meet at one external database while the        *)
(* deployment is updated (strategy "RollingUpdate"); with the internal     *)
(* database and its restores there is one pod at a time ("Recreate").  A   *)
(* container that fails or crashes is started again in its pod.            *)
(***************************************************************************)
EXTENDS Integers, FiniteSets

CONSTANTS
    Pods, NoPod,
    MaxSeq,       \* the versions of the binary: CurrentDBVersionSeqNum is 1, ..., MaxSeq
    MinOf,        \* MinimumSupportedDBVersionSeqNum of each version
    Faults,       \* of "crash", "read"
    MaxFaults, MaxRollouts, MaxRestores    \* bounds on what happens to the deployment

Versions == 1..MaxSeq

ASSUME VersionsAssumption ==
    /\ MaxSeq \in Nat \ {0}
    /\ MinOf \in [Versions -> Nat]
    /\ \A b \in Versions : MinOf[b] <= b
ASSUME PodsAssumption == NoPod \notin Pods
ASSUME BoundsAssumption == MaxFaults \in Nat /\ MaxRollouts \in Nat /\ MaxRestores \in Nat

VARIABLES
    strategy,   \* of Central's deployment, fixed
    want,       \* the version the deployment asks for
    bin,        \* the version of each pod
    pc,         \* where each pod is
    ver,        \* what each migrator has read of the version, then the migration it is at, or 0
    clone,      \* the database each migrator works on
    dbs,        \* the databases, by name
    lock,       \* holder of the migration's advisory lock
    faults, rollouts, restores,   \* used up so far
    assumedFresh   \* ghost: populated databases that were set up as a fresh install

vars == <<strategy, want, bin, pc, ver, clone, dbs, lock, faults, rollouts, restores,
          assumedFresh>>

(* seq, min  the row of the table versions; seq = 0 if there is none
   applied   the migrations whose changes are in the database
   gen       what its rows are: 0 none, 1 written by Central, 2.. of a restored backup *)
Names == {"current", "backup", "restore"}
NoDB == [seq |-> 0, min |-> 0, applied |-> {}, gen |-> -1]
EmptyDB == [NoDB EXCEPT !.gen = 0]
Gens == 0..(1 + MaxRestores)
Exists(name) == dbs[name] # NoDB

\* The places of a pod where it holds the lock, and where Central runs.
Locked == {"locked", "fresh", "run", "migrate", "commit", "update", "insert", "release"}
Serving == {"serving", "restoring"}
PCs == {"off", "start", "scan", "scanned", "read", "persist", "swap", "ensure"} \cup Locked \cup Serving

Init ==
    /\ strategy \in {"RollingUpdate", "Recreate"}
    /\ want \in Versions
    /\ bin = [p \in Pods |-> want]
    /\ pc = [p \in Pods |-> "off"]
    /\ ver = [p \in Pods |-> 0]
    /\ clone = [p \in Pods |-> "current"]
    /\ dbs = [name \in Names |-> IF name = "current" THEN EmptyDB ELSE NoDB]
    /\ lock = NoPod
    /\ faults = 0 /\ rollouts = 0 /\ restores = 0
    /\ assumedFresh = {}

-----------------------------------------------------------------------------
\* The deployment.  A new version is asked for, newer or older.
Rollout ==
    /\ rollouts < MaxRollouts
    /\ rollouts' = rollouts + 1
    /\ want' \in Versions \ {want}
    /\ UNCHANGED <<strategy, bin, pc, ver, clone, dbs, lock, faults, restores, assumedFresh>>

\* Mutant: the lock is not released before the process ends.
GotoLate(p, place) ==
    /\ pc' = [pc EXCEPT ![p] = place]
    /\ lock' = IF lock = p /\ place \in {"off", "start"} THEN NoPod ELSE lock

\* A session of the database ends with its process, and its advisory lock with it.
Goto(p, place) ==
    /\ pc' = [pc EXCEPT ![p] = place]
    /\ lock' = IF lock = p /\ place \notin Locked THEN NoPod ELSE lock

StartPod(p) ==
    /\ pc[p] = "off"
    /\ \A q \in Pods : pc[q] # "off" => strategy = "RollingUpdate" /\ bin[q] # want
    /\ bin' = [bin EXCEPT ![p] = want]
    /\ Goto(p, "start")
    /\ UNCHANGED <<strategy, want, ver, clone, dbs, faults, rollouts, restores, assumedFresh>>

\* A pod of another version goes.
StopPod(p) ==
    /\ pc[p] # "off" /\ bin[p] # want
    /\ Goto(p, "off")
    /\ ver' = [ver EXCEPT ![p] = 0]
    /\ UNCHANGED <<strategy, want, bin, clone, dbs, faults, rollouts, restores, assumedFresh>>

\* The process ends at any point, or a call in it fails and it gives up.
Crash(p) ==
    /\ "crash" \in Faults /\ faults < MaxFaults
    /\ pc[p] \notin {"off", "start"}
    /\ faults' = faults + 1
    /\ Goto(p, "start")
    /\ ver' = [ver EXCEPT ![p] = 0]
    /\ UNCHANGED <<strategy, want, bin, clone, dbs, rollouts, restores, assumedFresh>>

-----------------------------------------------------------------------------
\* ReadVersionGormDB, ReadVersionPostgres: the row, or version 0 if it cannot be read.
ReadVersion(d, v) ==
    \/ v = d.seq /\ UNCHANGED faults
    \/ /\ "read" \in Faults /\ faults < MaxFaults
       /\ v = 0 /\ d.seq # 0
       /\ faults' = faults + 1

\* ensureVersionCompatible
Compatible(d, v, b) == v # 0 => d.min <= b
\* The checks of a restored database in Scan.
Restorable(v, b) == v <= b /\ (v > 0 => v >= MinOf[b])

\* run: ensureDatabaseExists, and Scan of the active database; a failing check ends the
\* process, which is started again.
Scan(p) ==
    /\ pc[p] = "start"
    /\ \E v \in 0..MaxSeq : ReadVersion(dbs["current"], v) /\ Compatible(dbs["current"], v, bin[p])
    /\ Goto(p, IF strategy = "Recreate" THEN "scan" ELSE "scanned")
    /\ clone' = [clone EXCEPT ![p] = "current"]
    /\ UNCHANGED <<strategy, want, bin, ver, dbs, rollouts, restores, assumedFresh>>

\* The rest of Scan, for the internal database, and GetCloneToMigrate.
ScanRestore(p) ==
    /\ pc[p] = "scan"
    /\ \/ /\ ~Exists("restore")
          /\ Goto(p, "scanned")
          /\ UNCHANGED <<clone, faults>>
       \/ /\ Exists("restore")
          /\ \E v \in 0..MaxSeq :
                /\ ReadVersion(dbs["restore"], v)
                /\ Goto(p, IF Restorable(v, bin[p]) THEN "scanned" ELSE "start")
          /\ clone' = [clone EXCEPT ![p] = "restore"]
    /\ UNCHANGED <<strategy, want, bin, ver, dbs, rollouts, restores, assumedFresh>>

\* upgradeAcquireLock, first read.
ReadFirst(p) ==
    /\ pc[p] = "scanned"
    /\ \E v \in 0..MaxSeq : ReadVersion(dbs[clone[p]], v) /\ ver' = [ver EXCEPT ![p] = v]
    /\ Goto(p, "read")
    /\ UNCHANGED <<strategy, want, bin, clone, dbs, rollouts, restores, assumedFresh>>

\* upgradeAcquireLock: TryAcquireMigrationLock does not wait.
Acquire(p) ==
    /\ pc[p] = "read" /\ lock = NoPod
    /\ lock' = p
    /\ pc' = [pc EXCEPT ![p] = "locked"]
    /\ UNCHANGED <<strategy, want, bin, ver, clone, dbs, faults, rollouts, restores, assumedFresh>>

\* Another pod holds the lock: give up if there is something to migrate, go on if not.
NotAcquired(p) ==
    /\ pc[p] = "read" /\ lock # NoPod
    /\ Goto(p, IF bin[p] > ver[p] THEN "start" ELSE "persist")
    /\ UNCHANGED <<strategy, want, bin, ver, clone, dbs, faults, rollouts, restores, assumedFresh>>

\* upgradeWithLock, second read.
ReadAgain(p) ==
    /\ pc[p] = "locked"
    /\ \E v \in 0..MaxSeq :
          /\ ReadVersion(dbs[clone[p]], v)
          /\ Goto(p, IF v = 0 THEN "fresh" ELSE "run")
    /\ UNCHANGED <<strategy, want, bin, ver, clone, dbs, rollouts, restores, assumedFresh>>

SetVersion(p, seq, min) ==
    dbs' = [dbs EXCEPT ![clone[p]].seq = seq, ![clone[p]].min = min]

\* ApplyAllSchemas on a database without tables, SetCurrentVersion in a transaction.
\* On a populated database the schemas do not do what the migrations would have.
SetUpFresh(p) ==
    /\ pc[p] = "fresh"
    /\ LET d == dbs[clone[p]] IN
          /\ dbs' = [dbs EXCEPT ![clone[p]] =
                       [d EXCEPT !.seq = bin[p], !.min = MinOf[bin[p]],
                                 !.applied = IF d.gen = 0 THEN @ \cup (1..(bin[p] - 1)) ELSE @]]
          /\ assumedFresh' = IF d.gen = 0 THEN assumedFresh ELSE assumedFresh \cup {d.gen}
    /\ Goto(p, "persist")
    /\ UNCHANGED <<strategy, want, bin, ver, clone, faults, rollouts, restores>>

\* runner.Run, third read.
Run(p) ==
    /\ pc[p] = "run"
    /\ \E v \in 0..MaxSeq :
          /\ ReadVersion(dbs[clone[p]], v)
          /\ ver' = [ver EXCEPT ![p] = v]
          /\ Goto(p, CASE v = 0 -> "release"
                       [] v # 0 /\ v < bin[p] -> "migrate"
                       [] OTHER -> "update")
    /\ UNCHANGED <<strategy, want, bin, clone, dbs, rollouts, restores, assumedFresh>>

\* Mutant: a migration that fails counts as run.
RunMigrationFailing(p) ==
    /\ pc[p] = "migrate"
    /\ \/ dbs' = [dbs EXCEPT ![clone[p]].applied = @ \cup {ver[p]}]
       \/ UNCHANGED dbs
    /\ Goto(p, "commit")
    /\ UNCHANGED <<strategy, want, bin, ver, clone, faults, rollouts, restores, assumedFresh>>

\* runMigrations: the migration runs on its own, the version follows in a transaction.
RunMigration(p) ==
    /\ pc[p] = "migrate"
    /\ dbs' = [dbs EXCEPT ![clone[p]].applied = @ \cup {ver[p]}]
    /\ Goto(p, "commit")
    /\ UNCHANGED <<strategy, want, bin, ver, clone, faults, rollouts, restores, assumedFresh>>

\* Mutant: one migration too many.
MoreToRunInclusive(p) == ver[p] + 1 <= bin[p]
MoreToRun(p) == ver[p] + 1 < bin[p]

\* VersionAfter has no minimum.
CommitVersion(p) ==
    /\ pc[p] = "commit"
    /\ SetVersion(p, ver[p] + 1, 0)
    /\ ver' = [ver EXCEPT ![p] = @ + 1]
    /\ Goto(p, IF MoreToRun(p) THEN "migrate" ELSE "update")
    /\ UNCHANGED <<strategy, want, bin, clone, faults, rollouts, restores, assumedFresh>>

\* UpdateToCurrentVersion: DELETE and INSERT, outside of a transaction.
DeleteVersion(p) ==
    /\ pc[p] = "update"
    /\ SetVersion(p, 0, 0)
    /\ Goto(p, "insert")
    /\ UNCHANGED <<strategy, want, bin, ver, clone, faults, rollouts, restores, assumedFresh>>

InsertVersion(p) ==
    /\ pc[p] = "insert"
    /\ SetVersion(p, bin[p], MinOf[bin[p]])
    /\ Goto(p, "release")
    /\ UNCHANGED <<strategy, want, bin, ver, clone, faults, rollouts, restores, assumedFresh>>

\* ApplyAllSchemas, then the deferred release.
Release(p) ==
    /\ pc[p] = "release"
    /\ Goto(p, "persist")
    /\ UNCHANGED <<strategy, want, bin, ver, clone, dbs, faults, rollouts, restores, assumedFresh>>

\* Persist, doPersist: drop the backup, then moveClones renames twice in a transaction.
Persist(p) ==
    /\ pc[p] = "persist"
    /\ \/ clone[p] = "current" /\ Goto(p, "ensure") /\ UNCHANGED dbs
       \/ clone[p] = "restore" /\ Goto(p, "swap") /\ dbs' = [dbs EXCEPT !["backup"] = NoDB]
    /\ ver' = [ver EXCEPT ![p] = 0]
    /\ UNCHANGED <<strategy, want, bin, clone, faults, rollouts, restores, assumedFresh>>

MoveClones(p) ==
    /\ pc[p] = "swap"
    /\ dbs' = [dbs EXCEPT !["backup"] = dbs["current"],
                          !["current"] = dbs["restore"],
                          !["restore"] = NoDB]
    /\ Goto(p, "ensure")
    /\ UNCHANGED <<strategy, want, bin, ver, clone, faults, rollouts, restores, assumedFresh>>

-----------------------------------------------------------------------------
\* Mutant: Central relies on its migrator.
VersionSufficesAlways(p) == pc[p] = "ensure"
VersionSuffices(p) == dbs["current"].seq # 0 /\ dbs["current"].seq >= bin[p]

\* Central starts: Ensure.  A Central that serves writes to its database.
Ensure(p) ==
    /\ pc[p] = "ensure"
    /\ Goto(p, IF VersionSuffices(p) THEN "serving" ELSE "start")
    /\ dbs' = IF VersionSuffices(p) /\ dbs["current"].gen = 0
              THEN [dbs EXCEPT !["current"].gen = 1] ELSE dbs
    /\ UNCHANGED <<strategy, want, bin, ver, clone, faults, rollouts, restores, assumedFresh>>

\* LoadRestoreStream, with the internal database: createdb ...
BeginRestore(p) ==
    /\ pc[p] = "serving" /\ strategy = "Recreate" /\ restores < MaxRestores
    /\ restores' = restores + 1
    /\ dbs' = [dbs EXCEPT !["restore"] = EmptyDB]
    /\ Goto(p, "restoring")
    /\ UNCHANGED <<strategy, want, bin, ver, clone, faults, rollouts, assumedFresh>>

\* ... pg_restore in a single transaction, after which Central restarts itself.
FinishRestore(p) ==
    /\ pc[p] = "restoring"
    /\ \E s \in Versions :
          /\ s >= MinOf[bin[p]]
          /\ dbs' = [dbs EXCEPT !["restore"] =
                       [seq |-> s, min |-> MinOf[s], applied |-> 1..(s - 1), gen |-> 1 + restores]]
    /\ Goto(p, "start")
    /\ UNCHANGED <<strategy, want, bin, ver, clone, faults, rollouts, restores, assumedFresh>>

\* The restore fails or is cancelled: the database is dropped.
FailRestore(p) ==
    /\ pc[p] = "restoring"
    /\ dbs' = [dbs EXCEPT !["restore"] = NoDB]
    /\ Goto(p, "serving")
    /\ UNCHANGED <<strategy, want, bin, ver, clone, faults, rollouts, restores, assumedFresh>>

Migrate(p) ==
    \/ Scan(p) \/ ScanRestore(p) \/ ReadFirst(p) \/ Acquire(p) \/ NotAcquired(p)
    \/ ReadAgain(p) \/ SetUpFresh(p) \/ Run(p) \/ RunMigration(p) \/ CommitVersion(p) \/ DeleteVersion(p) \/ InsertVersion(p)
    \/ Release(p) \/ Persist(p) \/ MoveClones(p) \/ Ensure(p)
Restore(p) == BeginRestore(p) \/ FinishRestore(p) \/ FailRestore(p)

Next ==
    \/ Rollout
    \/ \E p \in Pods : StartPod(p) \/ StopPod(p) \/ Crash(p) \/ Migrate(p) \/ Restore(p)

Spec == Init /\ [][Next]_vars
-----------------------------------------------------------------------------
\* The variables have their types; a migrator that is past its scan works on a database
\* that exists.
TypeOK ==
    /\ strategy \in {"RollingUpdate", "Recreate"}
    /\ want \in Versions
    /\ bin \in [Pods -> Versions]
    /\ pc \in [Pods -> PCs]
    /\ ver \in [Pods -> 0..MaxSeq]
    /\ clone \in [Pods -> {"current", "restore"}]
    /\ dbs \in [Names -> [seq : 0..MaxSeq, min : Nat, applied : SUBSET Versions,
                          gen : Gens \cup {-1}]]
    /\ lock \in Pods \cup {NoPod}
    /\ faults \in 0..MaxFaults /\ rollouts \in 0..MaxRollouts /\ restores \in 0..MaxRestores
    /\ assumedFresh \subseteq Gens

\* The migrations below version s.
Below(s) == 1..(s - 1)

\* Whatever crashes, overtakes or rolls back: a version in the database
\* (runner.go, UpdateToCurrentVersion and VersionAfter) says that the migrations below it
\* have run on its rows, unless rows were taken for a fresh install.
VersionMeansMigrated ==
    \A name \in Names : dbs[name].gen \notin assumedFresh => Below(dbs[name].seq) \subseteq dbs[name].applied

\* A Central that serves, with or without its migrator having held the lock, works on a
\* database with all migrations of its version (upgrade.go, ensure.go).
ServingMeansMigrated ==
    \A p \in Pods : pc[p] \in Serving /\ dbs["current"].gen \notin assumedFresh
        => Below(bin[p]) \subseteq dbs["current"].applied

\* What upgrade.go:93 says where it skips the migrations: without a version "we have no
\* populated databases at all".
FreshMeansEmpty ==
    \A p \in Pods : pc[p] = "fresh" => \A name \in Names : dbs[name].gen <= 0
=============================================================================
