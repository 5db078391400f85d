----------------------- MODULE StartupMigrationsProofs -----------------------
(***************************************************************************)
(* Proofs that a stored version means that its migrations have run, and    *)
(* that a Central that serves has all of its migrations, for any pods,     *)
(* versions, faults, rollouts and restores.                                *)
(*                                                                         *)
(* The argument does not need the lock: migrations are only added to a     *)
(* database while several pods work on it, what a pod has concluded from a *)
(* version it has read stays true, and a database is only replaced by      *)
(* another one when no other pod runs.                                     *)
(***************************************************************************)
EXTENDS StartupMigrations, TLAPS

\* With the internal database at most one pod runs.
OnePod ==
    strategy = "Recreate" => \A p, q \in Pods : pc[p] # "off" /\ pc[q] # "off" => p = q

\* A database is absent or has rows of a known origin; an empty one is never taken for a
\* populated one.
DatabasesOK ==
    /\ \A name \in Names : dbs[name] = NoDB \/ dbs[name].gen \in Gens
    /\ dbs["current"].gen \in Gens
    /\ 0 \notin assumedFresh

\* The migrations below s have run on d, unless d was taken for a fresh install.
Migrated(d, s) == d.gen \notin assumedFresh => Below(s) \subseteq d.applied

PastScan == {"scanned", "read", "persist", "swap"} \cup Locked

\* Which database a pod works on.
CloneOK(p) ==
    /\ pc[p] \notin {"off", "start"} /\ strategy = "RollingUpdate" => clone[p] = "current"
    /\ pc[p] = "scan" => clone[p] = "current" /\ strategy = "Recreate"
    /\ pc[p] \in PastScan => dbs[clone[p]].gen \in Gens
    /\ pc[p] = "swap" => clone[p] = "restore"
    /\ pc[p] = "restoring" => strategy = "Recreate"

\* What a pod may conclude from the version it has read.
ProgressOK(p) ==
    /\ pc[p] \in {"migrate", "commit"} => ver[p] \in 1..(bin[p] - 1) /\ Migrated(dbs[clone[p]], ver[p])
    /\ pc[p] = "commit" => ver[p] \in dbs[clone[p]].applied
    /\ pc[p] \in {"update", "insert"} => Migrated(dbs[clone[p]], bin[p])
    /\ pc[p] \in Serving => Migrated(dbs["current"], bin[p])

IInv ==
    /\ TypeOK
    /\ OnePod
    /\ DatabasesOK
    /\ VersionMeansMigrated
    /\ \A p \in Pods : CloneOK(p) /\ ProgressOK(p)
-----------------------------------------------------------------------------
\* What a step does to the databases while several pods may work on them.
Grows ==
    /\ \A name \in Names :
          /\ dbs[name].applied \subseteq dbs'[name].applied
          /\ dbs'[name].gen = dbs[name].gen \/ (dbs[name].gen = 0 /\ dbs'[name].gen \in Gens)
    /\ assumedFresh \subseteq assumedFresh'

\* A pod that runs no migrator has concluded nothing.
LEMMA IdlePod ==
    ASSUME NEW q \in Pods, pc'[q] \in {"off", "start"}
    PROVE  CloneOK(q)' /\ ProgressOK(q)'
BY DEF CloneOK, ProgressOK, PastScan, Locked, Serving

\* What another pod has concluded stays true when its database grows.
LEMMA GrowthKeeps ==
    ASSUME TypeOK, DatabasesOK, Grows, NEW q \in Pods, CloneOK(q), ProgressOK(q),
           strategy' = strategy, pc'[q] = pc[q], bin'[q] = bin[q],
           ver'[q] = ver[q], clone'[q] = clone[q]
    PROVE  CloneOK(q)' /\ ProgressOK(q)'
<1>1. clone[q] \in Names
  BY DEF TypeOK, Names
<1>2. \A name \in Names : dbs[name].gen \in Gens => dbs'[name].gen \in Gens
  BY DEF Grows
<1>3. CloneOK(q)'
  BY <1>1, <1>2 DEF CloneOK
<1>4. Migrated(dbs[clone[q]], ver[q]) => Migrated(dbs[clone[q]], ver[q])'
  BY <1>1 DEF Grows, Migrated, DatabasesOK
<1>5. Migrated(dbs[clone[q]], bin[q]) => Migrated(dbs[clone[q]], bin[q])'
  BY <1>1 DEF Grows, Migrated, DatabasesOK
<1>6. Migrated(dbs["current"], bin[q]) => Migrated(dbs["current"], bin[q])'
  BY DEF Grows, Migrated, DatabasesOK, Names
<1>7. dbs[clone[q]].applied \subseteq dbs'[clone'[q]].applied
  BY <1>1 DEF Grows
<1>8. ProgressOK(q)'
  BY <1>4, <1>5, <1>6, <1>7 DEF ProgressOK
<1> QED
  BY <1>3, <1>8

\* A step that leaves the databases alone.
LEMMA QuietStep ==
    ASSUME TypeOK, DatabasesOK, VersionMeansMigrated, UNCHANGED <<dbs, assumedFresh>>
    PROVE  DatabasesOK' /\ VersionMeansMigrated' /\ Grows
BY DEF DatabasesOK, VersionMeansMigrated, Grows

\* A step of the pod p preserves the invariant if it preserves what concerns p and the
\* databases, and the databases grow or no other pod runs.
LEMMA PodStep ==
    ASSUME IInv, NEW p \in Pods, pc[p] # "off", NEW place, pc' = [pc EXCEPT ![p] = place],
           UNCHANGED <<strategy, bin>>,
           \A q \in Pods \ {p} : ver'[q] = ver[q] /\ clone'[q] = clone[q],
           TypeOK', DatabasesOK', VersionMeansMigrated', CloneOK(p)', ProgressOK(p)',
           Grows \/ strategy = "Recreate"
    PROVE  IInv'
<1>1. OnePod'
  BY DEF IInv, OnePod, TypeOK
<1>2. ASSUME NEW q \in Pods, q # p
      PROVE  CloneOK(q)' /\ ProgressOK(q)'
  <2>1. pc'[q] = pc[q] /\ bin'[q] = bin[q] /\ ver'[q] = ver[q] /\ clone'[q] = clone[q]
    BY <1>2 DEF IInv, TypeOK
  <2>2. CASE Grows
    BY <2>1, <2>2, GrowthKeeps DEF IInv
  <2>3. CASE strategy = "Recreate"
    <3>1. pc'[q] = "off"
      BY <1>2, <2>1, <2>3 DEF IInv, OnePod
    <3> QED
      BY <3>1, IdlePod
  <2> QED
    BY <2>2, <2>3
<1> QED
  BY <1>1, <1>2 DEF IInv

\* Goto keeps the lock with a pod or frees it.
LEMMA GotoType ==
    ASSUME TypeOK, NEW p \in Pods, NEW place \in PCs, Goto(p, place)
    PROVE  pc' \in [Pods -> PCs] /\ lock' \in Pods \cup {NoPod} /\ pc'[p] = place
BY DEF TypeOK, Goto
\* A process that ends forgets the version it has read.
LEMMA VerReset ==
    ASSUME TypeOK, NEW p \in Pods, ver' = [ver EXCEPT ![p] = 0]
    PROVE  ver' \in [Pods -> 0..MaxSeq] /\ \A q \in Pods \ {p} : ver'[q] = ver[q]
<1>1. 0 \in 0..MaxSeq
  BY VersionsAssumption
<1> QED
  BY <1>1 DEF TypeOK
-----------------------------------------------------------------------------
LEMMA InitIInv == Init => IInv
<1> SUFFICES ASSUME Init PROVE IInv
  OBVIOUS
<1> USE VersionsAssumption, PodsAssumption, BoundsAssumption
<1>1. TypeOK
  BY DEF Init, TypeOK, Versions, Names, NoDB, EmptyDB, Gens, PCs, Locked, Serving
<1>2. OnePod
  BY DEF Init, OnePod
<1>3. DatabasesOK
  BY DEF Init, DatabasesOK, Names, NoDB, EmptyDB, Gens
<1>4. VersionMeansMigrated
  BY DEF Init, VersionMeansMigrated, Names, NoDB, EmptyDB, Below
<1>5. \A p \in Pods : CloneOK(p) /\ ProgressOK(p)
  BY DEF Init, CloneOK, ProgressOK, PastScan, Locked, Serving
<1> QED
  BY <1>1, <1>2, <1>3, <1>4, <1>5 DEF IInv

LEMMA RolloutStep == IInv /\ Rollout => IInv'
<1> SUFFICES ASSUME IInv, Rollout PROVE IInv'
  OBVIOUS
<1>1. TypeOK'
  BY BoundsAssumption DEF IInv, TypeOK, Rollout
<1>2. DatabasesOK' /\ VersionMeansMigrated' /\ Grows
  BY QuietStep DEF IInv, Rollout
<1>3. OnePod'
  BY DEF IInv, OnePod, Rollout
<1>4. \A p \in Pods : CloneOK(p)' /\ ProgressOK(p)'
  BY <1>2, GrowthKeeps DEF IInv, Rollout
<1> QED
  BY <1>1, <1>2, <1>3, <1>4 DEF IInv

LEMMA StartPodStep == ASSUME IInv, NEW p \in Pods, StartPod(p) PROVE IInv'
<1>1. TypeOK'
  BY GotoType DEF IInv, TypeOK, StartPod, PCs
<1>2. DatabasesOK' /\ VersionMeansMigrated' /\ Grows
  BY QuietStep DEF IInv, StartPod
<1>3. OnePod'
  BY DEF IInv, TypeOK, OnePod, StartPod, Goto
<1>4. ASSUME NEW q \in Pods
      PROVE  CloneOK(q)' /\ ProgressOK(q)'
  <2>1. CASE q = p
    BY <2>1, IdlePod DEF IInv, TypeOK, StartPod, Goto
  <2>2. CASE q # p
    <3>1. pc'[q] = pc[q] /\ bin'[q] = bin[q] /\ ver'[q] = ver[q] /\ clone'[q] = clone[q]
      BY <2>2 DEF IInv, TypeOK, StartPod, Goto
    <3> QED
      BY <1>2, <3>1, GrowthKeeps DEF IInv, StartPod
  <2> QED
    BY <2>1, <2>2
<1> QED
  BY <1>1, <1>2, <1>3, <1>4 DEF IInv

LEMMA StopPodStep == ASSUME IInv, NEW p \in Pods, StopPod(p) PROVE IInv'
<1>1. TypeOK' /\ pc'[p] = "off"
  BY GotoType, VerReset DEF IInv, TypeOK, StopPod, PCs
<1>2. DatabasesOK' /\ VersionMeansMigrated' /\ Grows
  BY QuietStep DEF IInv, StopPod
<1> QED
  BY <1>1, <1>2, IdlePod, VerReset, PodStep DEF IInv, StopPod, Goto

LEMMA CrashStep == ASSUME IInv, NEW p \in Pods, Crash(p) PROVE IInv'
<1>1. TypeOK' /\ pc'[p] = "start"
  <2>1. /\ pc' \in [Pods -> PCs] /\ lock' \in Pods \cup {NoPod} /\ pc'[p] = "start"
        /\ ver' \in [Pods -> 0..MaxSeq]
    BY GotoType, VerReset DEF IInv, Crash, PCs
  <2>2. faults' \in 0..MaxFaults
    BY BoundsAssumption DEF IInv, TypeOK, Crash
  <2> QED
    BY <2>1, <2>2 DEF IInv, TypeOK, Crash
<1>2. DatabasesOK' /\ VersionMeansMigrated' /\ Grows
  BY QuietStep DEF IInv, Crash
<1> QED
  BY <1>1, <1>2, IdlePod, VerReset, PodStep DEF IInv, Crash, Goto
-----------------------------------------------------------------------------
\* Reading a version returns the one of the database, or 0.
LEMMA ReadType ==
    ASSUME TypeOK, NEW name \in Names, NEW v, ReadVersion(dbs[name], v)
    PROVE  v \in {0, dbs[name].seq} /\ faults' \in 0..MaxFaults
BY BoundsAssumption DEF TypeOK, ReadVersion

LEMMA ScanStep == ASSUME IInv, NEW p \in Pods, Scan(p) PROVE IInv'
<1> DEFINE place == IF strategy = "Recreate" THEN "scan" ELSE "scanned"
<1>1. place \in {"scan", "scanned"} /\ place \in PCs
  BY DEF PCs
<1>2. pc'[p] = place /\ clone'[p] = "current"
  BY <1>1, GotoType DEF IInv, TypeOK, Scan
<1>3. TypeOK'
  BY <1>1, GotoType, ReadType DEF IInv, TypeOK, Scan, Names
<1>4. DatabasesOK' /\ VersionMeansMigrated' /\ Grows
  BY QuietStep DEF IInv, Scan
<1>5. CloneOK(p)'
  BY <1>1, <1>2, <1>4 DEF IInv, TypeOK, CloneOK, DatabasesOK, Scan
<1>6. ProgressOK(p)'
  BY <1>1, <1>2 DEF ProgressOK, Serving
<1>7. pc[p] # "off" /\ pc' = [pc EXCEPT ![p] = place] /\ UNCHANGED <<strategy, bin>>
  BY DEF Scan, Goto
<1>8. \A q \in Pods \ {p} : ver'[q] = ver[q] /\ clone'[q] = clone[q]
  BY DEF IInv, TypeOK, Scan
<1> QED
  BY <1>3, <1>4, <1>5, <1>6, <1>7, <1>8, PodStep

LEMMA ScanRestoreStep == ASSUME IInv, NEW p \in Pods, ScanRestore(p) PROVE IInv'
<1>1. PICK place \in {"start", "scanned"} : Goto(p, place)
  BY DEF ScanRestore
<1>2. place \in PCs /\ pc'[p] = place
  BY <1>1, GotoType DEF IInv, PCs
<1>3. TypeOK'
  BY <1>1, <1>2, GotoType, ReadType DEF IInv, TypeOK, ScanRestore, Names
<1>4. DatabasesOK' /\ VersionMeansMigrated' /\ Grows
  BY QuietStep DEF IInv, ScanRestore
<1>5. pc[p] = "scan" /\ clone[p] = "current" /\ strategy = "Recreate"
  BY DEF IInv, TypeOK, CloneOK, ScanRestore
<1>6. dbs'[clone'[p]].gen \in Gens
  <2>1. CASE UNCHANGED clone
    BY <1>4, <1>5, <2>1 DEF DatabasesOK
  <2>2. CASE Exists("restore") /\ clone' = [clone EXCEPT ![p] = "restore"]
    BY <2>2 DEF IInv, TypeOK, DatabasesOK, Exists, Names, ScanRestore
  <2> QED
    BY <2>1, <2>2 DEF ScanRestore
<1>7. CloneOK(p)'
  BY <1>2, <1>5, <1>6 DEF CloneOK, ScanRestore
<1>8. ProgressOK(p)'
  BY <1>2 DEF ProgressOK, Serving
<1>9. \A q \in Pods \ {p} : ver'[q] = ver[q] /\ clone'[q] = clone[q]
  BY DEF IInv, TypeOK, ScanRestore
<1>10. pc' = [pc EXCEPT ![p] = place] /\ UNCHANGED <<strategy, bin>>
  BY <1>1 DEF ScanRestore, Goto
<1> QED
  BY <1>3, <1>4, <1>5, <1>7, <1>8, <1>9, <1>10, PodStep

\* A migrator that goes on with the same database.
LEMMA QuietMigratorStep ==
    ASSUME IInv, NEW p \in Pods, pc[p] \in PastScan, NEW place \in ({"start"} \cup PastScan) \ {"swap"},
           pc' = [pc EXCEPT ![p] = place], TypeOK',
           UNCHANGED <<strategy, bin, clone, dbs, assumedFresh>>,
           \A q \in Pods \ {p} : ver'[q] = ver[q],
           ProgressOK(p)'
    PROVE  IInv'
<1>1. DatabasesOK' /\ VersionMeansMigrated' /\ Grows
  BY QuietStep DEF IInv
<1>2. pc'[p] = place
  BY DEF IInv, TypeOK
<1>3. CloneOK(p)'
  BY <1>2 DEF IInv, CloneOK, PastScan, Locked
<1>4. pc[p] # "off"
  BY DEF PastScan, Locked
<1> QED
  BY <1>1, <1>3, <1>4, PodStep

LEMMA ReadFirstStep == ASSUME IInv, NEW p \in Pods, ReadFirst(p) PROVE IInv'
<1>1. clone[p] \in Names
  BY DEF IInv, TypeOK, Names
<1>2. TypeOK' /\ pc'[p] = "read"
  BY <1>1, GotoType, ReadType DEF IInv, TypeOK, ReadFirst, PCs
<1>3. ProgressOK(p)'
  BY <1>2 DEF ProgressOK, Serving
<1>4. \A q \in Pods \ {p} : ver'[q] = ver[q]
  BY DEF IInv, TypeOK, ReadFirst
<1> QED
  BY <1>2, <1>3, <1>4, QuietMigratorStep DEF ReadFirst, Goto, PastScan

LEMMA AcquireStep == ASSUME IInv, NEW p \in Pods, Acquire(p) PROVE IInv'
<1>1. TypeOK' /\ pc'[p] = "locked"
  BY DEF IInv, TypeOK, Acquire, PCs, Locked
<1>2. ProgressOK(p)'
  BY <1>1 DEF ProgressOK, Serving
<1> QED
  BY <1>1, <1>2, QuietMigratorStep DEF Acquire, PastScan, Locked

LEMMA NotAcquiredStep == ASSUME IInv, NEW p \in Pods, NotAcquired(p) PROVE IInv'
<1>1. PICK place \in {"start", "persist"} : Goto(p, place)
  BY DEF NotAcquired
<1>2. TypeOK' /\ pc'[p] = place
  BY <1>1, GotoType DEF IInv, TypeOK, NotAcquired, PCs
<1>3. ProgressOK(p)'
  BY <1>2 DEF ProgressOK, Serving
<1> QED
  BY <1>1, <1>2, <1>3, QuietMigratorStep DEF NotAcquired, Goto, PastScan

LEMMA ReadAgainStep == ASSUME IInv, NEW p \in Pods, ReadAgain(p) PROVE IInv'
<1>1. clone[p] \in Names
  BY DEF IInv, TypeOK, Names
<1>2. PICK place \in {"fresh", "run"} : Goto(p, place)
  BY DEF ReadAgain
<1>3. TypeOK' /\ pc'[p] = place
  BY <1>1, <1>2, GotoType, ReadType DEF IInv, TypeOK, ReadAgain, PCs, Locked
<1>4. ProgressOK(p)'
  BY <1>3 DEF ProgressOK, Serving
<1> QED
  BY <1>2, <1>3, <1>4, QuietMigratorStep DEF ReadAgain, Goto, PastScan, Locked

\* The version that is read, if any, says which migrations have run.
LEMMA RunStep == ASSUME IInv, NEW p \in Pods, Run(p) PROVE IInv'
<1>1. clone[p] \in Names
  BY DEF IInv, TypeOK, Names
<1>2. PICK v \in 0..MaxSeq : /\ ReadVersion(dbs[clone[p]], v)
                             /\ ver' = [ver EXCEPT ![p] = v]
                             /\ Goto(p, CASE v = 0 -> "release"
                                          [] v # 0 /\ v < bin[p] -> "migrate"
                                          [] OTHER -> "update")
  BY DEF Run
<1>3. PICK place : /\ Goto(p, place)
                   /\ \/ v = 0 /\ place = "release"
                      \/ v # 0 /\ v < bin[p] /\ place = "migrate"
                      \/ v # 0 /\ ~(v < bin[p]) /\ place = "update"
  BY <1>2
<1>4. place \in PCs /\ ver'[p] = v
  BY <1>2, <1>3 DEF IInv, TypeOK, PCs, Locked
<1>5. TypeOK' /\ pc'[p] = place
  BY <1>1, <1>2, <1>3, <1>4, GotoType, ReadType DEF IInv, TypeOK, Run
<1>6. v # 0 => Migrated(dbs[clone[p]], v)
  BY <1>1, <1>2, ReadType DEF IInv, VersionMeansMigrated, Migrated
<1>7. v \in Int /\ bin[p] \in Int
  BY <1>2, VersionsAssumption DEF IInv, TypeOK, Versions
<1>8. v # 0 /\ ~(v < bin[p]) => Migrated(dbs[clone[p]], bin[p])
  BY <1>6, <1>7 DEF Migrated, Below
<1>9. v # 0 /\ v < bin[p] => v \in 1..(bin[p] - 1)
  BY <1>2, <1>7, VersionsAssumption
<1>10. ProgressOK(p)'
  BY <1>3, <1>4, <1>5, <1>6, <1>8, <1>9 DEF ProgressOK, Serving, Run, Migrated
<1>11. \A q \in Pods \ {p} : ver'[q] = ver[q]
  BY DEF IInv, TypeOK, Run
<1> QED
  BY <1>3, <1>5, <1>10, <1>11, QuietMigratorStep DEF Run, Goto, PastScan, Locked

LEMMA ReleaseStep == ASSUME IInv, NEW p \in Pods, Release(p) PROVE IInv'
<1>1. TypeOK' /\ pc'[p] = "persist"
  BY GotoType DEF IInv, TypeOK, Release, PCs
<1>2. ProgressOK(p)'
  BY <1>1 DEF ProgressOK, Serving
<1> QED
  BY <1>1, <1>2, QuietMigratorStep DEF Release, Goto, PastScan, Locked
-----------------------------------------------------------------------------
DB == [seq : 0..MaxSeq, min : Nat, applied : SUBSET Versions, gen : Gens \cup {-1}]

\* A database in which migrations are added, and whose version they justify.
LEMMA WriteOK ==
    ASSUME TypeOK, DatabasesOK, VersionMeansMigrated, NEW name \in Names, NEW d \in DB,
           dbs' = [dbs EXCEPT ![name] = d],
           dbs[name].applied \subseteq d.applied,
           d.gen \in Gens, d.gen = dbs[name].gen \/ dbs[name].gen = 0,
           d.gen \notin assumedFresh' => Below(d.seq) \subseteq d.applied,
           assumedFresh \subseteq assumedFresh', 0 \notin assumedFresh'
    PROVE  dbs' \in [Names -> DB] /\ DatabasesOK' /\ VersionMeansMigrated' /\ Grows
<1>1. dbs \in [Names -> DB]
  BY DEF TypeOK, DB
<1>2. dbs' \in [Names -> DB] /\ dbs'[name] = d /\ \A n \in Names \ {name} : dbs'[n] = dbs[n]
  BY <1>1
<1>3. DatabasesOK'
  BY <1>2 DEF DatabasesOK
<1>4. VersionMeansMigrated'
  BY <1>2 DEF VersionMeansMigrated
<1>5. Grows
  BY <1>2 DEF Grows
<1> QED
  BY <1>2, <1>3, <1>4, <1>5

\* A migrator that writes to its database and goes on with it.
LEMMA WritingMigratorStep ==
    ASSUME IInv, NEW p \in Pods, pc[p] \in PastScan, NEW place \in PastScan \ {"swap"},
           Goto(p, place), TypeOK', DatabasesOK', VersionMeansMigrated', Grows,
           UNCHANGED <<strategy, bin, clone>>,
           \A q \in Pods \ {p} : ver'[q] = ver[q],
           ProgressOK(p)'
    PROVE  IInv'
<1>1. pc'[p] = place /\ clone[p] \in Names
  BY DEF IInv, TypeOK, Goto, Names
<1>2. dbs'[clone[p]].gen \in Gens
  BY <1>1 DEF IInv, CloneOK, Grows
<1>3. CloneOK(p)'
  BY <1>1, <1>2 DEF IInv, CloneOK, PastScan, Locked
<1> QED
  BY <1>3, PodStep DEF Goto, PastScan, Locked

LEMMA SetUpFreshStep == ASSUME IInv, NEW p \in Pods, SetUpFresh(p) PROVE IInv'
<1> DEFINE old == dbs[clone[p]]
           new == [old EXCEPT !.seq = bin[p], !.min = MinOf[bin[p]],
                              !.applied = IF old.gen = 0 THEN @ \cup (1..(bin[p] - 1)) ELSE @]
<1> USE VersionsAssumption
<1>1. clone[p] \in Names /\ old \in DB /\ bin[p] \in Versions
  BY DEF IInv, TypeOK, Names, DB
<1>2. old.gen \in Gens
  BY DEF IInv, CloneOK, SetUpFresh, PastScan, Locked
<1>3. 1..(bin[p] - 1) \subseteq Versions /\ bin[p] \in 0..MaxSeq /\ MinOf[bin[p]] \in Nat
  BY <1>1 DEF Versions
<1>4. /\ new \in DB /\ new.gen = old.gen /\ old.applied \subseteq new.applied
      /\ new.seq = bin[p]
      /\ old.gen = 0 => 1..(bin[p] - 1) \subseteq new.applied
  BY <1>1, <1>3 DEF DB
<1>5. /\ dbs' = [dbs EXCEPT ![clone[p]] = new]
      /\ assumedFresh' = IF old.gen = 0 THEN assumedFresh ELSE assumedFresh \cup {old.gen}
  BY DEF SetUpFresh
<1>6. assumedFresh \subseteq assumedFresh' /\ 0 \notin assumedFresh' /\ assumedFresh' \subseteq Gens
  BY <1>2, <1>5 DEF IInv, DatabasesOK, TypeOK
<1>7. new.gen \notin assumedFresh' => Below(new.seq) \subseteq new.applied
  BY <1>4, <1>5 DEF Below
<1>8. dbs' \in [Names -> DB] /\ DatabasesOK' /\ VersionMeansMigrated' /\ Grows
  BY <1>1, <1>2, <1>4, <1>5, <1>6, <1>7, WriteOK DEF IInv
<1>9. TypeOK' /\ pc'[p] = "persist"
  BY <1>6, <1>8, GotoType DEF IInv, TypeOK, DB, SetUpFresh, PCs
<1>10. ProgressOK(p)'
  BY <1>9 DEF ProgressOK, Serving
<1> QED
  BY <1>8, <1>9, <1>10, WritingMigratorStep DEF SetUpFresh, PastScan, Locked

LEMMA RunMigrationStep == ASSUME IInv, NEW p \in Pods, RunMigration(p) PROVE IInv'
<1> DEFINE old == dbs[clone[p]]
           new == [old EXCEPT !.applied = @ \cup {ver[p]}]
<1>1. clone[p] \in Names /\ old \in DB /\ bin[p] \in Versions
  BY DEF IInv, TypeOK, Names, DB
<1>2. old.gen \in Gens /\ ver[p] \in 1..(bin[p] - 1) /\ Migrated(old, ver[p])
  BY DEF IInv, CloneOK, ProgressOK, RunMigration, PastScan, Locked
<1>3. ver[p] \in Versions
  BY <1>1, <1>2, VersionsAssumption DEF Versions
<1>4. /\ new \in DB /\ new.gen = old.gen /\ old.applied \subseteq new.applied
      /\ new.seq = old.seq /\ ver[p] \in new.applied
  BY <1>1, <1>3 DEF DB
<1>5. dbs' = [dbs EXCEPT ![clone[p]] = new] /\ assumedFresh' = assumedFresh
  BY DEF RunMigration
<1>6. new.gen \notin assumedFresh' => Below(new.seq) \subseteq new.applied
  BY <1>1, <1>4, <1>5 DEF IInv, VersionMeansMigrated
<1>7. dbs' \in [Names -> DB] /\ DatabasesOK' /\ VersionMeansMigrated' /\ Grows
  BY <1>1, <1>2, <1>4, <1>5, <1>6, WriteOK DEF IInv, DatabasesOK
<1>8. TypeOK' /\ pc'[p] = "commit"
  BY <1>7, GotoType DEF IInv, TypeOK, DB, RunMigration, PCs, Locked
<1>9. dbs'[clone[p]] = new
  BY <1>1, <1>5 DEF IInv, TypeOK
<1>10. ProgressOK(p)'
  BY <1>2, <1>4, <1>5, <1>8, <1>9 DEF ProgressOK, Serving, Migrated, RunMigration
<1> QED
  BY <1>7, <1>8, <1>10, WritingMigratorStep DEF RunMigration, PastScan, Locked

\* SetVersion replaces the row only.
LEMMA SetVersionOK ==
    ASSUME IInv, NEW p \in Pods, pc[p] \in PastScan, NEW seq \in 0..MaxSeq, NEW min \in Nat,
           SetVersion(p, seq, min), UNCHANGED assumedFresh, Migrated(dbs[clone[p]], seq)
    PROVE  /\ dbs' \in [Names -> DB] /\ DatabasesOK' /\ VersionMeansMigrated' /\ Grows
           /\ dbs'[clone[p]].applied = dbs[clone[p]].applied
           /\ dbs'[clone[p]].gen = dbs[clone[p]].gen
<1> DEFINE old == dbs[clone[p]]
           new == [old EXCEPT !.seq = seq, !.min = min]
<1>1. clone[p] \in Names /\ old \in DB /\ old.gen \in Gens
  BY DEF IInv, TypeOK, CloneOK, Names, DB
<1>2. dbs' = [dbs EXCEPT ![clone[p]] = new]
  BY <1>1 DEF IInv, TypeOK, SetVersion
<1>3. /\ new \in DB /\ new.gen = old.gen /\ new.applied = old.applied /\ new.seq = seq
  BY <1>1 DEF DB
<1>4. dbs'[clone[p]] = new
  BY <1>1, <1>2 DEF IInv, TypeOK
<1>5. new.gen \notin assumedFresh' => Below(new.seq) \subseteq new.applied
  BY <1>3 DEF Migrated
<1>6. dbs' \in [Names -> DB] /\ DatabasesOK' /\ VersionMeansMigrated' /\ Grows
  BY <1>1, <1>2, <1>3, <1>5, WriteOK DEF IInv, DatabasesOK
<1> QED
  BY <1>3, <1>4, <1>6

LEMMA CommitVersionStep == ASSUME IInv, NEW p \in Pods, CommitVersion(p) PROVE IInv'
<1> USE VersionsAssumption
<1>1. bin[p] \in Versions /\ ver[p] \in 1..(bin[p] - 1) /\ pc[p] \in PastScan
  BY DEF IInv, TypeOK, ProgressOK, CommitVersion, PastScan, Locked
<1>2. ver[p] + 1 \in 0..MaxSeq
  BY <1>1 DEF Versions
<1>3. Migrated(dbs[clone[p]], ver[p]) /\ ver[p] \in dbs[clone[p]].applied
  BY DEF IInv, ProgressOK, CommitVersion
<1>4. Migrated(dbs[clone[p]], ver[p] + 1)
  BY <1>1, <1>3 DEF Migrated, Below, Versions
<1>5. /\ dbs' \in [Names -> DB] /\ DatabasesOK' /\ VersionMeansMigrated' /\ Grows
      /\ dbs'[clone[p]].applied = dbs[clone[p]].applied
      /\ dbs'[clone[p]].gen = dbs[clone[p]].gen
  BY <1>1, <1>2, <1>4, SetVersionOK DEF CommitVersion
<1>6. PICK place : /\ Goto(p, place)
                   /\ \/ ver[p] + 1 < bin[p] /\ place = "migrate"
                      \/ ~(ver[p] + 1 < bin[p]) /\ place = "update"
  BY DEF CommitVersion, MoreToRun
<1>7. place \in PCs /\ place \in PastScan \ {"swap"} /\ ver'[p] = ver[p] + 1
  BY <1>6 DEF PCs, PastScan, Locked, CommitVersion, IInv, TypeOK
<1>8. TypeOK' /\ pc'[p] = place
  BY <1>2, <1>5, <1>6, <1>7, GotoType DEF IInv, TypeOK, DB, CommitVersion
<1>9. ProgressOK(p)'
  <2>1. CASE ver[p] + 1 < bin[p] /\ place = "migrate"
    <3>1. Migrated(dbs[clone[p]], ver[p])' /\ ver'[p] \in 1..(bin'[p] - 1)
      BY <1>1, <1>4, <1>5, <1>7, <2>1 DEF Migrated, CommitVersion, Versions
    <3> QED
      BY <1>8, <2>1, <3>1 DEF ProgressOK, Serving
  <2>2. CASE ~(ver[p] + 1 < bin[p]) /\ place = "update"
    <3>1. bin[p] = ver[p] + 1
      BY <1>1, <2>2 DEF Versions
    <3>2. Migrated(dbs[clone[p]], bin[p])'
      BY <1>4, <1>5, <3>1 DEF Migrated, CommitVersion
    <3> QED
      BY <1>8, <2>2, <3>2 DEF ProgressOK, Serving
  <2> QED
    BY <1>6, <2>1, <2>2
<1>10. \A q \in Pods \ {p} : ver'[q] = ver[q]
  BY DEF IInv, TypeOK, CommitVersion
<1> QED
  BY <1>1, <1>5, <1>6, <1>7, <1>8, <1>9, <1>10, WritingMigratorStep DEF CommitVersion

LEMMA DeleteVersionStep == ASSUME IInv, NEW p \in Pods, DeleteVersion(p) PROVE IInv'
<1>1. pc[p] \in PastScan /\ Migrated(dbs[clone[p]], bin[p])
  BY DEF IInv, ProgressOK, DeleteVersion, PastScan, Locked
<1>2. Migrated(dbs[clone[p]], 0) /\ 0 \in 0..MaxSeq /\ 0 \in Nat
  BY VersionsAssumption DEF Migrated, Below
<1>3. /\ dbs' \in [Names -> DB] /\ DatabasesOK' /\ VersionMeansMigrated' /\ Grows
      /\ dbs'[clone[p]].applied = dbs[clone[p]].applied
      /\ dbs'[clone[p]].gen = dbs[clone[p]].gen
  BY <1>1, <1>2, SetVersionOK DEF DeleteVersion
<1>4. TypeOK' /\ pc'[p] = "insert"
  BY <1>3, GotoType DEF IInv, TypeOK, DB, DeleteVersion, PCs, Locked
<1>5. ProgressOK(p)'
  BY <1>1, <1>3, <1>4 DEF ProgressOK, Serving, Migrated, DeleteVersion
<1> QED
  BY <1>1, <1>3, <1>4, <1>5, WritingMigratorStep DEF DeleteVersion, PastScan, Locked

LEMMA InsertVersionStep == ASSUME IInv, NEW p \in Pods, InsertVersion(p) PROVE IInv'
<1>1. pc[p] \in PastScan /\ Migrated(dbs[clone[p]], bin[p]) /\ bin[p] \in Versions
  BY DEF IInv, TypeOK, ProgressOK, InsertVersion, PastScan, Locked
<1>2. bin[p] \in 0..MaxSeq /\ MinOf[bin[p]] \in Nat
  BY <1>1, VersionsAssumption DEF Versions
<1>3. dbs' \in [Names -> DB] /\ DatabasesOK' /\ VersionMeansMigrated' /\ Grows
  BY <1>1, <1>2, SetVersionOK DEF InsertVersion
<1>4. TypeOK' /\ pc'[p] = "release"
  BY <1>3, GotoType DEF IInv, TypeOK, DB, InsertVersion, PCs, Locked
<1>5. ProgressOK(p)'
  BY <1>4 DEF ProgressOK, Serving
<1> QED
  BY <1>1, <1>3, <1>4, <1>5, WritingMigratorStep DEF InsertVersion, PastScan, Locked
-----------------------------------------------------------------------------
LEMMA PersistStep == ASSUME IInv, NEW p \in Pods, Persist(p) PROVE IInv'
<1>1. clone[p] \in Names \ {"backup"} /\ dbs[clone[p]].gen \in Gens
  BY DEF IInv, TypeOK, CloneOK, Persist, Names, PastScan
<1>2. CASE clone[p] = "current" /\ Goto(p, "ensure") /\ UNCHANGED dbs
  <2>1. TypeOK' /\ pc'[p] = "ensure"
    BY <1>2, GotoType, VerReset DEF IInv, TypeOK, Persist, PCs
  <2>2. DatabasesOK' /\ VersionMeansMigrated' /\ Grows
    BY <1>2, QuietStep DEF IInv, Persist
  <2>3. CloneOK(p)' /\ ProgressOK(p)'
    BY <1>2, <2>1 DEF CloneOK, ProgressOK, PastScan, Locked, Serving, Persist
  <2> QED
    BY <1>2, <2>1, <2>2, <2>3, VerReset, PodStep DEF IInv, Persist, Goto
<1>3. CASE clone[p] = "restore" /\ Goto(p, "swap") /\ dbs' = [dbs EXCEPT !["backup"] = NoDB]
  <2>1. NoDB \in DB
    BY VersionsAssumption DEF NoDB, DB
  <2>2. /\ dbs' \in [Names -> DB] /\ dbs'["backup"] = NoDB
        /\ dbs'["current"] = dbs["current"] /\ dbs'["restore"] = dbs["restore"]
    BY <1>3, <2>1 DEF IInv, TypeOK, DB, Names
  <2>3. TypeOK' /\ pc'[p] = "swap"
    BY <1>3, <2>2, GotoType, VerReset DEF IInv, TypeOK, DB, Persist, PCs
  <2>4. DatabasesOK' /\ VersionMeansMigrated'
    <3>1. Below(NoDB.seq) = {}
      BY DEF NoDB, Below
    <3> QED
      BY <2>2, <3>1 DEF IInv, DatabasesOK, VersionMeansMigrated, Persist, Names
  <2>5. strategy = "Recreate"
    BY <1>3 DEF IInv, TypeOK, CloneOK, Persist
  <2>6. CloneOK(p)' /\ ProgressOK(p)'
    BY <1>1, <1>3, <2>2, <2>3, <2>5 DEF CloneOK, ProgressOK, PastScan, Locked, Serving, Persist
  <2> QED
    BY <1>3, <2>3, <2>4, <2>5, <2>6, VerReset, PodStep DEF IInv, Persist, Goto
<1> QED
  BY <1>2, <1>3 DEF Persist

LEMMA MoveClonesStep == ASSUME IInv, NEW p \in Pods, MoveClones(p) PROVE IInv'
<1>1. clone[p] = "restore" /\ dbs["restore"].gen \in Gens /\ strategy = "Recreate"
  BY DEF IInv, TypeOK, CloneOK, MoveClones, PastScan
<1>2. NoDB \in DB /\ Below(NoDB.seq) = {}
  BY VersionsAssumption DEF NoDB, DB, Below
<1>3. /\ dbs' \in [Names -> DB] /\ dbs'["restore"] = NoDB
      /\ dbs'["current"] = dbs["restore"] /\ dbs'["backup"] = dbs["current"]
  BY <1>2 DEF IInv, TypeOK, DB, Names, MoveClones
<1>4. TypeOK' /\ pc'[p] = "ensure"
  BY <1>3, GotoType DEF IInv, TypeOK, DB, MoveClones, PCs
<1>5. DatabasesOK'
  BY <1>1, <1>3 DEF IInv, DatabasesOK, MoveClones, Names
<1>6. VersionMeansMigrated'
  BY <1>2, <1>3 DEF IInv, VersionMeansMigrated, MoveClones, Names
<1>7. CloneOK(p)' /\ ProgressOK(p)'
  BY <1>1, <1>4 DEF CloneOK, ProgressOK, PastScan, Locked, Serving, MoveClones
<1> QED
  BY <1>1, <1>4, <1>5, <1>6, <1>7, PodStep DEF MoveClones, Goto

\* Central starts to serve when the version suffices, and writes to an empty database.
LEMMA EnsureStep == ASSUME IInv, NEW p \in Pods, Ensure(p) PROVE IInv'
<1> DEFINE old == dbs["current"]
           new == [old EXCEPT !.gen = 1]
<1> USE VersionsAssumption, BoundsAssumption
<1>1. "current" \in Names /\ old \in DB /\ old.gen \in Gens /\ bin[p] \in Versions /\ 1 \in Gens
  BY DEF IInv, TypeOK, DatabasesOK, Names, DB, Gens
<1>2. /\ new \in DB /\ new.gen = 1 /\ new.applied = old.applied /\ new.seq = old.seq
  BY <1>1 DEF DB
<1>3. UNCHANGED assumedFresh /\ (dbs' = dbs \/ (old.gen = 0 /\ dbs' = [dbs EXCEPT !["current"] = new]))
  BY DEF Ensure
<1>4. Below(old.seq) \subseteq old.applied \/ old.gen \in assumedFresh
  BY <1>1 DEF IInv, VersionMeansMigrated
<1>5. /\ dbs' \in [Names -> DB] /\ DatabasesOK' /\ VersionMeansMigrated' /\ Grows
      /\ dbs'["current"].applied = old.applied
      /\ dbs'["current"].gen = old.gen \/ old.gen = 0
  <2>1. CASE dbs' = dbs
    BY <1>3, <2>1, QuietStep DEF IInv, TypeOK, DB
  <2>2. CASE old.gen = 0 /\ dbs' = [dbs EXCEPT !["current"] = new]
    <3>1. Below(new.seq) \subseteq new.applied
      BY <1>2, <1>4, <2>2 DEF IInv, DatabasesOK
    <3>2. dbs' \in [Names -> DB] /\ DatabasesOK' /\ VersionMeansMigrated' /\ Grows
      BY <1>1, <1>2, <1>3, <2>2, <3>1, WriteOK DEF IInv, DatabasesOK
    <3>3. dbs'["current"] = new
      BY <1>1, <2>2 DEF IInv, TypeOK
    <3> QED
      BY <1>2, <2>2, <3>2, <3>3
  <2> QED
    BY <1>3, <2>1, <2>2
<1>6. PICK place \in {"serving", "start"} : Goto(p, place) /\ (place = "serving" => VersionSuffices(p))
  BY DEF Ensure
<1>7. TypeOK' /\ pc'[p] = place
  BY <1>5, <1>6, GotoType DEF IInv, TypeOK, DB, Ensure, PCs, Serving
<1>8. CloneOK(p)'
  BY <1>6, <1>7 DEF IInv, CloneOK, PastScan, Locked, Ensure
<1>9. VersionSuffices(p) => Migrated(dbs["current"], bin[p])'
  <2>1. SUFFICES ASSUME VersionSuffices(p), dbs'["current"].gen \notin assumedFresh'
                 PROVE  Below(bin[p]) \subseteq dbs'["current"].applied
    BY DEF Migrated, Ensure
  <2>2. old.gen \notin assumedFresh
    BY <1>3, <1>5, <2>1 DEF IInv, DatabasesOK
  <2>3. Below(bin[p]) \subseteq Below(old.seq)
    BY <1>1, <2>1 DEF VersionSuffices, Below, Versions, DB
  <2> QED
    BY <1>4, <1>5, <2>2, <2>3
<1>10. ProgressOK(p)'
  BY <1>6, <1>7, <1>9 DEF ProgressOK, Serving
<1> QED
  BY <1>5, <1>6, <1>7, <1>8, <1>10, PodStep DEF Ensure, Goto
-----------------------------------------------------------------------------
\* A restore changes the restore database only, while no other pod runs.
LEMMA RestoreStep ==
    ASSUME IInv, NEW p \in Pods, pc[p] \in Serving, strategy = "Recreate",
           NEW place \in {"start", "serving", "restoring"}, Goto(p, place),
           NEW d \in DB, d = NoDB \/ d.gen \in Gens, Below(d.seq) \subseteq d.applied,
           dbs' = [dbs EXCEPT !["restore"] = d], restores' \in 0..MaxRestores,
           UNCHANGED <<strategy, want, bin, ver, clone, faults, rollouts, assumedFresh>>
    PROVE  IInv'
<1>1. /\ dbs' \in [Names -> DB] /\ dbs'["restore"] = d
      /\ dbs'["current"] = dbs["current"] /\ dbs'["backup"] = dbs["backup"]
  BY DEF IInv, TypeOK, DB, Names
<1>2. TypeOK' /\ pc'[p] = place
  BY <1>1, GotoType DEF IInv, TypeOK, DB, PCs, Serving
<1>3. DatabasesOK'
  BY <1>1 DEF IInv, DatabasesOK, Names
<1>4. VersionMeansMigrated'
  BY <1>1 DEF IInv, VersionMeansMigrated, Names
<1>5. CloneOK(p)'
  BY <1>2 DEF CloneOK, PastScan, Locked
<1>6. ProgressOK(p)'
  BY <1>1, <1>2 DEF IInv, ProgressOK, Serving, Migrated
<1> QED
  BY <1>2, <1>3, <1>4, <1>5, <1>6, PodStep DEF Goto, Serving

LEMMA BeginRestoreStep == ASSUME IInv, NEW p \in Pods, BeginRestore(p) PROVE IInv'
<1>1. EmptyDB \in DB /\ EmptyDB.gen \in Gens /\ Below(EmptyDB.seq) \subseteq EmptyDB.applied
  BY VersionsAssumption, BoundsAssumption DEF EmptyDB, NoDB, DB, Gens, Below
<1>2. restores' \in 0..MaxRestores
  BY BoundsAssumption DEF IInv, TypeOK, BeginRestore
<1> QED
  BY <1>1, <1>2, RestoreStep DEF BeginRestore, Serving

LEMMA FinishRestoreStep == ASSUME IInv, NEW p \in Pods, FinishRestore(p) PROVE IInv'
<1>1. PICK s \in Versions : dbs' = [dbs EXCEPT !["restore"] =
             [seq |-> s, min |-> MinOf[s], applied |-> 1..(s - 1), gen |-> 1 + restores]]
  BY DEF FinishRestore
<1> DEFINE d == [seq |-> s, min |-> MinOf[s], applied |-> 1..(s - 1), gen |-> 1 + restores]
<1>2. 1 + restores \in Gens /\ s \in 0..MaxSeq /\ MinOf[s] \in Nat /\ 1..(s - 1) \subseteq Versions
  BY VersionsAssumption, BoundsAssumption DEF IInv, TypeOK, Gens, Versions
<1>3. d \in DB /\ d.gen \in Gens /\ Below(d.seq) \subseteq d.applied
  BY <1>2 DEF DB, Below
<1>4. pc[p] \in Serving /\ strategy = "Recreate" /\ restores' \in 0..MaxRestores
  BY DEF IInv, TypeOK, CloneOK, FinishRestore, Serving
<1> QED
  BY <1>1, <1>3, <1>4, RestoreStep DEF FinishRestore

LEMMA FailRestoreStep == ASSUME IInv, NEW p \in Pods, FailRestore(p) PROVE IInv'
<1>1. NoDB \in DB /\ Below(NoDB.seq) \subseteq NoDB.applied
  BY VersionsAssumption DEF NoDB, DB, Below
<1>2. pc[p] \in Serving /\ strategy = "Recreate" /\ restores' \in 0..MaxRestores
  BY DEF IInv, TypeOK, CloneOK, FailRestore, Serving
<1> QED
  BY <1>1, <1>2, RestoreStep DEF FailRestore
-----------------------------------------------------------------------------
LEMMA StutteringStep == IInv /\ UNCHANGED vars => IInv'
<1> SUFFICES ASSUME IInv, UNCHANGED vars PROVE IInv'
  OBVIOUS
<1>1. DatabasesOK' /\ VersionMeansMigrated' /\ Grows
  BY QuietStep DEF IInv, vars
<1>2. TypeOK' /\ OnePod'
  BY DEF IInv, vars, TypeOK, OnePod
<1>3. \A p \in Pods : CloneOK(p)' /\ ProgressOK(p)'
  BY <1>1, GrowthKeeps DEF IInv, vars
<1> QED
  BY <1>1, <1>2, <1>3 DEF IInv

LEMMA NextIInv == IInv /\ [Next]_vars => IInv'
<1> SUFFICES ASSUME IInv, [Next]_vars PROVE IInv'
  OBVIOUS
<1>1. CASE UNCHANGED vars
  BY <1>1, StutteringStep
<1>2. CASE Rollout
  BY <1>2, RolloutStep
<1>3. ASSUME NEW p \in Pods, StartPod(p) \/ StopPod(p) \/ Crash(p) PROVE IInv'
  BY <1>3, StartPodStep, StopPodStep, CrashStep
<1>4. ASSUME NEW p \in Pods, Migrate(p) PROVE IInv'
  BY <1>4, ScanStep, ScanRestoreStep, ReadFirstStep, AcquireStep, NotAcquiredStep, ReadAgainStep,
     SetUpFreshStep, RunStep, RunMigrationStep, CommitVersionStep, DeleteVersionStep,
     InsertVersionStep, ReleaseStep, PersistStep, MoveClonesStep, EnsureStep DEF Migrate
<1>5. ASSUME NEW p \in Pods, Restore(p) PROVE IInv'
  BY <1>5, BeginRestoreStep, FinishRestoreStep, FailRestoreStep DEF Restore
<1> QED
  BY <1>1, <1>2, <1>3, <1>4, <1>5 DEF Next

LEMMA Invariance == Spec => []IInv
BY InitIInv, NextIInv, PTL DEF Spec

\* The variables of the migrators keep their types, and none of them works on a database
\* that does not exist (upgrade.go, db_clone_manager_impl.go).
THEOREM TypeCorrect == Spec => []TypeOK
<1>1. IInv => TypeOK
  BY DEF IInv
<1> QED
  BY <1>1, Invariance, PTL

\* A version in any database says that the migrations below it have run, whatever the pods,
\* crashes, rollbacks and restores (runner.go).
THEOREM VersionsAreTrue == Spec => []VersionMeansMigrated
<1>1. IInv => VersionMeansMigrated
  BY DEF IInv
<1> QED
  BY <1>1, Invariance, PTL

\* A Central that serves has all migrations of its version, also the one whose migrator did
\* not get the lock (upgrade.go, ensure.go).
THEOREM ServingIsSafe == Spec => []ServingMeansMigrated
<1>1. IInv => ServingMeansMigrated
  BY DEF IInv, ProgressOK, Migrated, ServingMeansMigrated
<1> QED
  BY <1>1, Invariance, PTL
=============================================================================
