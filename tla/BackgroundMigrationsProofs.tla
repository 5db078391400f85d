---------------------- MODULE BackgroundMigrationsProofs ----------------------
(***************************************************************************)
(* Proofs about the background migrations composed with the startup        *)
(* migrations: what StartupMigrationsProofs shows also holds of the        *)
(* composition, and rows that need a background migration of the wanted    *)
(* version stay ahead of the number in the database, unless a runner       *)
(* starts before a pod of the wanted version is available or a rollback is *)
(* undone in haste.                                                        *)
(***************************************************************************)
EXTENDS BackgroundMigrations, StartupMigrationsProofs

\* Where the runners are: in a Central that serves, one of them with the lock, at the
\* migration that the database names.
RunnersOK ==
    \A p \in Pods :
        /\ rpc[p] # "off" => pc[p] \in Serving
        /\ rpc[p] \in BgLocked <=> bgLock = p
        /\ rpc[p] \in {"run", "write"} => bver[p] = bgSeq /\ bver[p] < BgOf[bin[p]]

\* What is ahead: a row or a pod that needs or may write rows that need a migration m of the
\* wanted version has it ahead of bgSeq, and of the target of every runner that has started.
Ahead(n, m) == n <= m \/ BgOf[want] <= m
RowsAhead ==
    /\ \A m \in oldRows : Ahead(bgSeq, m)
    /\ \A q \in Pods : pc[q] # "off" => Ahead(bgSeq, BgOf[bin[q]])
    /\ \A p, q \in Pods : rpc[p] \in Started /\ pc[q] # "off" => Ahead(BgOf[bin[p]], BgOf[bin[q]])
    /\ \A p \in Pods : rpc[p] = "write" /\ bver[p] \in oldRows => BgOf[want] <= bver[p]

AllInv ==
    /\ IInv
    /\ BgTypeOK
    /\ RunnersOK
    /\ ~hasty => RowsAhead
-----------------------------------------------------------------------------
LEMMA BgOfType ==
    /\ \A b \in Versions : BgOf[b] \in Nat /\ BgOf[b] <= BgOf[MaxSeq]
    /\ MaxSeq \in Versions /\ BgOf[MaxSeq] \in Nat
BY BgAssumption, VersionsAssumption DEF Versions

\* A step that only counts a fault, or nothing at all.
LEMMA FaultStep ==
    ASSUME IInv, faults' \in 0..MaxFaults,
           UNCHANGED <<strategy, want, bin, pc, ver, clone, dbs, lock, rollouts, restores,
                       assumedFresh>>
    PROVE  IInv'
<1>1. DatabasesOK' /\ VersionMeansMigrated' /\ Grows
  BY QuietStep DEF IInv
<1>2. TypeOK' /\ OnePod'
  BY DEF IInv, TypeOK, OnePod
<1>3. \A p \in Pods : CloneOK(p)' /\ ProgressOK(p)'
  BY <1>1, GrowthKeeps DEF IInv
<1> QED
  BY <1>1, <1>2, <1>3 DEF IInv

LEMMA InitAllInv == AllInit => AllInv
<1> SUFFICES ASSUME Init, BgInit PROVE AllInv
  BY DEF AllInit
<1>1. IInv
  BY InitIInv
<1>2. BgTypeOK
  <2>1. 0 \in 0..BgOf[MaxSeq]
    BY BgOfType
  <2> QED
    BY <2>1 DEF BgInit, BgTypeOK, BgPCs
<1>3. RunnersOK
  BY PodsAssumption DEF BgInit, RunnersOK, BgLocked
<1>4. RowsAhead
  BY DEF Init, BgInit, RowsAhead, Started, BgLocked
<1> QED
  BY <1>1, <1>2, <1>3, <1>4 DEF AllInv

\* How the steps of the startup migrations move the pods.
PodsMove ==
    /\ strategy' = strategy
    /\ \A q \in Pods : pc'[q] # "off" =>
          \/ pc[q] # "off" /\ bin'[q] = bin[q]
          \/ pc'[q] = "start" /\ bin'[q] = want'

LEMMA PodsMoveMigrate == ASSUME TypeOK, NEW p \in Pods, Migrate(p) PROVE PodsMove /\ want' = want
<1>1. PICK place : pc' = [pc EXCEPT ![p] = place]
  BY DEF Migrate, Scan, ScanRestore, ReadFirst, Acquire, NotAcquired, ReadAgain, SetUpFresh, Run,
     RunMigration, CommitVersion, DeleteVersion, InsertVersion, Release, Persist, MoveClones,
     Ensure, Goto
<1>2. pc[p] # "off" /\ UNCHANGED <<strategy, want, bin>>
  BY DEF Migrate, Scan, ScanRestore, ReadFirst, Acquire, NotAcquired, ReadAgain, SetUpFresh, Run,
     RunMigration, CommitVersion, DeleteVersion, InsertVersion, Release, Persist, MoveClones,
     Ensure
<1> QED
  BY <1>1, <1>2 DEF TypeOK, PodsMove

LEMMA PodsMoveOther ==
    ASSUME TypeOK, NEW p \in Pods, StopPod(p) \/ Crash(p) \/ Restore(p)
    PROVE  PodsMove /\ want' = want
<1>1. PICK place : pc' = [pc EXCEPT ![p] = place]
  BY DEF StopPod, Crash, Restore, BeginRestore, FinishRestore, FailRestore, Goto
<1>2. pc[p] # "off" /\ UNCHANGED <<strategy, want, bin>>
  BY DEF StopPod, Crash, Restore, BeginRestore, FinishRestore, FailRestore
<1> QED
  BY <1>1, <1>2 DEF TypeOK, PodsMove

LEMMA PodsMoveStart == ASSUME TypeOK, NEW p \in Pods, StartPod(p) PROVE PodsMove /\ want' = want
BY DEF TypeOK, PodsMove, StartPod, Goto

LEMMA PodsMoveRollout == ASSUME TypeOK, Rollout PROVE PodsMove
BY DEF TypeOK, PodsMove, Rollout
-----------------------------------------------------------------------------
\* The runners follow a step of the pods.
LEMMA FollowRunners ==
    ASSUME AllInv, IInv', PodsMove, RunnersFollow
    PROVE  BgTypeOK' /\ RunnersOK'
<1>1. \A p \in Pods : rpc'[p] \in {"off", "check", rpc[p]}
  BY DEF RunnersFollow
<1>2. BgTypeOK'
  <2>1. 0 \in 0..BgOf[MaxSeq]
    BY BgOfType
  <2>2. bver' \in [Pods -> 0..BgOf[MaxSeq]]
    BY <2>1 DEF AllInv, BgTypeOK, RunnersFollow
  <2> QED
    BY <1>1, <2>2, PodsAssumption DEF AllInv, BgTypeOK, RunnersFollow, BgPCs
<1>3. ASSUME NEW p \in Pods PROVE rpc'[p] # "off" => pc'[p] \in Serving
  BY DEF RunnersFollow
<1>4. ASSUME NEW p \in Pods PROVE rpc'[p] \in Started => rpc'[p] = rpc[p] /\ bin'[p] = bin[p]
  <2>1. SUFFICES ASSUME rpc'[p] \in Started PROVE rpc'[p] = rpc[p] /\ bin'[p] = bin[p]
    OBVIOUS
  <2>2. rpc'[p] = rpc[p] /\ pc'[p] \in Serving
    BY <2>1 DEF RunnersFollow, Started, BgLocked
  <2> QED
    BY <2>2 DEF PodsMove, Serving
<1>5. ASSUME NEW p \in Pods PROVE rpc'[p] \in BgLocked <=> bgLock' = p
  <2>1. CASE rpc'[p] \in BgLocked
    <3>1. rpc[p] \in BgLocked /\ bgLock = p
      BY <1>4, <2>1 DEF AllInv, RunnersOK, Started
    <3> QED
      BY <2>1, <3>1 DEF RunnersFollow, BgLocked
  <2>2. CASE rpc'[p] \notin BgLocked
    <3>1. CASE bgLock = p
      <4>1. rpc[p] \in BgLocked /\ rpc'[p] # rpc[p] /\ pc[p] \in Serving
        BY <2>2, <3>1 DEF AllInv, RunnersOK, BgLocked
      <4>2. rpc'[p] = "off"
        BY <4>1 DEF RunnersFollow
      <4> QED
        BY <2>2, <3>1, <4>2, PodsAssumption DEF RunnersFollow
    <3>2. CASE bgLock # p
      BY <2>2, <3>2, PodsAssumption DEF RunnersFollow
    <3> QED
      BY <3>1, <3>2
  <2> QED
    BY <2>1, <2>2
<1>6. ASSUME NEW p \in Pods, rpc'[p] \in {"run", "write"}
      PROVE  bver'[p] = bgSeq' /\ bver'[p] < BgOf[bin'[p]]
  <2>1. rpc'[p] = rpc[p] /\ bin'[p] = bin[p]
    BY <1>4, <1>6 DEF Started, BgLocked
  <2> QED
    BY <1>6, <2>1 DEF AllInv, RunnersOK, RunnersFollow
<1> QED
  BY <1>2, <1>3, <1>5, <1>6 DEF RunnersOK

\* What is ahead stays ahead when another version is wanted, unless that is done in haste.
LEMMA FollowRows ==
    ASSUME AllInv, IInv', PodsMove, RunnersFollow, ~hasty'
    PROVE  RowsAhead'
<1>1. RowsAhead /\ ~hasty
  BY DEF AllInv, RunnersFollow
<1>2. /\ BgOf[want] \in Nat /\ BgOf[want'] \in Nat /\ bgSeq \in Nat
      /\ \A p \in Pods : BgOf[bin[p]] \in Nat /\ BgOf[bin'[p]] \in Nat /\ bver[p] \in Nat
      /\ oldRows \subseteq Int
  BY BgOfType DEF AllInv, IInv, TypeOK, BgTypeOK, BgMigrations
<1>3. /\ UNCHANGED <<bgSeq, oldRows>>
      /\ \A p \in Pods : rpc'[p] # "off" => bver'[p] = bver[p]
  BY DEF RunnersFollow
<1>4. ASSUME NEW p \in Pods, rpc'[p] \in Started PROVE rpc[p] = rpc'[p] /\ bin'[p] = bin[p]
  <2>1. rpc'[p] = rpc[p] /\ pc'[p] \in Serving
    BY <1>4 DEF RunnersFollow, Started, BgLocked
  <2> QED
    BY <2>1 DEF PodsMove, Serving
<1>5. \/ BgOf[want'] <= BgOf[want]
      \/ /\ bgSeq <= BgOf[want]
         /\ \A p \in Pods : rpc[p] \in Started => BgOf[bin[p]] <= BgOf[want]
  <2>1. ~ /\ BgOf[want'] > BgOf[want]
          /\ \/ bgSeq > BgOf[want]
             \/ \E p \in Pods : rpc[p] \in Started /\ BgOf[bin[p]] > BgOf[want]
    BY Zenon DEF RunnersFollow
  <2> QED
    BY <1>2, <2>1
<1>6. ASSUME NEW m \in Int, Ahead(bgSeq, m) PROVE Ahead(bgSeq, m)'
  BY <1>2, <1>3, <1>5, <1>6 DEF Ahead
<1>7. \A m \in oldRows' : Ahead(bgSeq, m)'
  BY <1>1, <1>2, <1>3, <1>6 DEF RowsAhead
<1>8. ASSUME NEW q \in Pods, pc'[q] # "off"
      PROVE  /\ Ahead(bgSeq, BgOf[bin[q]])'
             /\ \A p \in Pods : rpc'[p] \in Started => Ahead(BgOf[bin[p]], BgOf[bin[q]])'
  <2>1. CASE pc[q] # "off" /\ bin'[q] = bin[q]
    <3>1. Ahead(bgSeq, BgOf[bin[q]])
      BY <1>1, <2>1 DEF RowsAhead
    <3>2. Ahead(bgSeq, BgOf[bin[q]])'
      BY <1>2, <1>3, <1>5, <2>1, <3>1 DEF Ahead
    <3>3. ASSUME NEW p \in Pods, rpc'[p] \in Started
          PROVE  Ahead(BgOf[bin[p]], BgOf[bin[q]])'
      <4>1. Ahead(BgOf[bin[p]], BgOf[bin[q]])
        BY <1>1, <1>4, <2>1, <3>3 DEF RowsAhead
      <4> QED
        BY <1>2, <1>4, <1>5, <2>1, <3>3, <4>1 DEF Ahead
    <3> QED
      BY <3>2, <3>3
  <2>2. CASE bin'[q] = want'
    BY <1>2, <2>2 DEF Ahead
  <2> QED
    BY <1>8, <2>1, <2>2 DEF PodsMove
<1>9. ASSUME NEW p \in Pods, rpc'[p] = "write", bver'[p] \in oldRows'
       PROVE  BgOf[want'] <= bver'[p]
  <2>1. rpc[p] = "write" /\ bver[p] \in oldRows
    BY <1>3, <1>4, <1>9 DEF Started, BgLocked
  <2>2. bver[p] < BgOf[bin[p]] /\ BgOf[want] <= bver[p]
    BY <1>1, <2>1 DEF AllInv, RunnersOK, RowsAhead
  <2>3. bver'[p] = bver[p]
    BY <1>3, <1>9
  <2> QED
    BY <1>2, <1>5, <2>1, <2>2, <2>3 DEF Started, BgLocked
<1> QED
  BY <1>7, <1>8, <1>9 DEF RowsAhead

LEMMA FollowStep ==
    ASSUME AllInv, IInv', PodsMove, RunnersFollow
    PROVE  AllInv'
BY FollowRunners, FollowRows DEF AllInv
-----------------------------------------------------------------------------
\* The steps of the runner leave the startup migrations alone.
LEMMA RunnerStep ==
    ASSUME AllInv, UNCHANGED vars
    PROVE  /\ IInv' /\ UNCHANGED <<want, bin, pc>>
           /\ BgOf[want] \in Nat /\ bgSeq \in Nat /\ oldRows \subseteq Int
           /\ \A p \in Pods : BgOf[bin[p]] \in Nat /\ BgOf[bin[p]] <= BgOf[MaxSeq] /\ bver[p] \in Nat
<1>1. IInv'
  BY FaultStep DEF AllInv, IInv, TypeOK, vars
<1> QED
  BY <1>1, BgOfType DEF AllInv, IInv, TypeOK, BgTypeOK, BgMigrations, vars

LEMMA BgGotoType ==
    ASSUME AllInv, NEW p \in Pods, NEW place \in BgPCs, BgGoto(p, place)
    PROVE  /\ rpc' \in [Pods -> BgPCs] /\ rpc'[p] = place
           /\ \A q \in Pods \ {p} : rpc'[q] = rpc[q]
           /\ bgLock' \in Pods \cup {NoPod}
BY DEF AllInv, BgTypeOK, BgGoto

\* Going to another place keeps the lock if that place needs it, and frees it if not.
LEMMA BgGotoLock ==
    ASSUME AllInv, NEW p \in Pods, NEW place \in BgPCs, BgGoto(p, place),
           place \in BgLocked => rpc[p] \in BgLocked
    PROVE  \A q \in Pods : rpc'[q] \in BgLocked <=> bgLock' = q
<1>1. \A q \in Pods : rpc[q] \in BgLocked <=> bgLock = q
  BY DEF AllInv, RunnersOK
<1>2. rpc'[p] = place /\ \A q \in Pods \ {p} : rpc'[q] = rpc[q]
  BY BgGotoType
<1> QED
  BY <1>1, <1>2, PodsAssumption DEF BgGoto

LEMMA CheckRolloutStep == ASSUME AllInv, NEW p \in Pods, CheckRollout(p) PROVE AllInv'
<1>1. /\ rpc[p] = "check" /\ BgGoto(p, "lock") /\ UNCHANGED <<vars, bver, bgSeq, oldRows, avail>>
      /\ ~hasty' => ~hasty /\ InCluster /\ WantedAvailable
  BY DEF CheckRollout, TooEarly
<1>2. IInv' /\ UNCHANGED <<want, bin, pc>>
  BY <1>1, RunnerStep
<1>3. "lock" \in BgPCs /\ "lock" \notin BgLocked
  BY DEF BgPCs, Started, BgLocked
<1>4. /\ rpc' \in [Pods -> BgPCs] /\ rpc'[p] = "lock" /\ bgLock' \in Pods \cup {NoPod}
      /\ \A q \in Pods \ {p} : rpc'[q] = rpc[q]
  BY <1>1, <1>3, BgGotoType
<1>5. BgTypeOK'
  <2>1. hasty' \in BOOLEAN
    BY Zenon DEF CheckRollout
  <2> QED
    BY <1>1, <1>4, <2>1 DEF AllInv, BgTypeOK
<1>6. RunnersOK'
  <2>1. \A q \in Pods : rpc'[q] \in BgLocked <=> bgLock' = q
    BY <1>1, <1>3, BgGotoLock
  <2> QED
    BY <1>1, <1>2, <1>4, <2>1 DEF AllInv, RunnersOK
<1>7. ASSUME ~hasty' PROVE RowsAhead'
  <2>1. RowsAhead
    BY <1>1, <1>7 DEF AllInv
  <2>2. \A q \in Pods : pc[q] # "off" => bin[q] = want
    BY <1>1, <1>7 DEF CheckRollout, IsRolloutDone, TerminatingPods
  <2>3. BgOf[want] \in Nat
    BY <1>1, RunnerStep
  <2>4. \A q \in Pods : pc[q] # "off" => Ahead(BgOf[bin[p]], BgOf[bin[q]])
    BY <2>2, <2>3 DEF Ahead
  <2> QED
    BY <1>1, <1>2, <1>4, <2>1, <2>4 DEF RowsAhead, Ahead
<1> QED
  BY <1>2, <1>5, <1>6, <1>7 DEF AllInv
\* A step of the runner that does not start it, leaves the rows and the number alone, and
\* does not come from a migration.
LEMMA QuietRunnerStep ==
    ASSUME AllInv, NEW p \in Pods, rpc[p] \in Started, UNCHANGED <<bver, bgSeq, oldRows, avail, hasty>>,
           IInv', UNCHANGED <<want, bin, pc>>,
           NEW place \in BgPCs \ {"off", "run", "write"}, rpc' = [rpc EXCEPT ![p] = place],
           bgLock' \in Pods \cup {NoPod},
           \A q \in Pods : rpc'[q] \in BgLocked <=> bgLock' = q
    PROVE  AllInv'
<1>1. /\ rpc' \in [Pods -> BgPCs] /\ rpc'[p] = place
      /\ \A q \in Pods \ {p} : rpc'[q] = rpc[q]
  BY DEF AllInv, BgTypeOK
<1>2. BgTypeOK'
  BY <1>1 DEF AllInv, BgTypeOK
<1>3. rpc[p] # "off"
  BY DEF Started, BgLocked
<1>4. RunnersOK'
  BY <1>1, <1>3 DEF AllInv, RunnersOK
<1>5. ASSUME ~hasty' PROVE RowsAhead'
  <2>1. RowsAhead
    BY <1>5 DEF AllInv
  <2>2. \A q \in Pods : rpc'[q] \in Started => rpc[q] \in Started
    BY <1>1
  <2>3. \A q \in Pods : rpc'[q] = "write" => rpc[q] = "write"
    BY <1>1
  <2> QED
    BY <2>1, <2>2, <2>3 DEF RowsAhead, Ahead
<1> QED
  BY <1>2, <1>4, <1>5 DEF AllInv

LEMMA TakeBgLockStep == ASSUME AllInv, NEW p \in Pods, TakeBgLock(p) PROVE AllInv'
<1>1. /\ rpc[p] = "lock" /\ rpc[p] \in Started /\ UNCHANGED <<vars, bver, bgSeq, oldRows, avail, hasty>>
      /\ {"state", "check"} \subseteq BgPCs \ {"off", "run", "write"}
      /\ "state" \in BgLocked /\ "check" \notin BgLocked
  BY DEF TakeBgLock, Started, BgPCs, BgLocked
<1>2. IInv' /\ UNCHANGED <<want, bin, pc>>
  BY <1>1, RunnerStep
<1>3. CASE bgLock = NoPod /\ bgLock' = p /\ rpc' = [rpc EXCEPT ![p] = "state"]
  <2>1. \A q \in Pods : rpc'[q] \in BgLocked <=> bgLock' = q
    BY <1>1, <1>3, PodsAssumption DEF AllInv, BgTypeOK, RunnersOK
  <2> QED
    BY <1>1, <1>2, <1>3, <2>1, QuietRunnerStep
<1>4. CASE BgGoto(p, "check")
  <2>1. /\ \A q \in Pods : rpc'[q] \in BgLocked <=> bgLock' = q
        /\ bgLock' \in Pods \cup {NoPod} /\ rpc' = [rpc EXCEPT ![p] = "check"]
    BY <1>1, <1>4, BgGotoLock, BgGotoType DEF BgGoto
  <2> QED
    BY <1>1, <1>2, <2>1, QuietRunnerStep
<1> QED
  BY <1>3, <1>4 DEF TakeBgLock

LEMMA BgFailStep == ASSUME AllInv, NEW p \in Pods, BgFail(p) PROVE AllInv'
<1>1. /\ rpc[p] \in Started /\ BgGoto(p, "check") /\ UNCHANGED <<bver, bgSeq, oldRows, avail, hasty>>
      /\ UNCHANGED <<want, bin, pc>>
      /\ "check" \in BgPCs \ {"off", "run", "write"} /\ "check" \notin BgLocked
  BY DEF BgFail, Started, BgPCs, BgLocked
<1>2. faults' \in 0..MaxFaults
  BY BoundsAssumption DEF BgFail, AllInv, IInv, TypeOK
<1>3. IInv'
  BY <1>2, FaultStep DEF BgFail, AllInv
<1>4. /\ \A q \in Pods : rpc'[q] \in BgLocked <=> bgLock' = q
      /\ bgLock' \in Pods \cup {NoPod} /\ rpc' = [rpc EXCEPT ![p] = "check"]
  BY <1>1, BgGotoLock, BgGotoType DEF BgGoto
<1> QED
  BY <1>1, <1>3, <1>4, QuietRunnerStep
-----------------------------------------------------------------------------
\* The number in the database only falls: what is ahead of it stays ahead.
LEMMA ReadStateStep == ASSUME AllInv, NEW p \in Pods, ReadState(p) PROVE AllInv'
<1> DEFINE target == BgOf[bin[p]]
           place == IF bgSeq' = target THEN "done" ELSE "run"
<1>1. /\ rpc[p] = "state" /\ UNCHANGED <<vars, oldRows, avail, hasty>>
      /\ bgSeq' = IF bgSeq > target THEN target ELSE bgSeq
      /\ bver' = [bver EXCEPT ![p] = IF bgSeq' = target THEN 0 ELSE bgSeq']
      /\ BgGoto(p, place)
  BY DEF ReadState
<1>2. /\ IInv' /\ UNCHANGED <<want, bin, pc>>
      /\ BgOf[want] \in Nat /\ bgSeq \in Nat /\ oldRows \subseteq Int
      /\ \A q \in Pods : BgOf[bin[q]] \in Nat /\ BgOf[bin[q]] <= BgOf[MaxSeq] /\ bver[q] \in Nat
  BY <1>1, RunnerStep
<1>3. place \in {"done", "run"} /\ place \in BgPCs /\ rpc[p] \in BgLocked
  BY <1>1 DEF BgPCs, Started, BgLocked
<1> HIDE DEF place
<1>4. /\ rpc' \in [Pods -> BgPCs] /\ rpc'[p] = place /\ bgLock' \in Pods \cup {NoPod}
      /\ \A q \in Pods \ {p} : rpc'[q] = rpc[q]
  BY <1>1, <1>3, BgGotoType
<1>5. bgSeq' \in Nat /\ bgSeq' <= bgSeq /\ bgSeq' <= target /\ bgSeq' \in 0..BgOf[MaxSeq]
  BY <1>1, <1>2, BgOfType DEF AllInv, BgTypeOK
<1>6. bver' \in [Pods -> 0..BgOf[MaxSeq]] /\ (place = "run" => bver'[p] = bgSeq')
  <2>1. 0 \in 0..BgOf[MaxSeq]
    BY BgOfType
  <2> QED
    BY <1>1, <1>5, <2>1 DEF AllInv, BgTypeOK, place
<1>7. BgTypeOK'
  BY <1>1, <1>4, <1>5, <1>6 DEF AllInv, BgTypeOK
<1>8. \A q \in Pods : rpc'[q] \in BgLocked <=> bgLock' = q
  BY <1>1, <1>3, BgGotoLock
<1>9. \A q \in Pods \ {p} : rpc'[q] \notin BgLocked
  BY <1>3, <1>4 DEF AllInv, RunnersOK
<1>10. place = "run" => bgSeq' < target
  BY <1>2, <1>5 DEF place
<1>11. RunnersOK'
  BY <1>2, <1>3, <1>4, <1>6, <1>8, <1>9, <1>10 DEF AllInv, RunnersOK, BgLocked
<1>12. ASSUME ~hasty' PROVE RowsAhead'
  <2>1. RowsAhead
    BY <1>1, <1>12 DEF AllInv
  <2>2. \A m \in Int : Ahead(bgSeq, m) => Ahead(bgSeq, m)'
    BY <1>2, <1>5 DEF Ahead
  <2>3. \A m \in oldRows' : Ahead(bgSeq, m)'
    BY <1>1, <1>2, <2>1, <2>2 DEF RowsAhead
  <2>4. \A q \in Pods : pc'[q] # "off" => Ahead(bgSeq, BgOf[bin[q]])'
    BY <1>2, <1>5, <2>1 DEF RowsAhead, Ahead
  <2>5. \A q \in Pods : rpc'[q] \in Started => rpc[q] \in Started
    BY <1>3, <1>4 DEF Started
  <2>6. \A q \in Pods : rpc'[q] # "write"
    BY <1>3, <1>4, <1>9 DEF BgLocked
  <2> QED
    BY <1>2, <2>1, <2>3, <2>4, <2>5, <2>6 DEF RowsAhead, Ahead
<1> QED
  BY <1>2, <1>7, <1>11, <1>12 DEF AllInv

\* A migration has run: no row needs it until a pod writes one.
LEMMA RunBgMigrationStep == ASSUME AllInv, NEW p \in Pods, RunBgMigration(p) PROVE AllInv'
<1>1. /\ rpc[p] = "run" /\ oldRows' = oldRows \ {bver[p]} /\ BgGoto(p, "write")
      /\ UNCHANGED <<vars, bver, bgSeq, avail, hasty>>
      /\ "write" \in BgPCs /\ {"run", "write"} \subseteq BgLocked
  BY DEF RunBgMigration, BgPCs, Started, BgLocked
<1>2. IInv' /\ UNCHANGED <<want, bin, pc>>
  BY <1>1, RunnerStep
<1>3. /\ rpc' \in [Pods -> BgPCs] /\ rpc'[p] = "write" /\ bgLock' \in Pods \cup {NoPod}
      /\ \A q \in Pods \ {p} : rpc'[q] = rpc[q]
  BY <1>1, BgGotoType
<1>4. BgTypeOK'
  BY <1>1, <1>3 DEF AllInv, BgTypeOK
<1>5. \A q \in Pods : rpc'[q] \in BgLocked <=> bgLock' = q
  BY <1>1, BgGotoLock
<1>6. RunnersOK'
  BY <1>1, <1>2, <1>3, <1>5 DEF AllInv, RunnersOK
<1>7. ASSUME ~hasty' PROVE RowsAhead'
  <2>1. RowsAhead
    BY <1>1, <1>7 DEF AllInv
  <2>2. \A q \in Pods : rpc'[q] \in Started => rpc[q] \in Started
    BY <1>1, <1>3 DEF Started
  <2>3. \A q \in Pods : rpc'[q] = "write" /\ bver'[q] \in oldRows' => rpc[q] = "write" /\ bver[q] \in oldRows
    BY <1>1, <1>3
  <2> QED
    BY <1>1, <1>2, <2>1, <2>2, <2>3 DEF RowsAhead, Ahead
<1> QED
  BY <1>2, <1>4, <1>6, <1>7 DEF AllInv
LEMMA WriteSeqNumStep == ASSUME AllInv, NEW p \in Pods, WriteSeqNum(p) PROVE AllInv'
<1> DEFINE place == IF MoreRowsToMigrate(p) THEN "run" ELSE "done"
<1>1. /\ rpc[p] = "write" /\ UNCHANGED <<vars, oldRows, avail, hasty>>
      /\ bgSeq' = bver[p] + 1
      /\ bver' = [bver EXCEPT ![p] = IF MoreRowsToMigrate(p) THEN @ + 1 ELSE 0]
      /\ BgGoto(p, place)
  BY DEF WriteSeqNum
<1>2. /\ IInv' /\ UNCHANGED <<want, bin, pc>>
      /\ BgOf[want] \in Nat /\ bgSeq \in Nat /\ oldRows \subseteq Int
      /\ \A q \in Pods : BgOf[bin[q]] \in Nat /\ BgOf[bin[q]] <= BgOf[MaxSeq] /\ bver[q] \in Nat
  BY <1>1, RunnerStep
<1>3. place \in {"done", "run"} /\ place \in BgPCs /\ rpc[p] \in BgLocked
  BY <1>1 DEF BgPCs, Started, BgLocked
<1>4. place = "run" => MoreRowsToMigrate(p) /\ bver[p] + 1 < BgOf[bin[p]]
  BY DEF MoreRowsToMigrate
<1> HIDE DEF place
<1>5. /\ rpc' \in [Pods -> BgPCs] /\ rpc'[p] = place /\ bgLock' \in Pods \cup {NoPod}
      /\ \A q \in Pods \ {p} : rpc'[q] = rpc[q]
  BY <1>1, <1>3, BgGotoType
<1>6. bver[p] = bgSeq /\ bver[p] < BgOf[bin[p]]
  BY <1>1 DEF AllInv, RunnersOK
<1>7. bgSeq' = bgSeq + 1 /\ bgSeq' <= BgOf[bin[p]] /\ bgSeq' \in 0..BgOf[MaxSeq]
  BY <1>1, <1>2, <1>6, BgOfType
<1>8. bver' \in [Pods -> 0..BgOf[MaxSeq]] /\ (place = "run" => bver'[p] = bgSeq')
  <2>1. 0 \in 0..BgOf[MaxSeq] /\ bver[p] + 1 \in 0..BgOf[MaxSeq]
    BY <1>1, <1>7, BgOfType
  <2>2. bver' \in [Pods -> 0..BgOf[MaxSeq]]
    BY <1>1, <2>1 DEF AllInv, BgTypeOK
  <2> QED
    BY <1>1, <1>4, <2>2 DEF AllInv, BgTypeOK
<1>9. BgTypeOK'
  BY <1>1, <1>5, <1>7, <1>8 DEF AllInv, BgTypeOK
<1>10. \A q \in Pods : rpc'[q] \in BgLocked <=> bgLock' = q
  BY <1>1, <1>3, BgGotoLock
<1>11. \A q \in Pods \ {p} : rpc'[q] \notin BgLocked
  BY <1>3, <1>5 DEF AllInv, RunnersOK
<1>12. RunnersOK'
  <2>1. rpc[p] # "off"
    BY <1>1
  <2> QED
    BY <1>1, <1>2, <1>3, <1>4, <1>5, <1>8, <1>10, <1>11, <2>1 DEF AllInv, RunnersOK, BgLocked
<1>13. ASSUME ~hasty' PROVE RowsAhead'
  <2>1. RowsAhead /\ rpc[p] \in Started
    BY <1>1, <1>13 DEF AllInv, Started, BgLocked
  <2>2. ASSUME NEW m \in oldRows' PROVE Ahead(bgSeq, m)'
    <3>1. m \in oldRows /\ m \in Int /\ Ahead(bgSeq, m)
      BY <1>1, <1>2, <2>1, <2>2 DEF RowsAhead
    <3>2. m = bgSeq => BgOf[want] <= m
      BY <1>1, <1>6, <2>1, <3>1 DEF RowsAhead
    <3> QED
      BY <1>2, <1>7, <3>1, <3>2 DEF Ahead
  <2>3. ASSUME NEW q \in Pods, pc'[q] # "off" PROVE Ahead(bgSeq, BgOf[bin[q]])'
    <3>1. Ahead(BgOf[bin[p]], BgOf[bin[q]])
      BY <1>2, <2>1, <2>3 DEF RowsAhead
    <3> QED
      BY <1>2, <1>7, <3>1 DEF Ahead
  <2>4. \A q \in Pods : rpc'[q] \in Started => rpc[q] \in Started
    BY <1>3, <1>5, <2>1
  <2>5. \A q \in Pods : rpc'[q] # "write"
    BY <1>3, <1>5, <1>11 DEF BgLocked
  <2> QED
    BY <1>2, <2>1, <2>2, <2>3, <2>4, <2>5 DEF RowsAhead, Ahead
<1> QED
  BY <1>2, <1>9, <1>12, <1>13 DEF AllInv

LEMMA BecomeAvailableStep == ASSUME AllInv, NEW p \in Pods, BecomeAvailable(p) PROVE AllInv'
<1>1. UNCHANGED <<vars, rpc, bver, bgSeq, bgLock, oldRows, hasty>> /\ avail' = avail \cup {p}
  BY DEF BecomeAvailable
<1>2. IInv' /\ UNCHANGED <<want, bin, pc>>
  BY <1>1, RunnerStep
<1>3. BgTypeOK' /\ RunnersOK'
  BY <1>1, <1>2 DEF AllInv, BgTypeOK, RunnersOK
<1>4. ~hasty' => RowsAhead'
  BY <1>1, <1>2 DEF AllInv, RowsAhead, Ahead
<1> QED
  BY <1>2, <1>3, <1>4 DEF AllInv

\* A pod writes only rows that are ahead of the runners.
LEMMA WriteRowsStep == ASSUME AllInv, NEW p \in Pods, WriteRows(p) PROVE AllInv'
<1>1. /\ pc[p] # "off" /\ UNCHANGED <<vars, rpc, bver, bgSeq, bgLock, avail, hasty>>
      /\ oldRows' = oldRows \cup {m \in BgMigrations : m >= BgOf[bin[p]]}
  BY DEF WriteRows, Serving
<1>2. /\ IInv' /\ UNCHANGED <<want, bin, pc>>
      /\ BgOf[want] \in Nat /\ bgSeq \in Nat /\ oldRows \subseteq Int
      /\ \A q \in Pods : BgOf[bin[q]] \in Nat /\ BgOf[bin[q]] <= BgOf[MaxSeq] /\ bver[q] \in Nat
  BY <1>1, RunnerStep
<1>3. BgTypeOK'
  BY <1>1 DEF AllInv, BgTypeOK
<1>4. RunnersOK'
  BY <1>1, <1>2 DEF AllInv, RunnersOK
<1>5. ASSUME ~hasty' PROVE RowsAhead'
  <2>1. RowsAhead
    BY <1>1, <1>5 DEF AllInv
  <2>2. \A m \in oldRows' : m \in Int /\ (m \in oldRows \/ BgOf[bin[p]] <= m)
    <3>1. BgMigrations \subseteq Int /\ BgOf[bin[p]] \in Int
      BY <1>2, BgOfType DEF BgMigrations
    <3>2. ASSUME NEW m \in oldRows', m \notin oldRows PROVE m \in BgMigrations /\ m >= BgOf[bin[p]]
      BY <1>1, <3>2
    <3> QED
      BY <1>2, <3>1, <3>2
  <2>3. ASSUME NEW m \in oldRows' PROVE Ahead(bgSeq, m)'
    <3>1. Ahead(bgSeq, BgOf[bin[p]]) /\ (m \in oldRows => Ahead(bgSeq, m))
      BY <1>1, <2>1 DEF RowsAhead
    <3> QED
      BY <1>1, <1>2, <2>2, <3>1 DEF Ahead
  <2>4. ASSUME NEW q \in Pods, rpc[q] = "write", bver[q] \in oldRows' PROVE BgOf[want] <= bver[q]
    <3>1. Ahead(BgOf[bin[q]], BgOf[bin[p]]) /\ (bver[q] \in oldRows => BgOf[want] <= bver[q])
      BY <1>1, <2>1, <2>4 DEF RowsAhead, Started, BgLocked
    <3>2. bver[q] < BgOf[bin[q]]
      BY <2>4 DEF AllInv, RunnersOK
    <3> QED
      BY <1>2, <2>2, <2>4, <3>1, <3>2 DEF Ahead
  <2> QED
    BY <1>1, <1>2, <2>1, <2>3, <2>4 DEF RowsAhead, Ahead
<1> QED
  BY <1>2, <1>3, <1>4, <1>5 DEF AllInv
-----------------------------------------------------------------------------
LEMMA AllNextInv == AllInv /\ [AllNext]_allVars => AllInv'
<1> SUFFICES ASSUME AllInv, [AllNext]_allVars PROVE AllInv'
  OBVIOUS
<1>1. TypeOK /\ IInv
  BY DEF AllInv, IInv
<1>2. CASE Rollout /\ RunnersFollow
  BY <1>1, <1>2, RolloutStep, PodsMoveRollout, FollowStep
<1>3. ASSUME NEW p \in Pods, StartPod(p) \/ StopPod(p) \/ Crash(p) \/ Migrate(p) \/ Restore(p),
             RunnersFollow
      PROVE  AllInv'
  <2>1. IInv'
    BY <1>1, <1>3, NextIInv DEF Next
  <2>2. PodsMove
    BY <1>1, <1>3, PodsMoveStart, PodsMoveOther, PodsMoveMigrate
  <2> QED
    BY <1>3, <2>1, <2>2, FollowStep
<1>4. ASSUME NEW p \in Pods, BgStep(p) \/ BgFail(p) \/ WriteRows(p) \/ BecomeAvailable(p)
      PROVE  AllInv'
  BY <1>4, CheckRolloutStep, TakeBgLockStep, ReadStateStep, RunBgMigrationStep, WriteSeqNumStep,
     BgFailStep, WriteRowsStep, BecomeAvailableStep DEF BgStep
<1>5. CASE UNCHANGED allVars
  <2>1. UNCHANGED vars /\ UNCHANGED bgVars
    BY <1>5 DEF allVars
  <2>2. IInv'
    BY <2>1, RunnerStep
  <2>3. BgTypeOK' /\ RunnersOK'
    BY <2>1 DEF AllInv, BgTypeOK, RunnersOK, vars, bgVars
  <2>4. ASSUME ~hasty' PROVE RowsAhead'
    <3>1. RowsAhead
      BY <2>1, <2>4 DEF AllInv, bgVars
    <3> QED
      BY <2>1, <3>1 DEF RowsAhead, Ahead, vars, bgVars
  <2> QED
    BY <2>2, <2>3, <2>4 DEF AllInv
<1> QED
  BY <1>2, <1>3, <1>4, <1>5 DEF AllNext

LEMMA AllInvariance == AllSpec => []AllInv
BY InitAllInv, AllNextInv, PTL DEF AllSpec

\* The runners' variables have their types, in the composition with the startup migrations.
THEOREM BgTypeCorrect == AllSpec => []BgTypeOK
<1>1. AllInv => BgTypeOK
  BY DEF AllInv
<1> QED
  BY <1>1, AllInvariance, PTL

\* For any pods, versions and numbers of crashes, failures and rollouts: rows that need a
\* background migration of the wanted version are ahead of the number in the database
\* (runner.go, rollout.go), unless a runner passes the check of the rollout while no pod of
\* the wanted version is available, or without asking the cluster, or a rollback is undone
\* before its runner is through.
THEOREM OldRowsStayAhead == AllSpec => []OldRowsAreAhead
<1>1. AllInv => OldRowsAreAhead
  BY DEF AllInv, OldRowsAreAhead, RowsAhead, Ahead
<1> QED
  BY <1>1, AllInvariance, PTL

\* The runners do not take away what the migrators establish: also next to them, a Central
\* that serves works on a database with all migrations of its version (ensure.go).
THEOREM ServingStaysSafe == AllSpec => [](VersionMeansMigrated /\ ServingMeansMigrated)
<1>1. AllInv => VersionMeansMigrated /\ ServingMeansMigrated
  BY DEF AllInv, IInv, ProgressOK, Migrated, ServingMeansMigrated
<1> QED
  BY <1>1, AllInvariance, PTL
=============================================================================
