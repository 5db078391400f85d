---------------------------- MODULE EventSyncProofs ----------------------------
(***************************************************************************)
(* Proofs about EventSync, for any objects and contents, any number of      *)
(* changes, breaks and crashes and any size of the buffer: reconciliation   *)
(* spares what exists, and a connection that settles has healed Central's   *)
(* copy of the cluster.                                                     *)
(*                                                                          *)
(* The invariants are about one object k.  A step either concerns k or       *)
(* leaves alone all that the invariants of k are about (Apart).              *)
(***************************************************************************)
EXTENDS EventSync, EventLemmas

\* The events of k between Sensor's deduper and Central's handler, and their order.
IsEvent(m, k) == m.act # "Synced" /\ m.key = k
Sent(k) == {wire[i] : i \in {j \in 1..Len(wire) : IsEvent(wire[j], k)}}
SentBefore(k, a, b) ==
    \E i, j \in 1..Len(wire) : /\ i < j /\ IsEvent(wire[i], k) /\ IsEvent(wire[j], k)
                               /\ a = wire[i] /\ b = wire[j]

\* One of them comes before the Synced event.
Ahead(k) ==
    \E i \in 1..Len(wire) : IsEvent(wire[i], k) /\ \A j \in 1..i : wire[j].act # "Synced"

\* The events of k that wait for its worker, and their order.
Queue(k) == Items(work[k])
QueuedBefore(k, a, b) ==
    \E i, j \in 1..Len(work[k]) : i < j /\ a = work[k][i] /\ b = work[k][j]

Busy(k) == handling[k] # Idle
Piped(k) == Sent(k) # {} \/ work[k] # <<>> \/ Busy(k)

-----------------------------------------------------------------------------
\* Types.
LEMMA EventFacts ==
    ASSUME NEW D, NEW m \in Event(D)
    PROVE  /\ m.key \in Keys /\ m.act \in Actions /\ m.val \in Hashes /\ m.attempt = 0
           /\ m.dedupeKey \in D /\ m.act # "Synced" /\ Known(m)
           /\ m = [key |-> m.key, act |-> m.act, val |-> m.val, attempt |-> 0,
                   dedupeKey |-> m.dedupeKey]
BY DEF Event, Actions, Known

LEMMA WiredFacts ==
    ASSUME NEW m \in Wired
    PROVE  \/ m \in Event({NoKey}) /\ m.act # "Synced"
           \/ m.act = "Synced" /\ m.unchangedIDs \subseteq Keys
BY EventFacts DEF Wired

LEMMA MsgsType ==
    ASSUME NEW k \in Keys, NEW act \in Actions, NEW v \in Hashes
    PROVE  /\ Msgs(k, act, v) \in Event({NoKey}) /\ Msgs(k, act, v) \in Wired
           /\ Msgs(k, act, v).key = k /\ Msgs(k, act, v).act = act /\ Msgs(k, act, v).val = v
           /\ act # "Synced"
BY DEF Msgs, Event, Wired, Actions

\* What the worker of k has in hand; the same for a straggler.
LEMMA HandFacts ==
    ASSUME TypeOK, NEW k \in Keys
    PROVE  /\ handling[k] = Idle <=> handling[k].phase = "idle"
           /\ handling[k] = Idle \/ (handling[k] \in InHand /\ handling[k].msg \in Queueable
                                     /\ handling[k].msg.key = k)
           /\ handling[k].phase \in {"idle", "pulled", "written"}
           /\ handling[k] # Idle => handling[k].msg.key = k /\ Known(handling[k].msg)
           /\ old[k] = Idle <=> old[k].phase = "idle"
           /\ old[k].phase \in {"idle", "pulled", "written"}
           /\ old[k] = Idle \/ (old[k] \in InHand /\ old[k].msg \in Queueable
                                /\ old[k].msg.key = k)
           /\ old[k] # Idle => old[k].msg.key = k /\ Known(old[k].msg)
<1>1. Idle.phase = "idle" /\ \A h \in InHand : h.phase \in {"pulled", "written"} /\ h.msg \in Queueable
  BY DEF Idle, InHand
<1>2. \A m \in Queueable : Known(m)
  BY EventFacts DEF Queueable
<1>3. handling[k] \in {Idle} \cup InHand /\ old[k] \in {Idle} \cup InHand
  BY DEF TypeOK
<1> QED BY <1>1, <1>2, <1>3 DEF TypeOK

LEMMA SendType ==
    ASSUME TypeOK, NEW m \in Wired, NEW keys \in SUBSET Keys, Send(m, keys)
    PROVE  /\ wire' \in Seq(Wired) /\ Len(wire') <= BufferSize /\ excused' \subseteq Keys
           /\ \/ wire' = Append(wire, m) /\ excused' = excused
              \/ wire' = wire /\ excused' = excused \cup keys /\ "drop" \in Faults
<1>1. Len(wire) \in Nat /\ wire \in Seq(Wired) /\ Len(wire) <= BufferSize /\ BufferSize \in Nat
  BY SyncAssumption DEF TypeOK
<1>2. excused \subseteq Keys
  BY DEF TypeOK
<1>3. CASE Len(wire) < BufferSize /\ wire' = Append(wire, m) /\ UNCHANGED excused
  BY <1>1, <1>2, <1>3
<1>4. CASE /\ Len(wire) >= BufferSize /\ "drop" \in Faults
           /\ excused' = excused \cup keys /\ UNCHANGED wire
  BY <1>1, <1>2, <1>4
<1> QED BY <1>3, <1>4 DEF Send

\* deduper.Send: what it sends, and that lastSent follows it.
Target(act, v) == IF act = "REMOVE" THEN NoHash ELSE v

LEMMA SendEventFacts ==
    ASSUME TypeOK, NEW k \in Keys, NEW act \in Actions, NEW v \in Hashes, SendEvent(k, act, v)
    PROVE  /\ wire' \in Seq(Wired) /\ Len(wire') <= BufferSize /\ excused' \subseteq Keys
           /\ lastSent' = [lastSent EXCEPT ![k] = Target(act, v)]
           /\ \/ /\ wire' = Append(wire, Msgs(k, act, v)) /\ excused' = excused
                 /\ unchanged' = unchanged
              \/ /\ wire' = wire /\ excused' = excused \cup {k} /\ "drop" \in Faults
                 /\ unchanged' = unchanged
              \/ /\ wire' = wire /\ excused' = excused /\ lastSent[k] = Target(act, v)
                 /\ unchanged' = IF act = "SYNC" THEN unchanged \cup ({k} \cap centralState)
                                 ELSE unchanged
<1>1. Msgs(k, act, v) \in Wired
  BY MsgsType
<1>2. lastSent = [lastSent EXCEPT ![k] = lastSent[k]]
  BY DEF TypeOK
<1>3. {k} \in SUBSET Keys
  OBVIOUS
<1>4. CASE /\ act = "REMOVE" /\ lastSent[k] # NoHash
           /\ lastSent' = [lastSent EXCEPT ![k] = NoHash]
           /\ Send(Msgs(k, act, v), {k}) /\ UNCHANGED unchanged
  BY <1>1, <1>3, <1>4, SendType DEF Target
<1>5. CASE /\ act # "REMOVE" /\ lastSent[k] # v
           /\ lastSent' = [lastSent EXCEPT ![k] = v]
           /\ Send(Msgs(k, act, v), {k}) /\ UNCHANGED unchanged
  BY <1>1, <1>3, <1>5, SendType DEF Target
<1>6. CASE /\ act = "REMOVE" /\ lastSent[k] = NoHash
           /\ UNCHANGED <<lastSent, unchanged, wire, excused>>
  BY <1>2, <1>6 DEF TypeOK, Target
<1>7. CASE /\ act # "REMOVE" /\ lastSent[k] = v /\ unchanged' = UnchangedWith(k, act)
           /\ UNCHANGED <<lastSent, wire, excused>>
  BY <1>2, <1>7 DEF TypeOK, UnchangedWith, Target
<1> QED BY <1>4, <1>5, <1>6, <1>7 DEF SendEvent

\* Operations of the deduper that treat all keys alike.
LEMMA SuccessfulFacts ==
    ASSUME NEW d \in Deduper
    PROVE  /\ GetSuccessfulHashes(d) \in [Keys -> Hashes \cup {NoHash}]
           /\ \A k \in Keys : GetSuccessfulHashes(d)[k] \in {NoHash, d.successfullyProcessed[k].val}
BY DEF GetSuccessfulHashes, Deduper, EntryMap, Entry

LEMMA StartSyncFacts ==
    ASSUME NEW d \in Deduper
    PROVE  LET e == StartSync(d)
           IN  /\ e \in Deduper
               /\ \A k \in Keys : /\ e.received[k].val = d.received[k].val
                                  /\ e.successfullyProcessed[k].val = d.successfullyProcessed[k].val
                                  /\ ~ e.received[k].processed
                                  /\ ~ e.successfullyProcessed[k].processed
<1>1. \A map \in EntryMap : /\ Unseen(map) \in EntryMap
                            /\ \A k \in Keys : /\ Unseen(map)[k].val = map[k].val
                                               /\ Unseen(map)[k].processed = FALSE
  BY DEF Unseen, EntryMap, Entry
<1>2. d.received \in EntryMap /\ d.successfullyProcessed \in EntryMap
  BY DEF Deduper
<1> QED BY <1>1, <1>2 DEF StartSync, Deduper

LEMMA ProcessSyncFacts ==
    ASSUME NEW d \in Deduper
    PROVE  LET e == ProcessSync(d)
           IN  /\ e \in Deduper /\ e.received = d.received
               /\ \A k \in Keys : /\ e.successfullyProcessed[k] \in {NoEntry, d.successfullyProcessed[k]}
                                  /\ k \in NotSynced(d) => e.successfullyProcessed[k] = NoEntry
<1> DEFINE s == [k \in Keys |-> IF \/ k \in NotSynced(d)
                                   \/ k \in AlertKeys /\ DeploymentOf[k] \in NotSynced(d)
                                THEN NoEntry ELSE d.successfullyProcessed[k]]
<1>1. d = [received |-> d.received, successfullyProcessed |-> d.successfullyProcessed]
      /\ d.received \in EntryMap /\ d.successfullyProcessed \in EntryMap
  BY DEF Deduper
<1>2. ProcessSync(d) = [received |-> d.received, successfullyProcessed |-> s]
  BY <1>1 DEF ProcessSync
<1>3. s \in EntryMap
  BY <1>1 DEF EntryMap, Entry, NoEntry
<1>4. \A k \in Keys : /\ s[k] \in {NoEntry, d.successfullyProcessed[k]}
                      /\ k \in NotSynced(d) => s[k] = NoEntry
  OBVIOUS
<1> HIDE DEF s
<1> QED BY <1>1, <1>2, <1>3, <1>4 DEF Deduper

LEMMA MarkApart ==
    ASSUME NEW d \in Deduper, NEW m, Known(m), NEW k \in Keys, k # m.key
    PROVE  /\ MarkSuccessful(d, m).received[k] = d.received[k]
           /\ MarkSuccessful(d, m).successfullyProcessed[k] = d.successfullyProcessed[k]
BY DEF Known, MarkSuccessful, SkipDedupe, Deduper, EntryMap, Entry, NoEntry

\* An event gets its dedupe key in addMultiplexed.
Keyed(m) == [m EXCEPT !.dedupeKey = IF m.act = "CREATE" THEN NoKey ELSE <<m.key>>]

LEMMA KeyedFacts ==
    ASSUME NEW m \in Event({NoKey})
    PROVE  /\ Keyed(m) \in Queueable /\ Known(Keyed(m))
           /\ Keyed(m).key = m.key /\ Keyed(m).act = m.act /\ Keyed(m).val = m.val
           /\ Keyed(m).attempt = 0
           /\ Keyed(m).dedupeKey = IF m.act = "CREATE" THEN NoKey ELSE <<m.key>>
<1>1. /\ m.key \in Keys /\ m.act \in Actions /\ m.val \in Hashes /\ m.attempt = 0
      /\ m = [key |-> m.key, act |-> m.act, val |-> m.val, attempt |-> 0,
              dedupeKey |-> m.dedupeKey]
  BY EventFacts
<1>2. Keyed(m) = [key |-> m.key, act |-> m.act, val |-> m.val, attempt |-> 0,
                  dedupeKey |-> IF m.act = "CREATE" THEN NoKey ELSE <<m.key>>]
  BY <1>1 DEF Keyed
<1>3. (IF m.act = "CREATE" THEN NoKey ELSE <<m.key>>) \in {NoKey} \cup {<<k>> : k \in Keys}
  BY <1>1
<1> QED BY <1>1, <1>2, <1>3 DEF Queueable, Event, Known

\* Central's handler, in terms of the event m that it handles.
LEMMA HandleEventFacts ==
    ASSUME TypeOK, HandleEvent
    PROVE  \E m \in Event({NoKey}) :
              /\ m = Head(wire) /\ wire # <<>> /\ wire' = Tail(wire)
              /\ recon' = IF closed THEN recon ELSE recon \cup {m.key}
              /\ ded' = AfterShouldProcess(ded, Keyed(m))
              /\ work' = IF ShouldProcess(ded, Keyed(m))
                         THEN [work EXCEPT ![m.key] = Push(@, Keyed(m))] ELSE work
<1>1. wire # <<>> /\ Head(wire) \in Wired /\ Head(wire).act # "Synced"
  BY DEF HandleEvent, TypeOK
<1>2. Head(wire) \in Event({NoKey})
  BY <1>1, WiredFacts
<1>3. Keyed(Head(wire)).key = Head(wire).key
  BY <1>2, KeyedFacts
<1> WITNESS Head(wire) \in Event({NoKey})
<1> QED BY <1>1, <1>3 DEF HandleEvent, Keyed

LEMMA InitType == Init => TypeOK
<1> SUFFICES ASSUME Init PROVE TypeOK
  OBVIOUS
<1>1. NoHashes \in [Keys -> Hashes \cup {NoHash}] /\ NewDeduper(NoHashes) \in Deduper
  BY NewDeduperFacts DEF NoHashes
<1>2. AllIdle \in [Keys -> {Idle} \cup InHand] /\ \A k \in Keys : AllIdle[k] = Idle
  BY DEF AllIdle
<1>3. wire \in Seq(Wired) /\ Len(wire) <= BufferSize
  BY SyncAssumption DEF Init
<1>4. work \in [Keys -> Seq(Queueable)] /\ \A k \in Keys : Len(work[k]) = 0
  BY DEF Init
<1>5. changes \in 0..MaxChanges /\ breaks \in 0..MaxBreaks
  BY SyncAssumption DEF Init
<1>6. \A k \in Keys : \A i \in 1..Len(work[k]) : work[k][i].key = k
  BY <1>4
<1> QED BY <1>1, <1>2, <1>3, <1>4, <1>5, <1>6 DEF Init, TypeOK

LEMMA CountFacts ==
    ASSUME TypeOK
    PROVE  /\ changes < MaxChanges => changes + 1 \in 0..MaxChanges
           /\ breaks < MaxBreaks => breaks + 1 \in 0..MaxBreaks
BY SyncAssumption DEF TypeOK

LEMMA ClusterTypes ==
    ASSUME TypeOK, NEW k \in Keys, NEW v \in Hashes,
           Create(k, v) \/ Update(k, v) \/ Delete(k) \/ List(k)
    PROVE  TypeOK'
<1>1. truth[k] \in Hashes \cup {NoHash} /\ (changes < MaxChanges => changes + 1 \in 0..MaxChanges)
  BY CountFacts DEF TypeOK
<1>2. ASSUME NEW act \in Actions, NEW w \in Hashes, SendEvent(k, act, w)
      PROVE  /\ wire' \in Seq(Wired) /\ Len(wire') <= BufferSize /\ excused' \subseteq Keys
             /\ lastSent' \in [Keys -> Hashes \cup {NoHash}] /\ unchanged' \subseteq centralState
  <2>1. Target(act, w) \in Hashes \cup {NoHash}
    BY DEF Target
  <2>2. /\ wire' \in Seq(Wired) /\ Len(wire') <= BufferSize /\ excused' \subseteq Keys
        /\ lastSent' = [lastSent EXCEPT ![k] = Target(act, w)]
        /\ \/ unchanged' = unchanged
           \/ unchanged' = unchanged \cup ({k} \cap centralState)
    BY <1>2, SendEventFacts
  <2> QED BY <2>1, <2>2 DEF TypeOK
<1>3. ASSUME NoEvent
      PROVE  /\ wire' \in Seq(Wired) /\ Len(wire') <= BufferSize /\ excused' \subseteq Keys
             /\ lastSent' \in [Keys -> Hashes \cup {NoHash}] /\ unchanged' \subseteq centralState
  BY <1>3 DEF NoEvent, TypeOK
<1>4. /\ wire' \in Seq(Wired) /\ Len(wire') <= BufferSize /\ excused' \subseteq Keys
      /\ lastSent' \in [Keys -> Hashes \cup {NoHash}] /\ unchanged' \subseteq centralState
  <2>0. {"SYNC", "CREATE", "UPDATE", "REMOVE"} \subseteq Actions
    BY DEF Actions
  <2>1. CASE Create(k, v)
    BY <1>2, <1>3, <2>0, <2>1 DEF Create
  <2>2. CASE Update(k, v)
    BY <1>2, <1>3, <2>0, <2>2 DEF Update
  <2>3. CASE Delete(k)
    BY <1>1, <1>2, <1>3, <2>0, <2>3 DEF Delete
  <2>4. CASE List(k)
    BY <1>1, <1>2, <2>0, <2>4 DEF List
  <2> QED BY <2>1, <2>2, <2>3, <2>4
<1>5. CASE Create(k, v)
  BY <1>1, <1>4, <1>5 DEF Create, TypeOK, handlerVars, workerVars, dbVars, disturbances
<1>6. CASE Update(k, v)
  BY <1>1, <1>4, <1>6 DEF Update, TypeOK, handlerVars, workerVars, dbVars, disturbances
<1>7. CASE Delete(k)
  BY <1>1, <1>4, <1>7 DEF Delete, TypeOK, handlerVars, workerVars, dbVars, disturbances
<1>8. CASE List(k)
  BY <1>4, <1>8 DEF List, TypeOK, clusterVars, handlerVars, workerVars, dbVars, disturbances
<1> QED BY <1>5, <1>6, <1>7, <1>8

LEMMA IdleType ==
    /\ AllIdle \in [Keys -> {Idle} \cup InHand] /\ \A k \in Keys : AllIdle[k] = Idle
    /\ NoHashes \in [Keys -> Hashes \cup {NoHash}] /\ \A k \in Keys : NoHashes[k] = NoHash
BY DEF AllIdle, NoHashes

\* The work queues of a connection that has ended.
LEMMA EmptyWork ==
    LET w == [k \in Keys |-> <<>>]
    IN  w \in [Keys -> Seq(Queueable)] /\ \A k \in Keys : w[k] = <<>> /\ Len(w[k]) = 0
OBVIOUS

LEMMA ConnectionTypes ==
    ASSUME TypeOK, ListDone \/ NewConnection \/ Connect \/ Break \/ Crash
    PROVE  TypeOK'
<1>1. CASE ListDone
  <2>1. [act |-> "Synced", unchangedIDs |-> unchanged] \in Wired
    BY DEF TypeOK, Wired
  <2>2. wire' \in Seq(Wired) /\ Len(wire') <= BufferSize /\ excused' \subseteq Keys
    BY <1>1, <2>1, SendType DEF ListDone
  <2> QED BY <1>1, <2>2 DEF ListDone, TypeOK, clusterVars, handlerVars, workerVars, dbVars,
                            disturbances
<1>2. CASE NewConnection
  <2>1. ded' \in Deduper
    BY <1>2, StartSyncFacts DEF NewConnection, TypeOK
  <2> QED BY <1>2, <2>1 DEF NewConnection, TypeOK, clusterVars, workerVars, dbVars, disturbances
<1>3. wire' = <<>> => wire' \in Seq(Wired) /\ Len(wire') <= BufferSize
  BY SyncAssumption
<1>4. CASE Connect
  <2>1. /\ old' \in [Keys -> {Idle} \cup InHand]
        /\ \A k \in Keys : old'[k] # Idle => old'[k].msg.key = k
    BY <1>4, IdleType DEF Connect, TypeOK
  <2>2. PICK known \in {GetSuccessfulHashes(ded), NoHashes} :
            lastSent' = known /\ centralState' = {k \in Keys : known[k] # NoHash}
    BY <1>4 DEF Connect
  <2>3. known \in [Keys -> Hashes \cup {NoHash}]
    BY IdleType, SuccessfulFacts DEF TypeOK
  <2>4. misled' \subseteq Keys /\ excused' \subseteq Keys
    BY <1>4 DEF Connect, Accepted, TypeOK
  <2>5. work' \in [Keys -> Seq(Queueable)] /\ \A k \in Keys : \A i \in 1..Len(work'[k]) : FALSE
    BY <1>4, EmptyWork DEF Connect
  <2>6. handling' \in [Keys -> {Idle} \cup InHand] /\ \A k \in Keys : handling'[k] = Idle
    BY <1>4, IdleType DEF Connect
  <2> QED BY <1>3, <1>4, <2>1, <2>2, <2>3, <2>4, <2>5, <2>6
          DEF Connect, TypeOK, clusterVars, dbVars
<1>5. CASE Break
  BY <1>5, CountFacts DEF Break, TypeOK, clusterVars, handlerVars, workerVars, dbVars
<1>6. CASE Crash
  <2>1. persisted \in [Keys -> Hashes \cup {NoHash}]
    BY DEF TypeOK
  <2>2. ded' \in Deduper /\ misled' \subseteq Keys
    BY <1>6, <2>1, IdleType, NewDeduperFacts DEF Crash
  <2>3. work' \in [Keys -> Seq(Queueable)] /\ \A k \in Keys : \A i \in 1..Len(work'[k]) : FALSE
    BY <1>6, EmptyWork DEF Crash
  <2>4. /\ handling' \in [Keys -> {Idle} \cup InHand] /\ old' \in [Keys -> {Idle} \cup InHand]
        /\ \A k \in Keys : handling'[k] = Idle /\ old'[k] = Idle
    BY <1>6, IdleType DEF Crash
  <2>5. breaks' \in 0..MaxBreaks
    BY <1>6, CountFacts DEF Crash
  <2> QED BY <1>3, <1>6, <2>2, <2>3, <2>4, <2>5 DEF Crash, TypeOK, clusterVars, dbVars
<1> QED BY <1>1, <1>2, <1>4, <1>5, <1>6

LEMMA HandlerTypes ==
    ASSUME TypeOK, HandleEvent \/ HandleSynced \/ FlushHashes
    PROVE  TypeOK'
<1>0. wire # <<>> => Tail(wire) \in Seq(Wired) /\ Len(Tail(wire)) <= BufferSize
                     /\ Head(wire) \in Wired
  <2>1. wire \in Seq(Wired) /\ Len(wire) <= BufferSize /\ BufferSize \in Nat
    BY SyncAssumption DEF TypeOK
  <2>2. Len(wire) \in Nat
    BY <2>1
  <2> QED BY <2>1, <2>2
<1>1. CASE HandleEvent
  <2>1. PICK m \in Event({NoKey}) :
              /\ m = Head(wire) /\ wire # <<>> /\ wire' = Tail(wire)
              /\ recon' = IF closed THEN recon ELSE recon \cup {m.key}
              /\ ded' = AfterShouldProcess(ded, Keyed(m))
              /\ work' = IF ShouldProcess(ded, Keyed(m))
                         THEN [work EXCEPT ![m.key] = Push(@, Keyed(m))] ELSE work
    BY <1>1, HandleEventFacts
  <2>2. m.key \in Keys /\ Keyed(m) \in Queueable /\ Known(Keyed(m)) /\ Keyed(m).key = m.key
    BY EventFacts, KeyedFacts
  <2>3. ded \in Deduper
    BY DEF TypeOK
  <2>4. ded' \in Deduper
    BY <2>1, <2>2, <2>3, AcceptFacts
  <2>5. work[m.key] \in Seq(Queueable)
    BY <2>2 DEF TypeOK
  <2>6. /\ Push(work[m.key], Keyed(m)) \in Seq(Queueable)
        /\ Items(Push(work[m.key], Keyed(m))) \subseteq Items(work[m.key]) \cup {Keyed(m)}
    BY <2>2, <2>5, PushItems
  <2>7. \A i \in 1..Len(Push(work[m.key], Keyed(m))) : Push(work[m.key], Keyed(m))[i].key = m.key
    <3> DEFINE p == Push(work[m.key], Keyed(m))
    <3>1. \A x \in Items(work[m.key]) \cup {Keyed(m)} : x.key = m.key
      BY <2>2 DEF Items, TypeOK
    <3>2. \A i \in 1..Len(p) : p[i] \in Items(p)
      BY DEF Items
    <3> HIDE DEF p
    <3> QED BY <2>6, <3>1, <3>2 DEF p
  <2>8. /\ work' \in [Keys -> Seq(Queueable)]
        /\ \A k \in Keys : \A i \in 1..Len(work'[k]) : work'[k][i].key = k
    BY <2>1, <2>2, <2>6, <2>7 DEF TypeOK
  <2> QED BY <1>0, <1>1, <2>1, <2>2, <2>4, <2>8
          DEF HandleEvent, TypeOK, clusterVars, sensorVars, dbVars, disturbances
<1>2. CASE HandleSynced
  <2>1. Head(wire).unchangedIDs \subseteq Keys /\ wire # <<>>
    BY <1>0, <1>2, WiredFacts, EventFacts DEF HandleSynced
  <2>2. ded' \in Deduper
    BY <1>2, ProcessSyncFacts DEF HandleSynced, TypeOK
  <2>3. /\ db' \in [Keys -> Hashes \cup {NoHash}] /\ excused' \subseteq Keys /\ misled' \subseteq Keys
    BY <1>2 DEF HandleSynced, Reconcile, TypeOK
  <2> QED BY <1>0, <1>2, <2>1, <2>2, <2>3
          DEF HandleSynced, TypeOK, clusterVars, sensorVars, workerVars
<1>3. CASE FlushHashes
  <2>1. persisted' \in [Keys -> Hashes \cup {NoHash}]
    BY <1>3, SuccessfulFacts DEF FlushHashes, TypeOK
  <2> QED BY <1>3, <2>1 DEF FlushHashes, TypeOK, clusterVars, sensorVars, handlerVars,
                            workerVars, disturbances
<1> QED BY <1>1, <1>2, <1>3

LEMMA StoredType ==
    ASSUME NEW m, Known(m) PROVE Stored(m) \in Hashes \cup {NoHash}
BY DEF Stored, Known

LEMMA WorkerTypes ==
    ASSUME TypeOK, NEW k \in Keys,
           StartWork(k) \/ Write(k) \/ Mark(k) \/ Fail(k)
    PROVE  TypeOK'
<1>1. /\ handling[k] = Idle <=> handling[k].phase = "idle"
      /\ handling[k] = Idle \/ (handling[k] \in InHand /\ handling[k].msg \in Queueable)
      /\ handling[k] # Idle => handling[k].msg.key = k /\ Known(handling[k].msg)
  BY HandFacts
<1>2. CASE StartWork(k)
  <2>1. work[k] \in Seq(Queueable) /\ work[k] # <<>> /\ \A m \in Items(work[k]) : m.key = k
    BY <1>2 DEF StartWork, TypeOK, Items
  <2>2. /\ Pulled(work[k]) \in Queueable /\ AfterPull(work[k]) \in Seq(Queueable)
        /\ Items(work[k]) = Items(AfterPull(work[k])) \cup {Pulled(work[k])}
    BY <2>1, PullItems
  <2>3. \A i \in 1..Len(AfterPull(work[k])) : AfterPull(work[k])[i].key = k
    BY <2>1, <2>2 DEF Items
  <2>4. [phase |-> "pulled", msg |-> Pulled(work[k])] \in InHand /\ Pulled(work[k]).key = k
    BY <2>1, <2>2 DEF InHand
  <2>5. /\ work' \in [Keys -> Seq(Queueable)]
        /\ \A j \in Keys : \A i \in 1..Len(work'[j]) : work'[j][i].key = j
    BY <1>2, <2>2, <2>3 DEF StartWork, TypeOK
  <2>6. /\ handling' \in [Keys -> {Idle} \cup InHand]
        /\ \A j \in Keys : handling'[j] # Idle => handling'[j].msg.key = j
    BY <1>2, <2>4 DEF StartWork, TypeOK
  <2> QED BY <1>2, <2>5, <2>6 DEF StartWork, TypeOK, clusterVars, sensorVars, handlerVars,
                                  dbVars, disturbances
<1>3. CASE Write(k)
  <2>1. handling[k] \in InHand /\ Stored(handling[k].msg) \in Hashes \cup {NoHash}
    BY <1>1, <1>3, StoredType DEF Write
  <2>2. [handling[k] EXCEPT !.phase = "written"] \in InHand
        /\ [handling[k] EXCEPT !.phase = "written"].msg = handling[k].msg
    BY <2>1 DEF InHand
  <2>3. handling' = [handling EXCEPT ![k] = [handling[k] EXCEPT !.phase = "written"]]
    BY <1>3 DEF Write
  <2>4. /\ handling' \in [Keys -> {Idle} \cup InHand]
        /\ \A j \in Keys : handling'[j] # Idle => handling'[j].msg.key = j
    BY <1>1, <1>3, <2>2, <2>3 DEF Write, TypeOK
  <2> QED BY <1>3, <2>1, <2>4 DEF Write, TypeOK, clusterVars, sensorVars, handlerVars,
                                  disturbances
<1>4. CASE Mark(k) \/ Fail(k)
  <2>1. Known(handling[k].msg) /\ ded \in Deduper
    BY <1>1, <1>4 DEF Mark, Fail, TypeOK
  <2>2. ded' \in Deduper
    <3>1. MarkSuccessful(ded, handling[k].msg) \in Deduper
      BY <2>1, MarkFacts
    <3>2. RemoveMessage(ded, handling[k].msg) \in Deduper
      BY <2>1, ForgetFacts
    <3> QED BY <1>4, <2>1, <3>1, <3>2 DEF Mark, Fail
  <2>3. /\ handling' \in [Keys -> {Idle} \cup InHand]
        /\ \A j \in Keys : handling'[j] # Idle => handling'[j].msg.key = j
    BY <1>4 DEF Mark, Fail, TypeOK
  <2>4. excused' \subseteq Keys
    BY <1>4 DEF Mark, Fail, TypeOK
  <2>5. /\ recon' = recon /\ closed' = closed /\ work' = work /\ old' = old /\ wire' = wire
        /\ UNCHANGED <<clusterVars, sensorVars, dbVars, disturbances>>
    BY <1>4 DEF Mark, Fail
  <2> QED BY <2>2, <2>3, <2>4, <2>5 DEF TypeOK, clusterVars, sensorVars, dbVars, disturbances
<1> QED BY <1>2, <1>3, <1>4

LEMMA StragglerTypes ==
    ASSUME TypeOK, NEW k \in Keys, OldWrite(k) \/ OldMark(k) \/ OldCancel(k)
    PROVE  TypeOK'
<1>1. /\ old[k] = Idle <=> old[k].phase = "idle"
      /\ old[k] = Idle \/ (old[k] \in InHand /\ old[k].msg \in Queueable)
      /\ old[k] # Idle => old[k].msg.key = k /\ Known(old[k].msg)
  BY HandFacts
<1>2. CASE OldWrite(k)
  <2>1. old[k] \in InHand /\ Stored(old[k].msg) \in Hashes \cup {NoHash}
    BY <1>1, <1>2, StoredType DEF OldWrite
  <2>2. [old[k] EXCEPT !.phase = "written"] \in InHand
        /\ [old[k] EXCEPT !.phase = "written"].msg = old[k].msg
    BY <2>1 DEF InHand
  <2>3. old' = [old EXCEPT ![k] = [old[k] EXCEPT !.phase = "written"]]
    BY <1>2 DEF OldWrite
  <2>4. /\ old' \in [Keys -> {Idle} \cup InHand]
        /\ \A j \in Keys : old'[j] # Idle => old'[j].msg.key = j
    BY <1>1, <1>2, <2>2, <2>3 DEF OldWrite, TypeOK
  <2> QED BY <1>2, <2>1, <2>4 DEF OldWrite, TypeOK, clusterVars, sensorVars, handlerVars,
                                  disturbances
<1>3. CASE OldMark(k) \/ OldCancel(k)
  <2>1. Known(old[k].msg) /\ ded \in Deduper
    BY <1>1, <1>3 DEF OldMark, OldCancel, TypeOK
  <2>2. ded' \in Deduper
    <3>1. MarkSuccessful(ded, old[k].msg) \in Deduper
      BY <2>1, MarkFacts
    <3> QED BY <1>3, <2>1, <3>1 DEF OldMark, OldCancel, handlerVars
  <2>3. /\ old' \in [Keys -> {Idle} \cup InHand]
        /\ \A j \in Keys : old'[j] # Idle => old'[j].msg.key = j
    BY <1>3 DEF OldMark, OldCancel, TypeOK
  <2>4. excused' \subseteq Keys
    BY <1>3 DEF OldMark, OldCancel, TypeOK
  <2>5. UNCHANGED <<clusterVars, sensorVars, wire, recon, closed, work, handling, dbVars,
                    disturbances>>
    BY <1>3 DEF OldMark, OldCancel, handlerVars
  <2> QED BY <2>2, <2>3, <2>4, <2>5 DEF TypeOK, clusterVars, sensorVars, dbVars, disturbances
<1> QED BY <1>2, <1>3

LEMMA NextType == TypeOK /\ [Next]_vars => TypeOK'
<1> SUFFICES ASSUME TypeOK, [Next]_vars PROVE TypeOK'
  OBVIOUS
<1>1. CASE UNCHANGED vars
  BY <1>1 DEF TypeOK, vars, clusterVars, sensorVars, handlerVars, workerVars, dbVars, disturbances
<1>2. ASSUME NEW k \in Keys, NEW v \in Hashes, Create(k, v) \/ Update(k, v) PROVE TypeOK'
  BY <1>2, ClusterTypes
<1>3. ASSUME NEW k \in Keys, Delete(k) \/ List(k) PROVE TypeOK'
  <2>1. \E v \in Hashes : TRUE
    BY <1>3 DEF Delete, List, TypeOK
  <2> QED BY <1>3, <2>1, ClusterTypes
<1>4. CASE ListDone \/ NewConnection \/ Connect \/ Break \/ Crash
  BY <1>4, ConnectionTypes
<1>5. CASE HandleEvent \/ HandleSynced \/ FlushHashes
  BY <1>5, HandlerTypes
<1>6. ASSUME NEW k \in Keys, StartWork(k) \/ Write(k) \/ Mark(k) \/ Fail(k) PROVE TypeOK'
  BY <1>6, WorkerTypes
<1>7. ASSUME NEW k \in Keys, OldWrite(k) \/ OldMark(k) \/ OldCancel(k) PROVE TypeOK'
  BY <1>7, StragglerTypes
<1> QED BY <1>1, <1>2, <1>3, <1>4, <1>5, <1>6, <1>7 DEF Next

\* EventSync.TypeOK: the variables keep their types, for any objects and contents and any
\* faults; Sensor's buffer never holds more than its size, the unchanged ids come from
\* Central's state, and a worker only handles events of its own resource.
THEOREM TypeCorrect == Spec => []TypeOK
BY InitType, NextType, PTL DEF Spec
-----------------------------------------------------------------------------
\* What a step does to the events of k on the wire.
LEMMA WireAppend ==
    ASSUME TypeOK, NEW k \in Keys, NEW m \in Wired, wire' = Append(wire, m)
    PROVE  /\ IsEvent(m, k) =>
                 /\ Sent(k)' = Sent(k) \cup {m}
                 /\ \A a, b : SentBefore(k, a, b)' => SentBefore(k, a, b) \/ (a \in Sent(k) /\ b = m)
           /\ ~ IsEvent(m, k) =>
                 /\ Sent(k)' = Sent(k)
                 /\ \A a, b : SentBefore(k, a, b)' => SentBefore(k, a, b)
           /\ Ahead(k) => Ahead(k)'
           /\ IsEvent(m, k) /\ (\A i \in 1..Len(wire) : wire[i].act # "Synced") => Ahead(k)'
<1> DEFINE n == Len(wire)
<1>1. wire \in Seq(Wired) /\ n \in Nat
  BY DEF TypeOK
<1>2. /\ Len(wire') = n + 1 /\ wire'[n + 1] = m
      /\ \A i \in 1..n : wire'[i] = wire[i]
  BY <1>1
<1>3. \A i : i \in 1..(n + 1) <=> i \in 1..n \/ i = n + 1
  BY <1>1
<1> HIDE DEF n
<1>4. Sent(k)' = IF IsEvent(m, k) THEN Sent(k) \cup {m} ELSE Sent(k)
  <2>1. Sent(k) = {wire[i] : i \in {j \in 1..n : IsEvent(wire[j], k)}}
    BY DEF Sent, n
  <2>2. Sent(k)' = {wire'[i] : i \in {j \in 1..(n + 1) : IsEvent(wire'[j], k)}}
    BY <1>2 DEF Sent, IsEvent
  <2> QED BY <1>2, <1>3, <2>1, <2>2
<1>5. ASSUME NEW a, NEW b, SentBefore(k, a, b)'
      PROVE  SentBefore(k, a, b) \/ (a \in Sent(k) /\ b = m /\ IsEvent(m, k))
  <2>1. PICK i, j \in 1..(n + 1) : /\ i < j /\ IsEvent(wire'[i], k) /\ IsEvent(wire'[j], k)
                                   /\ a = wire'[i] /\ b = wire'[j]
    BY <1>2, <1>5 DEF SentBefore, IsEvent
  <2>2. i \in 1..n /\ wire'[i] = wire[i]
    BY <1>1, <1>2, <2>1
  <2>3. a \in Sent(k)
    BY <2>1, <2>2 DEF Sent, n
  <2>4. CASE j = n + 1
    BY <1>2, <2>1, <2>3, <2>4
  <2>5. CASE j \in 1..n
    BY <1>2, <2>1, <2>2, <2>5 DEF SentBefore, n
  <2> QED BY <1>3, <2>1, <2>4, <2>5
<1>6. Ahead(k)' <=> \E i \in 1..(n + 1) : /\ IsEvent(wire'[i], k)
                                          /\ \A j \in 1..i : wire'[j].act # "Synced"
  BY <1>2 DEF Ahead, IsEvent
<1>7. ASSUME Ahead(k) PROVE Ahead(k)'
  <2>1. PICK i \in 1..n : IsEvent(wire[i], k) /\ \A j \in 1..i : wire[j].act # "Synced"
    BY <1>7 DEF Ahead, n
  <2>2. \A j \in 1..i : j \in 1..n
    BY <1>1, <2>1
  <2> QED BY <1>2, <1>3, <1>6, <2>1, <2>2
<1>8. ASSUME IsEvent(m, k), \A i \in 1..n : wire[i].act # "Synced" PROVE Ahead(k)'
  <2>1. \A j \in 1..(n + 1) : wire'[j].act # "Synced"
    BY <1>2, <1>3, <1>8 DEF IsEvent
  <2>2. n + 1 \in 1..(n + 1)
    BY <1>1
  <2> QED BY <1>2, <1>6, <1>8, <2>1, <2>2
<1> QED BY <1>4, <1>5, <1>7, <1>8 DEF n

LEMMA WirePop ==
    ASSUME TypeOK, NEW k \in Keys, wire # <<>>, wire' = Tail(wire), NEW m, m = Head(wire)
    PROVE  /\ m = wire[1] /\ 1 \in 1..Len(wire) /\ m \in Wired
           /\ IsEvent(m, k) =>
                 /\ Sent(k) = Sent(k)' \cup {m}
                 /\ \A b \in Sent(k)' : SentBefore(k, m, b)
           /\ ~ IsEvent(m, k) => Sent(k)' = Sent(k)
           /\ \A a, b : SentBefore(k, a, b)' => SentBefore(k, a, b)
           /\ ~ IsEvent(m, k) /\ m.act # "Synced" /\ Ahead(k) => Ahead(k)'
           /\ m.act = "Synced" => ~ Ahead(k)
           /\ \A i \in 1..Len(wire') : \E j \in 1..Len(wire) : wire'[i] = wire[j]
<1> DEFINE n == Len(wire')
<1>1. wire \in Seq(Wired) /\ wire' \in Seq(Wired) /\ n \in Nat
  BY DEF TypeOK
<1>2. /\ Len(wire) = n + 1 /\ wire[1] = m /\ m \in Wired
      /\ \A i \in 1..n : wire'[i] = wire[i + 1]
  BY <1>1
<1> HIDE DEF n
<1>3. \A i : i \in 1..n => i + 1 \in 1..(n + 1)
  BY <1>1
<1>4. \A i : i \in 1..(n + 1) => i = 1 \/ (i - 1 \in 1..n /\ i = (i - 1) + 1)
  BY <1>1
<1>5. 1 \in 1..(n + 1)
  BY <1>1
<1>6. Sent(k) = {wire[i] : i \in {j \in 1..(n + 1) : IsEvent(wire[j], k)}}
  BY <1>2 DEF Sent
<1>7. Sent(k)' = {wire'[i] : i \in {j \in 1..n : IsEvent(wire'[j], k)}}
  BY DEF Sent, IsEvent, n
<1>8. Sent(k)' \subseteq Sent(k)
  BY <1>2, <1>3, <1>6, <1>7
<1>9. \A b \in Sent(k) : b \in Sent(k)' \/ (b = m /\ IsEvent(m, k))
  <2> SUFFICES ASSUME NEW i \in 1..(n + 1), IsEvent(wire[i], k)
               PROVE  wire[i] \in Sent(k)' \/ (wire[i] = m /\ IsEvent(m, k))
    BY <1>6
  <2>1. CASE i = 1
    BY <1>2, <2>1
  <2>2. CASE i - 1 \in 1..n /\ i = (i - 1) + 1
    <3>1. wire'[i - 1] = wire[i]
      BY <1>2, <2>2
    <3> QED BY <1>7, <2>2, <3>1
  <2> QED BY <1>4, <2>1, <2>2
<1>10. IsEvent(m, k) => m \in Sent(k)
  BY <1>2, <1>5, <1>6
<1>11. ASSUME IsEvent(m, k), NEW b \in Sent(k)' PROVE SentBefore(k, m, b)
  <2>1. PICK i \in 1..n : IsEvent(wire'[i], k) /\ b = wire'[i]
    BY <1>7
  <2>2. i + 1 \in 1..(n + 1) /\ 1 < i + 1 /\ b = wire[i + 1] /\ IsEvent(wire[i + 1], k)
    BY <1>1, <1>2, <1>3, <2>1
  <2> QED BY <1>2, <1>5, <1>11, <2>2 DEF SentBefore
<1>12. ASSUME NEW a, NEW b, SentBefore(k, a, b)' PROVE SentBefore(k, a, b)
  <2>1. PICK i, j \in 1..n : /\ i < j /\ IsEvent(wire'[i], k) /\ IsEvent(wire'[j], k)
                             /\ a = wire'[i] /\ b = wire'[j]
    BY <1>12 DEF SentBefore, IsEvent, n
  <2>2. i + 1 < j + 1 /\ i + 1 \in 1..(n + 1) /\ j + 1 \in 1..(n + 1)
    BY <1>1, <1>3, <2>1
  <2> QED BY <1>2, <2>1, <2>2 DEF SentBefore
<1>13. ASSUME ~ IsEvent(m, k), m.act # "Synced", Ahead(k) PROVE Ahead(k)'
  <2>1. PICK i \in 1..(n + 1) : IsEvent(wire[i], k) /\ \A j \in 1..i : wire[j].act # "Synced"
    BY <1>2, <1>13 DEF Ahead
  <2>2. i - 1 \in 1..n /\ i = (i - 1) + 1
    BY <1>2, <1>4, <1>13, <2>1
  <2>3. wire'[i - 1] = wire[i]
    BY <1>2, <2>2
  <2>4. ASSUME NEW j \in 1..(i - 1) PROVE wire'[j].act # "Synced"
    <3>1. j \in 1..n /\ j + 1 \in 1..i
      BY <1>1, <2>2
    <3> QED BY <1>2, <2>1, <3>1
  <2> QED BY <2>1, <2>2, <2>3, <2>4 DEF Ahead, IsEvent, n
<1>14. m.act = "Synced" => ~ Ahead(k)
  <2> SUFFICES ASSUME m.act = "Synced", Ahead(k) PROVE FALSE
    OBVIOUS
  <2>1. PICK i \in 1..(n + 1) : \A j \in 1..i : wire[j].act # "Synced"
    BY <1>2 DEF Ahead
  <2>2. 1 \in 1..i
    BY <1>1
  <2> QED BY <1>2, <2>1, <2>2
<1>15. \A i \in 1..Len(wire') : \E j \in 1..Len(wire) : wire'[i] = wire[j]
  BY <1>2, <1>3 DEF n
<1> QED BY <1>2, <1>5, <1>8, <1>9, <1>10, <1>11, <1>12, <1>13, <1>14, <1>15

LEMMA WireEmpty ==
    ASSUME NEW k \in Keys, wire' = <<>>
    PROVE  Sent(k)' = {} /\ \A a, b : ~ SentBefore(k, a, b)'
<1>1. 1..Len(wire') = {}
  OBVIOUS
<1> QED BY <1>1 DEF Sent, SentBefore

LEMMA WireSame ==
    ASSUME NEW k \in Keys, wire' = wire
    PROVE  /\ Sent(k)' = Sent(k) /\ (Ahead(k)' <=> Ahead(k))
           /\ \A a, b : SentBefore(k, a, b)' <=> SentBefore(k, a, b)
BY DEF Sent, Ahead, SentBefore, IsEvent

LEMMA SentTypes ==
    ASSUME TypeOK, NEW k \in Keys
    PROVE  \A m \in Sent(k) : m \in Event({NoKey}) /\ m.key = k /\ Known(m) /\ IsEvent(m, k)
<1>1. \A i \in 1..Len(wire) : wire[i] \in Wired
  BY DEF TypeOK
<1>2. \A m \in Wired : m.act # "Synced" => m \in Event({NoKey})
  BY WiredFacts
<1>3. \A m \in Event({NoKey}) : Known(m)
  BY EventFacts
<1> QED BY <1>1, <1>2, <1>3 DEF Sent, IsEvent

LEMMA QueueTypes ==
    ASSUME TypeOK, NEW k \in Keys
    PROVE  /\ work[k] \in Seq(Queueable)
           /\ \A m \in Queue(k) : m \in Queueable /\ m.key = k /\ Known(m)
<1>1. work[k] \in Seq(Queueable)
  BY DEF TypeOK
<1>2. \A i \in 1..Len(work[k]) : work[k][i] \in Queueable /\ work[k][i].key = k
  BY <1>1 DEF TypeOK
<1>3. \A m \in Queueable : Known(m)
  BY EventFacts DEF Queueable
<1> QED BY <1>1, <1>2, <1>3 DEF Queue, Items
-----------------------------------------------------------------------------
\* A step that does not concern k: neither a step of k nor one of all keys.
Apart(k) ==
    /\ up' = up /\ closed' = closed /\ (wire' # <<>> => up \/ wire # <<>>)
    /\ truth'[k] = truth[k] /\ past'[k] = past[k] /\ lastSent'[k] = lastSent[k]
    /\ k \in listed' <=> k \in listed
    /\ synced' /\ truth[k] # NoHash => synced \/ k \in listed
    /\ k \in centralState' <=> k \in centralState
    /\ k \in unchanged' <=> k \in unchanged
    /\ k \in recon' <=> k \in recon
    /\ k \in misled' <=> k \in misled
    /\ k \in excused => k \in excused'
    /\ Sent(k)' = Sent(k) /\ (Ahead(k) => Ahead(k)')
    /\ \A a, b : SentBefore(k, a, b)' => SentBefore(k, a, b)
    /\ work'[k] = work[k] /\ handling'[k] = handling[k] /\ old'[k] = old[k]
    /\ db'[k] = db[k] /\ persisted'[k] = persisted[k]
    /\ ded'.received[k] = ded.received[k]
    /\ ded'.successfullyProcessed[k] = ded.successfullyProcessed[k]

HandleEventOf(k) == HandleEvent /\ Head(wire).key = k

\* The steps that concern k.
Concerns(k) ==
    \/ \E v \in Hashes : Create(k, v) \/ Update(k, v)
    \/ Delete(k) \/ List(k)
    \/ NewConnection \/ Connect \/ Break \/ Crash \/ HandleEventOf(k) \/ HandleSynced
    \/ StartWork(k) \/ Write(k) \/ Mark(k) \/ Fail(k)
    \/ OldWrite(k) \/ OldMark(k) \/ OldCancel(k) \/ FlushHashes

LEMMA SendEventApart ==
    ASSUME TypeOK, NEW k \in Keys, NEW j \in Keys, j # k,
           NEW act \in Actions, NEW v \in Hashes, SendEvent(j, act, v)
    PROVE  /\ Sent(k)' = Sent(k) /\ (Ahead(k) => Ahead(k)')
           /\ \A a, b : SentBefore(k, a, b)' => SentBefore(k, a, b)
           /\ lastSent'[k] = lastSent[k] /\ (k \in unchanged' <=> k \in unchanged)
           /\ k \in excused => k \in excused'
<1>1. /\ lastSent' = [lastSent EXCEPT ![j] = Target(act, v)]
      /\ \/ wire' = Append(wire, Msgs(j, act, v))
         \/ wire' = wire
      /\ excused' = excused \/ excused' = excused \cup {j}
      /\ unchanged' = unchanged \/ unchanged' = unchanged \cup ({j} \cap centralState)
  BY SendEventFacts
<1>2. Msgs(j, act, v) \in Wired /\ ~ IsEvent(Msgs(j, act, v), k)
  BY MsgsType DEF IsEvent
<1>3. CASE wire' = Append(wire, Msgs(j, act, v))
  BY <1>1, <1>2, <1>3, WireAppend DEF TypeOK
<1>4. CASE wire' = wire
  BY <1>1, <1>4, WireSame DEF TypeOK
<1> QED BY <1>1, <1>3, <1>4

LEMMA ClusterApart ==
    ASSUME TypeOK, NEW k \in Keys, NEW j \in Keys, j # k, NEW v \in Hashes,
           Create(j, v) \/ Update(j, v) \/ Delete(j) \/ List(j)
    PROVE  Apart(k)
<1> DEFINE Local ==
           /\ Sent(k)' = Sent(k) /\ (Ahead(k) => Ahead(k)')
           /\ \A a, b : SentBefore(k, a, b)' => SentBefore(k, a, b)
           /\ lastSent'[k] = lastSent[k] /\ (k \in unchanged' <=> k \in unchanged)
           /\ k \in excused => k \in excused'
<1>0. {"SYNC", "CREATE", "UPDATE", "REMOVE"} \subseteq Actions
      /\ truth[j] \in Hashes \cup {NoHash}
  BY DEF Actions, TypeOK
<1>1. ASSUME NEW act \in Actions, NEW w \in Hashes, SendEvent(j, act, w) PROVE Local
  BY <1>1, SendEventApart
<1>2. ASSUME NoEvent PROVE Local
  BY <1>2, WireSame DEF NoEvent
<1>3. Local
  <2> HIDE DEF Local
  <2>1. CASE Create(j, v)
    BY <1>0, <1>1, <1>2, <2>1 DEF Create
  <2>2. CASE Update(j, v)
    BY <1>0, <1>1, <1>2, <2>2 DEF Update
  <2>3. CASE Delete(j)
    BY <1>0, <1>1, <1>2, <2>3 DEF Delete
  <2>4. CASE List(j)
    BY <1>0, <1>1, <2>4 DEF List
  <2> QED BY <2>1, <2>2, <2>3, <2>4
<1>8. up \/ wire' = wire
  BY DEF Create, Update, Delete, List, Follows, NoEvent
<1>4. CASE Create(j, v)
  BY <1>3, <1>4, <1>8 DEF Create, Apart, TypeOK, handlerVars, workerVars, dbVars, disturbances
<1>5. CASE Update(j, v)
  BY <1>3, <1>5, <1>8 DEF Update, Apart, TypeOK, handlerVars, workerVars, dbVars, disturbances
<1>6. CASE Delete(j)
  BY <1>3, <1>6, <1>8 DEF Delete, Apart, TypeOK, handlerVars, workerVars, dbVars, disturbances
<1>7. CASE List(j)
  BY <1>3, <1>7 DEF List, Apart, TypeOK, clusterVars, handlerVars, workerVars, dbVars,
                    disturbances
<1> QED BY <1>4, <1>5, <1>6, <1>7

LEMMA ListDoneApart ==
    ASSUME TypeOK, NEW k \in Keys, ListDone
    PROVE  Apart(k)
<1> DEFINE s == [act |-> "Synced", unchangedIDs |-> unchanged]
<1>1. s \in Wired /\ s.act = "Synced" /\ ~ IsEvent(s, k)
  BY DEF TypeOK, Wired, IsEvent
<1>2. /\ wire' = Append(wire, s) \/ wire' = wire
      /\ excused \subseteq excused'
  BY <1>1, SendType DEF ListDone
<1> HIDE DEF s
<1>3. /\ Sent(k)' = Sent(k) /\ (Ahead(k) => Ahead(k)')
      /\ \A a, b : SentBefore(k, a, b)' => SentBefore(k, a, b)
  BY <1>1, <1>2, WireAppend, WireSame
<1> QED BY <1>2, <1>3 DEF ListDone, Apart, clusterVars, handlerVars, workerVars, dbVars,
                          disturbances

LEMMA HandleEventApart ==
    ASSUME TypeOK, NEW k \in Keys, HandleEvent, Head(wire).key # k
    PROVE  Apart(k)
<1>1. PICK m \in Event({NoKey}) :
            /\ m = Head(wire) /\ wire # <<>> /\ wire' = Tail(wire)
            /\ recon' = IF closed THEN recon ELSE recon \cup {m.key}
            /\ ded' = AfterShouldProcess(ded, Keyed(m))
            /\ work' = IF ShouldProcess(ded, Keyed(m))
                       THEN [work EXCEPT ![m.key] = Push(@, Keyed(m))] ELSE work
  BY HandleEventFacts
<1>2. m.key \in Keys /\ Known(Keyed(m)) /\ Keyed(m).key = m.key /\ m.act # "Synced"
  BY EventFacts, KeyedFacts
<1>3. ~ IsEvent(m, k) /\ m.key # k
  BY <1>1 DEF IsEvent
<1>4. /\ Sent(k)' = Sent(k) /\ (Ahead(k) => Ahead(k)')
      /\ \A a, b : SentBefore(k, a, b)' => SentBefore(k, a, b)
  BY <1>1, <1>2, <1>3, WirePop
<1>5. ded \in Deduper
  BY DEF TypeOK
<1>6. /\ ded'.received[k] = ded.received[k]
      /\ ded'.successfullyProcessed[k] = ded.successfullyProcessed[k]
  <2> DEFINE e == AfterShouldProcess(ded, Keyed(m))
  <2>1. e.received[k] = ded.received[k]
    BY <1>2, <1>3, <1>5, AcceptFacts
  <2>2. e.successfullyProcessed[k] = ded.successfullyProcessed[k]
    BY <1>2, <1>3, <1>5, AcceptFacts
  <2>3. ded' = e
    BY <1>1
  <2> HIDE DEF e
  <2> QED BY <2>1, <2>2, <2>3
<1>7. work'[k] = work[k]
  BY <1>1, <1>2, <1>3 DEF TypeOK
<1>8. k \in recon' <=> k \in recon
  BY <1>1, <1>3
<1> QED BY <1>4, <1>6, <1>7, <1>8
        DEF HandleEvent, Apart, clusterVars, sensorVars, dbVars, disturbances

LEMMA WorkApart ==
    ASSUME TypeOK, NEW k \in Keys, NEW j \in Keys, j # k,
           StartWork(j) \/ Write(j) \/ Mark(j) \/ Fail(j)
    PROVE  Apart(k)
<1>1. wire' = wire
  BY DEF StartWork, Write, Mark, Fail
<1>2. /\ Sent(k)' = Sent(k) /\ (Ahead(k) => Ahead(k)')
      /\ \A a, b : SentBefore(k, a, b)' => SentBefore(k, a, b)
  BY <1>1, WireSame
<1>3. ded \in Deduper /\ (handling[j] # Idle => Known(handling[j].msg) /\ handling[j].msg.key = j)
      /\ (handling[j] = Idle => handling[j].phase = "idle")
  BY HandFacts DEF TypeOK
<1>4. CASE StartWork(j)
  BY <1>2, <1>4 DEF StartWork, Apart, TypeOK, clusterVars, sensorVars, handlerVars, dbVars,
                    disturbances
<1>5. CASE Write(j)
  BY <1>2, <1>5 DEF Write, Apart, TypeOK, clusterVars, sensorVars, handlerVars, disturbances
<1>6. CASE Mark(j)
  <2>1. handling[j] # Idle
    BY <1>3, <1>6 DEF Mark
  <2>2. /\ ded'.received[k] = ded.received[k]
        /\ ded'.successfullyProcessed[k] = ded.successfullyProcessed[k]
    BY <1>3, <1>6, <2>1, MarkApart DEF Mark
  <2> QED BY <1>2, <1>6, <2>2 DEF Mark, Apart, TypeOK, clusterVars, sensorVars, dbVars,
                                  disturbances
<1>7. CASE Fail(j)
  <2>1. RemoveMessage(ded, handling[j].msg).received[k] = ded.received[k]
        /\ RemoveMessage(ded, handling[j].msg).successfullyProcessed = ded.successfullyProcessed
    BY <1>3, <1>7, ForgetFacts DEF Fail
  <2>2. /\ ded'.received[k] = ded.received[k]
        /\ ded'.successfullyProcessed[k] = ded.successfullyProcessed[k]
    BY <1>7, <2>1 DEF Fail
  <2> QED BY <1>2, <1>7, <2>2 DEF Fail, Apart, TypeOK, clusterVars, sensorVars, dbVars,
                                  disturbances
<1> QED BY <1>4, <1>5, <1>6, <1>7

LEMMA OldWorkApart ==
    ASSUME TypeOK, NEW k \in Keys, NEW j \in Keys, j # k,
           OldWrite(j) \/ OldMark(j) \/ OldCancel(j)
    PROVE  Apart(k)
<1>1. wire' = wire
  BY DEF OldWrite, OldMark, OldCancel
<1>2. /\ Sent(k)' = Sent(k) /\ (Ahead(k) => Ahead(k)')
      /\ \A a, b : SentBefore(k, a, b)' => SentBefore(k, a, b)
  BY <1>1, WireSame
<1>3. ded \in Deduper /\ (old[j] # Idle => Known(old[j].msg) /\ old[j].msg.key = j)
      /\ (old[j] = Idle => old[j].phase = "idle")
  BY HandFacts DEF TypeOK
<1>4. CASE OldWrite(j)
  BY <1>2, <1>4 DEF OldWrite, Apart, TypeOK, clusterVars, sensorVars, handlerVars, disturbances
<1>5. CASE OldMark(j)
  <2>1. old[j] # Idle
    BY <1>3, <1>5 DEF OldMark
  <2>2. /\ ded'.received[k] = ded.received[k]
        /\ ded'.successfullyProcessed[k] = ded.successfullyProcessed[k]
    BY <1>3, <1>5, <2>1, MarkApart DEF OldMark
  <2> QED BY <1>2, <1>5, <2>2 DEF OldMark, Apart, TypeOK, clusterVars, sensorVars, dbVars,
                                  disturbances
<1>6. CASE OldCancel(j)
  BY <1>2, <1>6 DEF OldCancel, Apart, TypeOK, clusterVars, sensorVars, handlerVars, dbVars,
                    disturbances
<1> QED BY <1>4, <1>5, <1>6

LEMMA Steps ==
    ASSUME TypeOK, NEW k \in Keys, [Next]_vars
    PROVE  Apart(k) \/ Concerns(k)
<1>1. CASE UNCHANGED vars
  <2>1. /\ Sent(k)' = Sent(k) /\ (Ahead(k) => Ahead(k)')
        /\ \A a, b : SentBefore(k, a, b)' => SentBefore(k, a, b)
    BY <1>1, WireSame DEF vars
  <2> QED BY <1>1, <2>1 DEF vars, Apart, clusterVars, sensorVars, handlerVars, workerVars, dbVars,
                            disturbances
<1>2. ASSUME NEW j \in Keys, NEW v \in Hashes, Create(j, v) \/ Update(j, v)
      PROVE  Apart(k) \/ Concerns(k)
  BY <1>2, ClusterApart DEF Concerns
<1>3. ASSUME NEW j \in Keys, Delete(j) \/ List(j) PROVE Apart(k) \/ Concerns(k)
  <2>1. \E v \in Hashes : TRUE
    BY <1>3 DEF Delete, List, TypeOK
  <2> QED BY <1>3, <2>1, ClusterApart DEF Concerns
<1>4. CASE ListDone
  BY <1>4, ListDoneApart
<1>5. CASE HandleEvent
  BY <1>5, HandleEventApart DEF Concerns, HandleEventOf
<1>6. CASE NewConnection \/ Connect \/ Break \/ Crash \/ HandleSynced \/ FlushHashes
  BY <1>6 DEF Concerns
<1>7. ASSUME NEW j \in Keys, StartWork(j) \/ Write(j) \/ Mark(j) \/ Fail(j)
      PROVE  Apart(k) \/ Concerns(k)
  BY <1>7, WorkApart DEF Concerns
<1>8. ASSUME NEW j \in Keys, OldWrite(j) \/ OldMark(j) \/ OldCancel(j)
      PROVE  Apart(k) \/ Concerns(k)
  BY <1>8, OldWorkApart DEF Concerns
<1> QED BY <1>1, <1>2, <1>3, <1>4, <1>5, <1>6, <1>7, <1>8 DEF Next
-----------------------------------------------------------------------------
\* What ties the parts of a connection together.  An event that is sent after the Synced
\* event has no part in unchanged, so what the Synced event carries stays up to date.
Conn ==
    /\ closed => synced
    /\ recon \subseteq listed /\ unchanged \subseteq listed
    /\ up => misled \subseteq excused
    /\ \A i \in 1..Len(wire) :
          wire[i].act = "Synced" => synced /\ wire[i].unchangedIDs = unchanged
    /\ "straggler" \notin Faults => old = AllIdle

\* Every content that is known anywhere is one that the object has had.
Had(k) == past[k] \cup {NoHash}
Values(k) ==
    /\ k \in listed => past[k] # {}
    /\ truth[k] \in Had(k) /\ db[k] \in Had(k) /\ lastSent[k] \in Had(k)
    /\ persisted[k] \in Had(k) /\ ded.received[k].val \in Had(k)
    /\ ded.successfullyProcessed[k].val \in Had(k)
    /\ \A m \in Sent(k) \cup Queue(k) : m.val \in past[k]
    /\ Busy(k) => handling[k].msg.val \in past[k]
    /\ old[k] # Idle => old[k].msg.val \in past[k]

\* While the object exists nobody has been told to remove it: ids are not used again.
NoRemove(k) ==
    truth[k] # NoHash =>
        /\ \A m \in Sent(k) \cup Queue(k) : m.act # "REMOVE"
        /\ Busy(k) => handling[k].msg.act # "REMOVE"
        /\ old[k] # Idle => old[k].msg.act # "REMOVE"

\* Events are of objects that the listener has delivered in the connection they came from.
PipeListed(k) == Piped(k) => k \in listed

\* Sensor's view of k.
Listing(k) ==
    up => /\ k \in listed => lastSent[k] = truth[k]
          /\ k \notin listed /\ lastSent[k] # NoHash => k \in centralState

\* Central has no trace of k yet.
Unborn(k) == db[k] = NoHash /\ work[k] = <<>> /\ ~ Busy(k) /\ old[k] = Idle

\* Once it has listed everything, Sensor misses only what is created while it is away.
Missed(k) == synced /\ truth[k] # NoHash /\ k \notin listed => ~ up /\ Unborn(k)

Base(k) == Values(k) /\ NoRemove(k) /\ PipeListed(k) /\ Listing(k) /\ Missed(k)

\* deduper.Send, as far as the events of k are concerned: it sends the event, or the
\* buffer drops it, or Central is said to know it.
LEMMA SendOwn ==
    ASSUME TypeOK, NEW k \in Keys, NEW act \in Actions, NEW v \in Hashes, SendEvent(k, act, v),
           NEW m, m = Msgs(k, act, v)
    PROVE  /\ lastSent'[k] = Target(act, v)
           /\ m \in Event({NoKey}) /\ m.key = k /\ m.act = act /\ m.val = v /\ IsEvent(m, k)
           /\ Ahead(k) => Ahead(k)'
           /\ k \in unchanged => k \in unchanged'
           /\ k \in excused => k \in excused'
           /\ \/ /\ Sent(k)' = Sent(k) \cup {m} /\ excused' = excused
                 /\ \A a, b : SentBefore(k, a, b)' => SentBefore(k, a, b) \/ (a \in Sent(k) /\ b = m)
                 /\ (\A i \in 1..Len(wire) : wire[i].act # "Synced") => Ahead(k)'
              \/ /\ Sent(k)' = Sent(k) /\ k \in excused' /\ "drop" \in Faults
                 /\ \A a, b : SentBefore(k, a, b)' => SentBefore(k, a, b)
              \/ /\ Sent(k)' = Sent(k) /\ excused' = excused /\ lastSent[k] = Target(act, v)
                 /\ \A a, b : SentBefore(k, a, b)' => SentBefore(k, a, b)
                 /\ act = "SYNC" /\ k \in centralState => k \in unchanged'
<1>1. /\ lastSent' = [lastSent EXCEPT ![k] = Target(act, v)]
      /\ \/ /\ wire' = Append(wire, Msgs(k, act, v)) /\ excused' = excused
            /\ unchanged' = unchanged
         \/ /\ wire' = wire /\ excused' = excused \cup {k} /\ "drop" \in Faults
            /\ unchanged' = unchanged
         \/ /\ wire' = wire /\ excused' = excused /\ lastSent[k] = Target(act, v)
            /\ unchanged' = IF act = "SYNC" THEN unchanged \cup ({k} \cap centralState)
                            ELSE unchanged
  BY SendEventFacts
<1>2. m \in Event({NoKey}) /\ m \in Wired /\ m.key = k /\ m.act = act /\ m.val = v /\ IsEvent(m, k)
  <2>1. /\ Msgs(k, act, v) \in Event({NoKey}) /\ Msgs(k, act, v) \in Wired
        /\ Msgs(k, act, v).key = k /\ Msgs(k, act, v).act = act /\ Msgs(k, act, v).val = v
        /\ act # "Synced"
    BY MsgsType
  <2> QED BY <2>1 DEF IsEvent
<1>3. lastSent'[k] = Target(act, v)
  BY <1>1 DEF TypeOK
<1>4. CASE wire' = Append(wire, m) /\ excused' = excused /\ unchanged' = unchanged
  <2>1. /\ Sent(k)' = Sent(k) \cup {m} /\ (Ahead(k) => Ahead(k)')
        /\ \A a, b : SentBefore(k, a, b)' => SentBefore(k, a, b) \/ (a \in Sent(k) /\ b = m)
        /\ (\A i \in 1..Len(wire) : wire[i].act # "Synced") => Ahead(k)'
    BY <1>2, <1>4, WireAppend
  <2> QED BY <1>2, <1>3, <1>4, <2>1
<1>5. CASE wire' = wire
  <2>1. /\ Sent(k)' = Sent(k) /\ (Ahead(k)' <=> Ahead(k))
        /\ \A a, b : SentBefore(k, a, b)' <=> SentBefore(k, a, b)
    BY <1>5, WireSame
  <2>2. CASE excused' = excused \cup {k} /\ "drop" \in Faults /\ unchanged' = unchanged
    BY <1>2, <1>3, <2>1, <2>2
  <2>3. CASE /\ excused' = excused /\ lastSent[k] = Target(act, v)
             /\ unchanged' = IF act = "SYNC" THEN unchanged \cup ({k} \cap centralState)
                             ELSE unchanged
    BY <1>2, <1>3, <2>1, <2>3
  <2> QED BY <1>1, <1>2, <1>4, <1>5, <2>2, <2>3
<1> QED BY <1>1, <1>4, <1>5

LEMMA ApartBase ==
    ASSUME TypeOK, TypeOK', NEW k \in Keys, Base(k), Apart(k)
    PROVE  Base(k)'
<1>1. Queue(k)' = Queue(k)
  BY DEF Apart, Queue, Items
<1>2. Values(k)'
  BY <1>1 DEF Apart, Base, Values, Had, Busy
<1>3. NoRemove(k)'
  BY <1>1 DEF Apart, Base, NoRemove, Busy
<1>4. PipeListed(k)'
  BY DEF Apart, Base, PipeListed, Piped, Busy
<1>5. Listing(k)' /\ Missed(k)'
  BY DEF Apart, Base, Listing, Missed, Unborn, Busy
<1> QED BY <1>2, <1>3, <1>4, <1>5 DEF Base

\* The steps that move an event of k through Central.
LEMMA HandleOwn ==
    ASSUME TypeOK, NEW k \in Keys, HandleEventOf(k)
    PROVE  \E m \in Sent(k) :
              /\ Sent(k) = Sent(k)' \cup {m} /\ m \in Event({NoKey}) /\ m.key = k
              /\ \A b \in Sent(k)' : SentBefore(k, m, b)
              /\ \A a, b : SentBefore(k, a, b)' => SentBefore(k, a, b)
              /\ k \in recon \/ ~ closed => k \in recon'
              /\ \/ work'[k] = Push(work[k], Keyed(m))
                 \/ /\ work'[k] = work[k] /\ k \notin SkipKeys /\ m.act # "REMOVE"
                    /\ GetValue(ded, k) = m.val
              /\ k \in SkipKeys =>
                    /\ ded'.received[k] = ded.received[k]
                    /\ ded'.successfullyProcessed[k] = ded.successfullyProcessed[k]
              /\ k \notin SkipKeys /\ m.act = "REMOVE" =>
                    ded'.received[k] = NoEntry /\ ded'.successfullyProcessed[k] = NoEntry
              /\ k \notin SkipKeys /\ m.act # "REMOVE" =>
                    /\ ded'.received[k] = IF GetValue(ded, k) # m.val
                                          THEN [val |-> m.val, processed |-> TRUE]
                                          ELSE ded.received[k]
                    /\ ded'.successfullyProcessed[k].val = ded.successfullyProcessed[k].val
<1>1. PICK m \in Event({NoKey}) :
            /\ m = Head(wire) /\ wire # <<>> /\ wire' = Tail(wire)
            /\ recon' = IF closed THEN recon ELSE recon \cup {m.key}
            /\ ded' = AfterShouldProcess(ded, Keyed(m))
            /\ work' = IF ShouldProcess(ded, Keyed(m))
                       THEN [work EXCEPT ![m.key] = Push(@, Keyed(m))] ELSE work
  BY HandleEventFacts DEF HandleEventOf
<1>2. /\ m.key = k /\ Known(Keyed(m)) /\ Keyed(m).key = k /\ m.act # "Synced"
      /\ Keyed(m).act = m.act /\ Keyed(m).val = m.val /\ Keyed(m).attempt = 0 /\ IsEvent(m, k)
  BY <1>1, EventFacts, KeyedFacts DEF HandleEventOf, IsEvent
<1>3. /\ Sent(k) = Sent(k)' \cup {m}
      /\ \A b \in Sent(k)' : SentBefore(k, m, b)
      /\ \A a, b : SentBefore(k, a, b)' => SentBefore(k, a, b)
  BY <1>1, <1>2, WirePop
<1>4. ded \in Deduper
  BY DEF TypeOK
<1> DEFINE n == Keyed(m)
           e == AfterShouldProcess(ded, n)
<1>5. Known(n) /\ n.key = k /\ n.act = m.act /\ n.val = m.val /\ n.attempt = 0
  BY <1>2
<1> HIDE DEF n
<1>6. /\ k \in SkipKeys => /\ e.received[k] = ded.received[k]
                           /\ e.successfullyProcessed[k] = ded.successfullyProcessed[k]
      /\ k \notin SkipKeys /\ n.act = "REMOVE" =>
            e.received[k] = NoEntry /\ e.successfullyProcessed[k] = NoEntry
      /\ k \notin SkipKeys /\ n.act # "REMOVE" =>
            /\ e.received[k] = IF n.attempt = 0 /\ GetValue(ded, k) # n.val
                               THEN [val |-> n.val, processed |-> TRUE] ELSE ded.received[k]
            /\ e.successfullyProcessed[k].val = ded.successfullyProcessed[k].val
  BY <1>4, <1>5, AcceptFacts
<1>7. ded' = e
  BY <1>1 DEF n
<1>8. \/ work'[k] = Push(work[k], n)
      \/ /\ work'[k] = work[k] /\ k \notin SkipKeys /\ m.act # "REMOVE"
         /\ GetValue(ded, k) = m.val
  <2>1. CASE ShouldProcess(ded, n)
    BY <1>1, <1>2, <2>1 DEF n, TypeOK
  <2>2. CASE ~ ShouldProcess(ded, n)
    BY <1>1, <1>5, <2>2 DEF n, ShouldProcess, SkipDedupe
  <2> QED BY <2>1, <2>2
<1>9. k \in recon \/ ~ closed => k \in recon'
  BY <1>1, <1>2
<1> HIDE DEF e
<1>10. m \in Sent(k)
  BY <1>3
<1> WITNESS m \in Sent(k)
<1> QED BY <1>1, <1>2, <1>3, <1>5, <1>6, <1>7, <1>8, <1>9 DEF n

LEMMA StartOwn ==
    ASSUME TypeOK, NEW k \in Keys, StartWork(k)
    PROVE  /\ ~ Busy(k) /\ work[k] # <<>> /\ Busy(k)' /\ handling'[k].phase = "pulled"
           /\ Queue(k) = Queue(k)' \cup {handling'[k].msg}
           /\ \A a, b : QueuedBefore(k, a, b)' => QueuedBefore(k, a, b)
           /\ \A b \in Queue(k)' : QueuedBefore(k, handling'[k].msg, b)
<1>1. work[k] \in Seq(Queueable) /\ work[k] # <<>> /\ handling[k] = Idle
  BY DEF StartWork, TypeOK
<1>2. /\ Pulled(work[k]) = work[k][1]
      /\ Len(work[k]) \in Nat \ {0} /\ Len(AfterPull(work[k])) = Len(work[k]) - 1
      /\ \A i \in 1..(Len(work[k]) - 1) : AfterPull(work[k])[i] = work[k][i + 1]
      /\ Items(work[k]) = Items(AfterPull(work[k])) \cup {Pulled(work[k])}
  BY <1>1, PullItems
<1>3. /\ handling'[k] = [phase |-> "pulled", msg |-> Pulled(work[k])]
      /\ work'[k] = AfterPull(work[k])
  BY DEF StartWork, TypeOK
<1>4. handling'[k].phase = "pulled" /\ handling'[k].msg = work[k][1] /\ handling'[k] # Idle
  BY <1>2, <1>3 DEF Idle
<1>5. Queue(k) = Queue(k)' \cup {handling'[k].msg}
  <2>1. Queue(k)' = Items(AfterPull(work[k])) /\ Queue(k) = Items(work[k])
    BY <1>3 DEF Queue, Items
  <2> QED BY <1>2, <1>4, <2>1
<1> DEFINE n == Len(work'[k])
<1>6. n \in Nat /\ Len(work[k]) = n + 1 /\ \A i \in 1..n : work'[k][i] = work[k][i + 1]
  BY <1>2, <1>3
<1> HIDE DEF n
<1>7. ASSUME NEW a, NEW b, QueuedBefore(k, a, b)' PROVE QueuedBefore(k, a, b)
  <2>1. PICK i, j \in 1..n : i < j /\ a = work'[k][i] /\ b = work'[k][j]
    BY <1>7 DEF QueuedBefore, n
  <2>2. i + 1 < j + 1 /\ i + 1 \in 1..(n + 1) /\ j + 1 \in 1..(n + 1)
    BY <1>6, <2>1
  <2> QED BY <1>6, <2>1, <2>2 DEF QueuedBefore
<1>8. ASSUME NEW b \in Queue(k)' PROVE QueuedBefore(k, handling'[k].msg, b)
  <2>1. PICK i \in 1..n : b = work'[k][i]
    BY DEF Queue, Items, n
  <2>2. 1 < i + 1 /\ i + 1 \in 1..(n + 1) /\ 1 \in 1..(n + 1)
    BY <1>6, <2>1
  <2> QED BY <1>4, <1>6, <2>1, <2>2 DEF QueuedBefore
<1> QED BY <1>1, <1>4, <1>5, <1>7, <1>8 DEF Busy

LEMMA WriteOwn ==
    ASSUME TypeOK, NEW k \in Keys, Write(k)
    PROVE  /\ Busy(k) /\ handling[k].phase = "pulled" /\ db'[k] = Stored(handling[k].msg)
           /\ Busy(k)' /\ handling'[k].phase = "written" /\ handling'[k].msg = handling[k].msg
<1>1. handling[k] # Idle /\ handling[k] \in InHand
  BY HandFacts DEF Write
<1>2. handling'[k] = [handling[k] EXCEPT !.phase = "written"]
  BY DEF Write, TypeOK
<1>3. handling'[k].phase = "written" /\ handling'[k].msg = handling[k].msg
  BY <1>1, <1>2 DEF InHand
<1>4. handling'[k] # Idle
  BY <1>3 DEF Idle
<1> QED BY <1>1, <1>3, <1>4 DEF Write, Busy, TypeOK

LEMMA OldWriteOwn ==
    ASSUME TypeOK, NEW k \in Keys, OldWrite(k)
    PROVE  /\ old[k] # Idle /\ old[k].phase = "pulled" /\ db'[k] = Stored(old[k].msg)
           /\ old'[k] # Idle /\ old'[k].phase = "written" /\ old'[k].msg = old[k].msg
<1>1. old[k] # Idle /\ old[k] \in InHand
  BY HandFacts DEF OldWrite
<1>2. old'[k] = [old[k] EXCEPT !.phase = "written"]
  BY DEF OldWrite, TypeOK
<1>3. old'[k].phase = "written" /\ old'[k].msg = old[k].msg
  BY <1>1, <1>2 DEF InHand
<1>4. old'[k] # Idle
  BY <1>3 DEF Idle
<1> QED BY <1>1, <1>3, <1>4 DEF OldWrite, TypeOK

\* MarkSuccessful for an event of k that is in the hands of a worker.
LEMMA MarkOwn ==
    ASSUME TypeOK, NEW k \in Keys, NEW m, Known(m), m.key = k, ded' = MarkSuccessful(ded, m)
    PROVE  /\ ded'.received[k] \in {ded.received[k], NoEntry}
           /\ m.act # "REMOVE" /\ k \notin SkipKeys /\ ded.received[k].val = m.val =>
                 ded'.received[k] = NoEntry
           /\ \/ ded'.successfullyProcessed[k] \in {ded.successfullyProcessed[k], NoEntry}
              \/ m.act # "REMOVE" /\ ded'.successfullyProcessed[k] = [val |-> m.val, processed |-> TRUE]
<1> DEFINE e == MarkSuccessful(ded, m)
<1>1. ded \in Deduper
  BY DEF TypeOK
<1>2. /\ k \in SkipKeys => /\ e.received[k] = ded.received[k]
                           /\ e.successfullyProcessed[k] = ded.successfullyProcessed[k]
      /\ k \notin SkipKeys /\ m.act = "REMOVE" =>
            e.received[k] = ded.received[k] /\ e.successfullyProcessed[k] = NoEntry
      /\ k \notin SkipKeys /\ m.act # "REMOVE" =>
            /\ e.received[k] = IF ded.received[k].val = m.val THEN NoEntry ELSE ded.received[k]
            /\ e.successfullyProcessed[k] = [val |-> m.val, processed |-> TRUE]
  BY <1>1, MarkFacts
<1> HIDE DEF e
<1>3. ded' = e
  BY DEF e
<1> QED BY <1>2, <1>3

LEMMA PushOwn ==
    ASSUME TypeOK, NEW k \in Keys, NEW m \in Event({NoKey}), m.key = k,
           work'[k] = Push(work[k], Keyed(m))
    PROVE  /\ Keyed(m) \in Queue(k)' /\ Queue(k)' \subseteq Queue(k) \cup {Keyed(m)}
           /\ \A x \in Queue(k) :
                 \/ x \in Queue(k)'
                 \/ Keyed(m).dedupeKey # NoKey /\ x.dedupeKey = Keyed(m).dedupeKey
<1>1. work[k] \in Seq(Queueable) /\ Keyed(m) \in Queueable
  BY KeyedFacts, QueueTypes
<1> DEFINE p == Push(work[k], Keyed(m))
<1>2. /\ Keyed(m) \in Items(p) /\ Items(p) \subseteq Items(work[k]) \cup {Keyed(m)}
      /\ \A x \in Items(work[k]) :
            x \in Items(p) \/ (Keyed(m).dedupeKey # NoKey /\ x.dedupeKey = Keyed(m).dedupeKey)
  BY <1>1, PushItems
<1> HIDE DEF p
<1>3. Queue(k)' = Items(p) /\ Queue(k) = Items(work[k])
  BY DEF Queue, Items, p
<1> QED BY <1>2, <1>3

LEMMA InitBase ==
    ASSUME Init, NEW k \in Keys
    PROVE  Base(k)
<1>1. /\ NewDeduper(NoHashes).received[k] = NoEntry
      /\ NewDeduper(NoHashes).successfullyProcessed[k].val = NoHash
  BY IdleType, NewDeduperFacts
<1>2. NoEntry.val = NoHash
  BY DEF NoEntry
<1>3. 1..Len(wire) = {} /\ work[k] = <<>> /\ 1..Len(work[k]) = {} /\ handling[k] = Idle
      /\ old[k] = Idle
  BY IdleType DEF Init
<1>4. Sent(k) = {} /\ Queue(k) = {} /\ ~ Busy(k)
  BY <1>3 DEF Sent, Queue, Items, Busy
<1>5. /\ truth[k] = NoHash /\ db[k] = NoHash /\ lastSent[k] = NoHash /\ persisted[k] = NoHash
      /\ ded.received[k].val = NoHash /\ ded.successfullyProcessed[k].val = NoHash
      /\ past[k] = {} /\ up = FALSE /\ listed = {}
  BY <1>1, <1>2, IdleType DEF Init
<1>6. Values(k)
  BY <1>3, <1>4, <1>5 DEF Values, Had
<1> QED BY <1>3, <1>4, <1>5, <1>6 DEF Base, NoRemove, PipeListed, Piped, Listing, Missed

\* Nothing is known of an object that never existed.
LEMMA NoPast ==
    ASSUME TypeOK, NEW k \in Keys, Base(k), past[k] = {}
    PROVE  /\ Sent(k) = {} /\ Queue(k) = {} /\ work[k] = <<>> /\ ~ Busy(k) /\ old[k] = Idle
           /\ k \notin listed
           /\ truth[k] = NoHash /\ db[k] = NoHash /\ lastSent[k] = NoHash
           /\ persisted[k] = NoHash /\ ded.received[k].val = NoHash
           /\ ded.successfullyProcessed[k].val = NoHash
<1>1. Sent(k) = {} /\ Queue(k) = {} /\ ~ Busy(k) /\ old[k] = Idle /\ k \notin listed
  BY DEF Base, Values, Had
<1>2. /\ truth[k] = NoHash /\ db[k] = NoHash /\ lastSent[k] = NoHash
      /\ persisted[k] = NoHash /\ ded.received[k].val = NoHash
      /\ ded.successfullyProcessed[k].val = NoHash
  BY DEF Base, Values, Had
<1>3. work[k] = <<>>
  <2>1. work[k] \in Seq(Queueable) /\ Len(work[k]) \in Nat
    BY QueueTypes
  <2>2. 1 \notin 1..Len(work[k])
    BY <1>1 DEF Queue, Items
  <2>3. Len(work[k]) = 0
    BY <2>1, <2>2
  <2> QED BY <2>1, <2>3
<1> QED BY <1>1, <1>2, <1>3

LEMMA ClusterBase ==
    ASSUME TypeOK, TypeOK', NEW k \in Keys, Base(k), NEW v \in Hashes,
           Create(k, v) \/ Update(k, v) \/ Delete(k) \/ List(k)
    PROVE  Base(k)'
<1>0. /\ {"SYNC", "CREATE", "UPDATE", "REMOVE"} \subseteq Actions
      /\ truth[k] \in Hashes \cup {NoHash} /\ NoHash \notin Hashes
      /\ past[k] \subseteq Hashes
  BY NoHashAssumption DEF Actions, TypeOK
<1>1. /\ work' = work /\ handling' = handling /\ old' = old /\ db' = db
      /\ persisted' = persisted /\ ded' = ded /\ up' = up /\ synced' = synced
      /\ centralState' = centralState
  BY DEF Create, Update, Delete, List, handlerVars, workerVars, dbVars
<1>2. Queue(k)' = Queue(k) /\ (Busy(k)' <=> Busy(k))
  BY <1>1 DEF Queue, Items, Busy
<1>3. ASSUME NEW act \in Actions, NEW w \in Hashes, SendEvent(k, act, w)
      PROVE  /\ lastSent'[k] = Target(act, w)
             /\ \A m \in Sent(k)' : m \in Sent(k) \/ (m.act = act /\ m.val = w)
  <2>1. PICK m : m = Msgs(k, act, w)
    OBVIOUS
  <2>2. /\ lastSent'[k] = Target(act, w) /\ m.act = act /\ m.val = w
        /\ Sent(k)' = Sent(k) \cup {m} \/ Sent(k)' = Sent(k)
    BY <1>3, <2>1, SendOwn
  <2> QED BY <2>2
<1>4. ASSUME NoEvent PROVE lastSent' = lastSent /\ Sent(k)' = Sent(k)
  BY <1>4, WireSame DEF NoEvent
<1>5. CASE Create(k, v)
  <2>1. past[k] = {} /\ past'[k] = {v} /\ truth'[k] = v /\ v # NoHash
    BY <1>0, <1>5 DEF Create, TypeOK
  <2>2. /\ Sent(k) = {} /\ Queue(k) = {} /\ ~ Busy(k) /\ old[k] = Idle /\ k \notin listed
        /\ truth[k] = NoHash /\ db[k] = NoHash /\ lastSent[k] = NoHash
        /\ persisted[k] = NoHash /\ ded.received[k].val = NoHash
        /\ ded.successfullyProcessed[k].val = NoHash /\ work[k] = <<>>
    BY <2>1, NoPast
  <2>4. CASE up /\ synced /\ listed' = listed \cup {k} /\ SendEvent(k, "CREATE", v)
    <3>1. /\ lastSent'[k] = v /\ k \in listed'
          /\ \A m \in Sent(k)' : m \in Sent(k) \/ (m.act = "CREATE" /\ m.val = v)
      BY <1>0, <1>3, <2>4 DEF Target
    <3>2. Values(k)'
      BY <1>1, <1>2, <2>1, <2>2, <3>1 DEF Values, Had
    <3>3. NoRemove(k)'
      BY <1>1, <1>2, <2>2, <3>1 DEF NoRemove
    <3> QED BY <1>1, <2>1, <2>4, <3>1, <3>2, <3>3 DEF Base, PipeListed, Listing, Missed
  <2>5. CASE ~ (up /\ synced) /\ NoEvent /\ UNCHANGED listed
    <3>1. lastSent'[k] = NoHash /\ Sent(k)' = {} /\ k \notin listed'
      BY <1>4, <2>2, <2>5
    <3>2. Values(k)'
      BY <1>1, <1>2, <2>1, <2>2, <3>1 DEF Values, Had
    <3>3. NoRemove(k)' /\ PipeListed(k)'
      BY <1>1, <1>2, <2>2, <3>1 DEF NoRemove, PipeListed, Piped
    <3>4. Listing(k)'
      BY <1>1, <2>5, <3>1 DEF Listing
    <3>5. Missed(k)'
      BY <1>1, <1>2, <2>2, <2>5 DEF Missed, Unborn
    <3> QED BY <3>2, <3>3, <3>4, <3>5 DEF Base
  <2> QED BY <1>5, <2>4, <2>5 DEF Create
<1>6. CASE Update(k, v)
  <2>1. /\ past'[k] = past[k] \cup {v} /\ truth'[k] = v /\ truth[k] # NoHash /\ listed' = listed
    BY <1>6 DEF Update, TypeOK
  <2>2. \/ /\ Follows(k) /\ lastSent'[k] = v
           /\ \A m \in Sent(k)' : m \in Sent(k) \/ (m.act = "UPDATE" /\ m.val = v)
        \/ ~ Follows(k) /\ lastSent' = lastSent /\ Sent(k)' = Sent(k)
    BY <1>0, <1>3, <1>4, <1>6 DEF Update, Target
  <2>3. Values(k)'
    BY <1>1, <1>2, <2>1, <2>2 DEF Base, Values, Had
  <2>4. NoRemove(k)'
    BY <1>1, <1>2, <2>1, <2>2 DEF Base, NoRemove
  <2>5. PipeListed(k)'
    BY <1>1, <1>2, <2>1, <2>2 DEF Base, PipeListed, Piped, Follows
  <2>6. Listing(k)'
    BY <1>1, <2>1, <2>2 DEF Base, Listing, Follows
  <2>7. Missed(k)'
    BY <1>1, <1>2, <2>1 DEF Base, Missed, Unborn
  <2> QED BY <2>3, <2>4, <2>5, <2>6, <2>7 DEF Base
<1>7. CASE Delete(k)
  <2>1. /\ past' = past /\ truth'[k] = NoHash /\ truth[k] \in Hashes /\ listed' = listed
    BY <1>0, <1>7 DEF Delete, TypeOK
  <2>2. \/ /\ Follows(k) /\ lastSent'[k] = NoHash
           /\ \A m \in Sent(k)' : m \in Sent(k) \/ (m.act = "REMOVE" /\ m.val = truth[k])
        \/ ~ Follows(k) /\ lastSent' = lastSent /\ Sent(k)' = Sent(k)
    BY <1>0, <1>3, <1>4, <1>7, <2>1 DEF Delete, Target
  <2>3. Values(k)'
    BY <1>0, <1>1, <1>2, <2>1, <2>2 DEF Base, Values, Had
  <2>4. NoRemove(k)'
    BY <2>1 DEF NoRemove
  <2>5. PipeListed(k)'
    BY <1>1, <1>2, <2>1, <2>2 DEF Base, PipeListed, Piped, Follows
  <2>6. Listing(k)'
    BY <1>1, <2>1, <2>2 DEF Base, Listing, Follows
  <2>7. Missed(k)'
    BY <2>1 DEF Missed
  <2> QED BY <2>3, <2>4, <2>5, <2>6, <2>7 DEF Base
<1>8. CASE List(k)
  <2>1. /\ past' = past /\ truth' = truth /\ truth[k] \in Hashes /\ listed' = listed \cup {k} /\ up
    BY <1>0, <1>8 DEF List, clusterVars
  <2>2. /\ lastSent'[k] = truth[k]
        /\ \A m \in Sent(k)' : m \in Sent(k) \/ (m.act = "SYNC" /\ m.val = truth[k])
    BY <1>0, <1>3, <1>8, <2>1 DEF List, Target
  <2>3. Values(k)'
    BY <1>0, <1>1, <1>2, <2>1, <2>2 DEF Base, Values, Had
  <2>4. NoRemove(k)'
    BY <1>1, <1>2, <2>1, <2>2 DEF Base, NoRemove
  <2> QED BY <1>1, <2>1, <2>2, <2>3, <2>4 DEF Base, PipeListed, Listing, Missed
<1> QED BY <1>5, <1>6, <1>7, <1>8

\* A connection that is replaced, or crashes, leaves nothing but what stragglers have in hand.
LEMMA EndedFacts ==
    ASSUME NEW k \in Keys, wire' = <<>>, work' = [j \in Keys |-> <<>>], handling' = AllIdle
    PROVE  /\ Sent(k)' = {} /\ Queue(k)' = {} /\ ~ Busy(k)' /\ work'[k] = <<>>
           /\ handling'[k] = Idle
           /\ \A a, b : ~ SentBefore(k, a, b)' /\ ~ QueuedBefore(k, a, b)'
<1>1. wire' = <<>> /\ work'[k] = <<>> /\ handling'[k] = Idle
  BY IdleType, EmptyWork
<1>2. 1..Len(work'[k]) = {}
  BY <1>1
<1>3. Sent(k)' = {} /\ \A a, b : ~ SentBefore(k, a, b)'
  BY <1>1, WireEmpty
<1> QED BY <1>1, <1>2, <1>3 DEF Queue, Items, Busy, QueuedBefore

LEMMA CrashFacts ==
    ASSUME TypeOK, NEW k \in Keys, Crash
    PROVE  /\ ded'.received[k] = NoEntry /\ old'[k] = Idle
           /\ \/ ded'.successfullyProcessed[k].val = NoHash
              \/ /\ ded'.successfullyProcessed[k].val = persisted[k]
                 /\ persisted[k] # NoHash /\ db[k] = NoHash /\ truth[k] # NoHash => k \in misled'
<1>1. PICK hashes \in {persisted, NoHashes} :
          /\ ded' = NewDeduper(hashes)
          /\ misled' = {j \in Keys : hashes[j] # NoHash /\ db[j] = NoHash /\ truth[j] # NoHash}
  BY DEF Crash
<1>2. hashes \in [Keys -> Hashes \cup {NoHash}] /\ hashes[k] \in {persisted[k], NoHash}
  BY IdleType DEF TypeOK
<1> DEFINE e == NewDeduper(hashes)
<1>3. e.received[k] = NoEntry /\ e.successfullyProcessed[k].val \in {NoHash, hashes[k]}
  BY <1>2, NewDeduperFacts
<1> HIDE DEF e
<1>4. ded' = e
  BY <1>1 DEF e
<1>5. old'[k] = Idle
  BY IdleType DEF Crash
<1> QED BY <1>1, <1>2, <1>3, <1>4, <1>5

LEMMA NewConnectionFacts ==
    ASSUME TypeOK, NEW k \in Keys, NewConnection
    PROVE  /\ up' = up /\ Sent(k)' = Sent(k) /\ (Ahead(k)' <=> Ahead(k))
           /\ \A a, b : SentBefore(k, a, b)' <=> SentBefore(k, a, b)
           /\ ded'.received[k].val = ded.received[k].val /\ ~ ded'.received[k].processed
           /\ ded'.successfullyProcessed[k].val = ded.successfullyProcessed[k].val
           /\ ~ ded'.successfullyProcessed[k].processed
<1> DEFINE e == StartSync(ded)
<1>1. /\ e.received[k].val = ded.received[k].val /\ ~ e.received[k].processed
      /\ e.successfullyProcessed[k].val = ded.successfullyProcessed[k].val
      /\ ~ e.successfullyProcessed[k].processed
  BY StartSyncFacts DEF TypeOK
<1> HIDE DEF e
<1>2. ded' = e
  BY DEF NewConnection, e
<1>3. wire' = wire /\ up' = up
  BY DEF NewConnection
<1> QED BY <1>1, <1>2, <1>3, WireSame

LEMMA ConnectFacts ==
    ASSUME TypeOK, NEW k \in Keys, Connect
    PROVE  /\ ~ up /\ up' /\ ~ synced' /\ ~ closed' /\ k \notin listed' /\ k \notin recon'
           /\ k \notin unchanged' /\ ded' = ded
           /\ Sent(k)' = {} /\ Queue(k)' = {} /\ ~ Busy(k)' /\ work'[k] = <<>>
           /\ handling'[k] = Idle
           /\ \A a, b : ~ SentBefore(k, a, b)' /\ ~ QueuedBefore(k, a, b)'
           /\ lastSent'[k] \in {NoHash, ded.successfullyProcessed[k].val}
           /\ lastSent'[k] # NoHash => k \in centralState'
           /\ old'[k] = Idle \/ old'[k] = old[k] \/ (Busy(k) /\ old'[k] = handling[k])
           /\ "straggler" \notin Faults => old' = AllIdle
           /\ k \in misled' <=> k \in misled /\ Present(ded.successfullyProcessed[k]) /\ db[k] = NoHash
           /\ k \in excused' <=> k \in misled' \/ ded.received[k].processed
<1>1. PICK known \in {GetSuccessfulHashes(ded), NoHashes} :
          lastSent' = known /\ centralState' = {j \in Keys : known[j] # NoHash}
  BY DEF Connect
<1>2. ded \in Deduper
  BY DEF TypeOK
<1>3. known[k] \in {NoHash, ded.successfullyProcessed[k].val}
  BY <1>2, IdleType, SuccessfulFacts
<1>4. /\ Sent(k)' = {} /\ Queue(k)' = {} /\ ~ Busy(k)' /\ work'[k] = <<>>
      /\ handling'[k] = Idle
      /\ \A a, b : ~ SentBefore(k, a, b)' /\ ~ QueuedBefore(k, a, b)'
  BY EndedFacts DEF Connect
<1>5. /\ old'[k] = Idle \/ old'[k] = old[k] \/ (Busy(k) /\ old'[k] = handling[k])
      /\ "straggler" \notin Faults => old' = AllIdle
  BY IdleType DEF Connect, Busy
<1>6. /\ misled' = {j \in misled : Present(ded.successfullyProcessed[j]) /\ db[j] = NoHash}
      /\ excused' = misled' \cup {j \in Keys : ded.received[j].processed}
  BY DEF Connect, Accepted
<1>7. up' /\ ~ synced' /\ ~ closed' /\ k \notin listed' /\ k \notin recon' /\ k \notin unchanged'
  BY DEF Connect
<1>8. ~ up /\ ded' = ded
  BY DEF Connect, TypeOK
<1> QED BY <1>1, <1>3, <1>4, <1>5, <1>6, <1>7, <1>8

LEMMA ConnectionBase ==
    ASSUME TypeOK, TypeOK', NEW k \in Keys, Base(k),
           NewConnection \/ Connect \/ Break \/ Crash
    PROVE  Base(k)'
<1>1. NoEntry.val = NoHash
  BY DEF NoEntry
<1>2. CASE NewConnection \/ Break
  <2>1. /\ truth' = truth /\ past' = past /\ db' = db /\ persisted' = persisted
        /\ lastSent' = lastSent /\ listed' = listed /\ synced' = synced
        /\ work' = work /\ handling' = handling /\ old' = old /\ wire' = wire
        /\ centralState' = centralState /\ (up' => up)
    BY <1>2 DEF NewConnection, Break, clusterVars, workerVars, dbVars
  <2>2. Queue(k)' = Queue(k) /\ (Busy(k)' <=> Busy(k)) /\ Sent(k)' = Sent(k)
    BY <2>1, WireSame DEF Queue, Items, Busy
  <2>3. /\ ded'.received[k].val = ded.received[k].val
        /\ ded'.successfullyProcessed[k].val = ded.successfullyProcessed[k].val
    BY <1>2, NewConnectionFacts DEF Break, handlerVars
  <2>4. Values(k)'
    BY <2>1, <2>2, <2>3 DEF Base, Values, Had
  <2>5. NoRemove(k)' /\ PipeListed(k)'
    BY <2>1, <2>2 DEF Base, NoRemove, PipeListed, Piped
  <2>6. Listing(k)' /\ Missed(k)'
    BY <2>1, <2>2 DEF Base, Listing, Missed, Unborn
  <2> QED BY <2>4, <2>5, <2>6 DEF Base
<1>3. CASE Connect \/ Crash
  <2>1. truth' = truth /\ past' = past /\ db' = db /\ persisted' = persisted
    BY <1>3 DEF Connect, Crash, clusterVars, dbVars
  <2>2. Sent(k)' = {} /\ Queue(k)' = {} /\ ~ Busy(k)' /\ work'[k] = <<>>
    BY <1>3, EndedFacts DEF Connect, Crash
  <2>3. /\ ded'.received[k].val \in {NoHash, ded.received[k].val}
        /\ ded'.successfullyProcessed[k].val \in {NoHash, persisted[k], ded.successfullyProcessed[k].val}
    BY <1>1, <1>3, CrashFacts, ConnectFacts
  <2>4. old'[k] = Idle \/ old'[k] = old[k] \/ (Busy(k) /\ old'[k] = handling[k])
    BY <1>3, CrashFacts, ConnectFacts
  <2>5. \/ Crash /\ listed' = listed /\ lastSent' = lastSent /\ synced' = synced /\ ~ up'
           /\ old'[k] = Idle
        \/ /\ Connect /\ k \notin listed' /\ ~ synced'
           /\ lastSent'[k] \in {NoHash, ded.successfullyProcessed[k].val}
           /\ lastSent'[k] # NoHash => k \in centralState'
    BY <1>3, CrashFacts, ConnectFacts DEF Crash
  <2>6. Values(k)'
    BY <2>1, <2>2, <2>3, <2>4, <2>5 DEF Base, Values, Had
  <2>7. NoRemove(k)' /\ PipeListed(k)'
    BY <2>1, <2>2, <2>4 DEF Base, NoRemove, PipeListed, Piped
  <2>8. Listing(k)' /\ Missed(k)'
    BY <2>1, <2>2, <2>5 DEF Base, Listing, Missed, Unborn
  <2> QED BY <2>6, <2>7, <2>8 DEF Base
<1> QED BY <1>2, <1>3

LEMMA SyncedFacts ==
    ASSUME TypeOK, NEW k \in Keys, HandleSynced
    PROVE  /\ Sent(k)' = Sent(k) /\ ~ Ahead(k)
           /\ \A a, b : SentBefore(k, a, b)' => SentBefore(k, a, b)
           /\ ded'.received[k] = ded.received[k]
           /\ ded'.successfullyProcessed[k] \in {NoEntry, ded.successfullyProcessed[k]}
           /\ k \in NotSynced(ded) => ded'.successfullyProcessed[k] = NoEntry
           /\ db'[k] = db[k] \/ (db'[k] = NoHash /\ k \notin recon')
           /\ k \notin recon' /\ k \notin excused' => db'[k] = NoHash
           /\ k \in excused => k \in excused'
           /\ k \in misled => k \in misled'
           /\ k \in misled' => k \in misled \/ k \in excused
           /\ /\ k \in excused \ NotSynced(ded) /\ db[k] # NoHash /\ db'[k] = NoHash
              /\ Present(ded'.successfullyProcessed[k])
              => k \in misled'
           /\ recon' = recon \cup wire[1].unchangedIDs /\ wire[1].act = "Synced"
           /\ 1 \in 1..Len(wire) /\ ~ closed /\ closed'
           /\ wire # <<>> /\ wire' = Tail(wire)
<1>1. PICK m : m = Head(wire)
  OBVIOUS
<1>2. wire # <<>> /\ wire' = Tail(wire) /\ m.act = "Synced" /\ ~ closed /\ closed' = TRUE
      /\ recon' = recon \cup m.unchangedIDs
  BY <1>1 DEF HandleSynced
<1>3. /\ Sent(k)' = Sent(k) /\ ~ Ahead(k) /\ m = wire[1] /\ 1 \in 1..Len(wire)
      /\ \A a, b : SentBefore(k, a, b)' => SentBefore(k, a, b)
  <2>1. ~ IsEvent(m, k)
    BY <1>2 DEF IsEvent
  <2> QED BY <1>1, <1>2, <2>1, WirePop
<1>4. PICK failed \in SUBSET (Keys \ recon') :
          db' = Reconcile(recon' \cup failed) /\ excused' = excused \cup failed
  BY DEF HandleSynced
<1>5. db'[k] = IF k \in recon' \cup failed THEN db[k] ELSE NoHash
  BY <1>4 DEF Reconcile
<1> DEFINE e == ProcessSync(ded)
<1>6. ded \in Deduper
  BY DEF TypeOK
<1>7. /\ e.received[k] = ded.received[k]
      /\ e.successfullyProcessed[k] \in {NoEntry, ded.successfullyProcessed[k]}
      /\ k \in NotSynced(ded) => e.successfullyProcessed[k] = NoEntry
  BY <1>6, ProcessSyncFacts
<1> HIDE DEF e
<1>8. ded' = e
  BY DEF HandleSynced, e
<1>9. misled' = misled \cup {j \in excused \ NotSynced(ded) :
                                 /\ Present(ded'.successfullyProcessed[j])
                                 /\ db[j] # NoHash /\ db'[j] = NoHash}
  BY DEF HandleSynced
<1> QED BY <1>2, <1>3, <1>4, <1>5, <1>7, <1>8, <1>9

LEMMA HandlerBase ==
    ASSUME TypeOK, TypeOK', NEW k \in Keys, Base(k), HandleEventOf(k) \/ HandleSynced \/ FlushHashes
    PROVE  Base(k)'
<1>0. NoEntry.val = NoHash
  BY DEF NoEntry
<1>1. CASE HandleEventOf(k)
  <2>1. /\ truth' = truth /\ past' = past /\ db' = db /\ persisted' = persisted
        /\ handling' = handling /\ old' = old /\ up' = up /\ listed' = listed
        /\ synced' = synced /\ lastSent' = lastSent /\ centralState' = centralState
    BY <1>1 DEF HandleEventOf, HandleEvent, clusterVars, sensorVars, dbVars
  <2>2. PICK m \in Sent(k) :
            /\ Sent(k) = Sent(k)' \cup {m} /\ m \in Event({NoKey}) /\ m.key = k
            /\ work'[k] = Push(work[k], Keyed(m)) \/ work'[k] = work[k]
            /\ ded'.received[k].val \in {NoHash, m.val, ded.received[k].val}
            /\ ded'.successfullyProcessed[k].val \in {NoHash, ded.successfullyProcessed[k].val}
    <3>1. PICK m \in Sent(k) :
              /\ Sent(k) = Sent(k)' \cup {m} /\ m \in Event({NoKey}) /\ m.key = k
              /\ work'[k] = Push(work[k], Keyed(m)) \/ work'[k] = work[k]
              /\ k \in SkipKeys =>
                    /\ ded'.received[k] = ded.received[k]
                    /\ ded'.successfullyProcessed[k] = ded.successfullyProcessed[k]
              /\ k \notin SkipKeys /\ m.act = "REMOVE" =>
                    ded'.received[k] = NoEntry /\ ded'.successfullyProcessed[k] = NoEntry
              /\ k \notin SkipKeys /\ m.act # "REMOVE" =>
                    /\ ded'.received[k] = IF GetValue(ded, k) # m.val
                                          THEN [val |-> m.val, processed |-> TRUE]
                                          ELSE ded.received[k]
                    /\ ded'.successfullyProcessed[k].val = ded.successfullyProcessed[k].val
      BY <1>1, HandleOwn
    <3> QED BY <1>0, <3>1
  <2>3. /\ Keyed(m).val = m.val /\ Keyed(m).act = m.act
        /\ Queue(k)' \subseteq Queue(k) \cup {Keyed(m)}
    <3>1. CASE work'[k] = work[k]
      <4>1. Queue(k)' = Queue(k)
        BY <3>1 DEF Queue, Items
      <4> QED BY <2>2, <4>1, KeyedFacts
    <3>2. CASE work'[k] = Push(work[k], Keyed(m))
      BY <2>2, <3>2, PushOwn, KeyedFacts
    <3> QED BY <2>2, <3>1, <3>2
  <2>4. (Busy(k)' <=> Busy(k)) /\ k \in listed
    BY <2>1 DEF Busy, Base, PipeListed, Piped
  <2>5. Values(k)'
    BY <2>1, <2>2, <2>3, <2>4 DEF Base, Values, Had
  <2>6. NoRemove(k)'
    BY <2>1, <2>2, <2>3, <2>4 DEF Base, NoRemove
  <2> QED BY <2>1, <2>4, <2>5, <2>6 DEF Base, PipeListed, Listing, Missed
<1>2. CASE HandleSynced
  <2>1. /\ truth' = truth /\ past' = past /\ persisted' = persisted /\ work' = work
        /\ handling' = handling /\ old' = old /\ up' = up /\ listed' = listed
        /\ synced' = synced /\ lastSent' = lastSent /\ centralState' = centralState
    BY <1>2 DEF HandleSynced, clusterVars, sensorVars, workerVars
  <2>2. Queue(k)' = Queue(k) /\ (Busy(k)' <=> Busy(k))
    BY <2>1 DEF Queue, Items, Busy
  <2>3. /\ Sent(k)' = Sent(k) /\ ded'.received[k] = ded.received[k]
        /\ ded'.successfullyProcessed[k] \in {NoEntry, ded.successfullyProcessed[k]}
        /\ db'[k] = db[k] \/ db'[k] = NoHash
    BY <1>2, SyncedFacts
  <2>4. Values(k)'
    BY <1>0, <2>1, <2>2, <2>3 DEF Base, Values, Had
  <2>5. NoRemove(k)'
    BY <2>1, <2>2, <2>3 DEF Base, NoRemove
  <2>6. Missed(k)'
    BY <2>1, <2>2, <2>3 DEF Base, Missed, Unborn
  <2> QED BY <2>1, <2>2, <2>3, <2>4, <2>5, <2>6 DEF Base, PipeListed, Piped, Listing
<1>3. CASE FlushHashes
  <2>1. /\ truth' = truth /\ past' = past /\ db' = db /\ work' = work /\ ded' = ded
        /\ handling' = handling /\ old' = old /\ up' = up /\ listed' = listed /\ wire' = wire
        /\ synced' = synced /\ lastSent' = lastSent /\ centralState' = centralState
    BY <1>3 DEF FlushHashes, clusterVars, sensorVars, handlerVars, workerVars
  <2>2. Queue(k)' = Queue(k) /\ (Busy(k)' <=> Busy(k)) /\ Sent(k)' = Sent(k)
    BY <2>1, WireSame DEF Queue, Items, Busy
  <2>3. persisted'[k] \in {NoHash, ded.successfullyProcessed[k].val}
    BY <1>3, SuccessfulFacts DEF FlushHashes, TypeOK
  <2>4. Values(k)'
    BY <2>1, <2>2, <2>3 DEF Base, Values, Had
  <2>5. NoRemove(k)'
    BY <2>1, <2>2 DEF Base, NoRemove
  <2>6. Missed(k)'
    BY <2>1, <2>2 DEF Base, Missed, Unborn
  <2> QED BY <2>1, <2>2, <2>4, <2>5, <2>6 DEF Base, PipeListed, Piped, Listing
<1> QED BY <1>1, <1>2, <1>3

\* What the steps of the workers of k leave alone.
LEMMA WorkFrame ==
    ASSUME TypeOK, NEW k \in Keys,
           StartWork(k) \/ Write(k) \/ Mark(k) \/ Fail(k) \/ OldWrite(k) \/ OldMark(k) \/ OldCancel(k)
    PROVE  /\ truth' = truth /\ past' = past /\ persisted' = persisted /\ up' = up
           /\ listed' = listed /\ synced' = synced /\ lastSent' = lastSent
           /\ centralState' = centralState /\ unchanged' = unchanged
           /\ recon' = recon /\ closed' = closed /\ wire' = wire /\ misled' = misled
           /\ Sent(k)' = Sent(k) /\ (Ahead(k)' <=> Ahead(k))
           /\ \A a, b : SentBefore(k, a, b)' => SentBefore(k, a, b)
           /\ k \in excused => k \in excused'
<1>1. /\ truth' = truth /\ past' = past /\ persisted' = persisted /\ up' = up
      /\ listed' = listed /\ synced' = synced /\ lastSent' = lastSent
      /\ centralState' = centralState /\ unchanged' = unchanged
      /\ recon' = recon /\ closed' = closed /\ wire' = wire /\ misled' = misled
      /\ k \in excused => k \in excused'
  BY DEF StartWork, Write, Mark, Fail, OldWrite, OldMark, OldCancel, clusterVars, sensorVars,
         handlerVars, dbVars, disturbances
<1> QED BY <1>1, WireSame

\* The same queue has the same events.
LEMMA QueueSame ==
    ASSUME NEW k \in Keys, work'[k] = work[k]
    PROVE  Queue(k)' = Queue(k) /\ \A a, b : QueuedBefore(k, a, b)' <=> QueuedBefore(k, a, b)
BY DEF Queue, Items, QueuedBefore

LEMMA FailFacts ==
    ASSUME TypeOK, NEW k \in Keys, Fail(k)
    PROVE  /\ ded'.received[k] \in {ded.received[k], NoEntry}
           /\ ded'.successfullyProcessed[k] = ded.successfullyProcessed[k]
           /\ k \in excused' /\ handling'[k] = Idle /\ Busy(k)
           /\ work' = work /\ old' = old /\ db' = db
<1>1. Known(handling[k].msg) /\ handling[k].msg.key = k /\ ded \in Deduper
  BY HandFacts DEF Fail, TypeOK
<1> DEFINE e == RemoveMessage(ded, handling[k].msg)
<1>2. e.received[k] \in {ded.received[k], NoEntry}
      /\ e.successfullyProcessed = ded.successfullyProcessed
  BY <1>1, ForgetFacts
<1> HIDE DEF e
<1>3. ded' \in {e, ded}
  BY DEF Fail, e
<1> QED BY <1>2, <1>3 DEF Fail, TypeOK, Busy, dbVars

LEMMA WorkerBase ==
    ASSUME TypeOK, TypeOK', NEW k \in Keys, Base(k),
           StartWork(k) \/ Write(k) \/ Mark(k) \/ Fail(k)
    PROVE  Base(k)'
<1>1. /\ truth' = truth /\ past' = past /\ persisted' = persisted /\ up' = up
      /\ listed' = listed /\ synced' = synced /\ lastSent' = lastSent
      /\ centralState' = centralState /\ Sent(k)' = Sent(k)
  BY WorkFrame
<1>2. NoEntry.val = NoHash
  BY DEF NoEntry
<1>3. Piped(k)
  BY HandFacts DEF StartWork, Write, Mark, Fail, Piped, Busy
<1>4. PipeListed(k)' /\ Listing(k)' /\ Missed(k)'
  BY <1>1, <1>3 DEF Base, PipeListed, Listing, Missed
<1>5. CASE StartWork(k)
  <2>1. ded' = ded /\ old' = old /\ db' = db
    BY <1>5 DEF StartWork, handlerVars, dbVars
  <2>2. Busy(k)' /\ Queue(k) = Queue(k)' \cup {handling'[k].msg}
    BY <1>5, StartOwn
  <2>3. Values(k)'
    BY <1>1, <2>1, <2>2 DEF Base, Values, Had
  <2>4. NoRemove(k)'
    BY <1>1, <2>1, <2>2 DEF Base, NoRemove
  <2> QED BY <1>4, <2>3, <2>4 DEF Base
<1>6. CASE Write(k)
  <2>1. ded' = ded /\ old' = old /\ work' = work
    BY <1>6 DEF Write, handlerVars
  <2>2. /\ Busy(k) /\ db'[k] = Stored(handling[k].msg)
        /\ Busy(k)' /\ handling'[k].msg = handling[k].msg
    BY <1>6, WriteOwn
  <2>3. Stored(handling[k].msg) \in {NoHash, handling[k].msg.val}
    BY DEF Stored
  <2>4. Queue(k)' = Queue(k)
    BY <2>1, QueueSame
  <2>5. Values(k)'
    BY <1>1, <2>1, <2>2, <2>3, <2>4 DEF Base, Values, Had
  <2>6. NoRemove(k)'
    BY <1>1, <2>1, <2>2, <2>4 DEF Base, NoRemove
  <2> QED BY <1>4, <2>5, <2>6 DEF Base
<1>7. CASE Mark(k) \/ Fail(k)
  <2>1. /\ old' = old /\ work' = work /\ db' = db /\ ~ Busy(k)' /\ Busy(k)
    BY <1>7, HandFacts DEF Mark, Fail, dbVars, Busy, TypeOK
  <2>2. Queue(k)' = Queue(k)
    BY <2>1, QueueSame
  <2>3. /\ ded'.received[k].val \in {NoHash, ded.received[k].val}
        /\ ded'.successfullyProcessed[k].val
              \in {NoHash, ded.successfullyProcessed[k].val, handling[k].msg.val}
    <3>1. CASE Fail(k)
      BY <1>2, <3>1, FailFacts
    <3>2. CASE Mark(k)
      <4>1. Known(handling[k].msg) /\ handling[k].msg.key = k
        BY <2>1, HandFacts DEF Busy
      <4>2. ded' = MarkSuccessful(ded, handling[k].msg)
        BY <3>2 DEF Mark
      <4>3. /\ ded'.received[k] \in {ded.received[k], NoEntry}
            /\ \/ ded'.successfullyProcessed[k] \in {ded.successfullyProcessed[k], NoEntry}
               \/ ded'.successfullyProcessed[k] = [val |-> handling[k].msg.val, processed |-> TRUE]
        BY <4>1, <4>2, MarkOwn
      <4> QED BY <1>2, <4>3
    <3> QED BY <1>7, <3>1, <3>2
  <2>4. Values(k)'
    BY <1>1, <2>1, <2>2, <2>3 DEF Base, Values, Had
  <2>5. NoRemove(k)'
    BY <1>1, <2>1, <2>2 DEF Base, NoRemove
  <2> QED BY <1>4, <2>4, <2>5 DEF Base
<1> QED BY <1>5, <1>6, <1>7

LEMMA StragglerBase ==
    ASSUME TypeOK, TypeOK', NEW k \in Keys, Base(k),
           OldWrite(k) \/ OldMark(k) \/ OldCancel(k)
    PROVE  Base(k)'
<1>1. /\ truth' = truth /\ past' = past /\ persisted' = persisted /\ up' = up
      /\ listed' = listed /\ synced' = synced /\ lastSent' = lastSent
      /\ centralState' = centralState /\ Sent(k)' = Sent(k)
  BY WorkFrame
<1>2. work' = work /\ handling' = handling
  BY DEF OldWrite, OldMark, OldCancel
<1>3. Queue(k)' = Queue(k) /\ (Busy(k)' <=> Busy(k))
  BY <1>2, QueueSame DEF Busy
<1>4. PipeListed(k)' /\ Listing(k)'
  BY <1>1, <1>2, <1>3 DEF Base, PipeListed, Piped, Listing
<1>8. Missed(k)'
  <2>1. old[k] # Idle
    BY HandFacts DEF OldWrite, OldMark, OldCancel, TypeOK
  <2> QED BY <1>1, <2>1 DEF Base, Missed, Unborn
<1>5. NoEntry.val = NoHash
  BY DEF NoEntry
<1>6. CASE OldWrite(k)
  <2>1. ded' = ded
    BY <1>6 DEF OldWrite, handlerVars
  <2>2. /\ old[k] # Idle /\ db'[k] = Stored(old[k].msg)
        /\ old'[k] # Idle /\ old'[k].msg = old[k].msg
    BY <1>6, OldWriteOwn
  <2>3. Stored(old[k].msg) \in {NoHash, old[k].msg.val}
    BY DEF Stored
  <2>5. Values(k)'
    BY <1>1, <1>2, <1>3, <2>1, <2>2, <2>3 DEF Base, Values, Had
  <2>6. NoRemove(k)'
    BY <1>1, <1>2, <1>3, <2>2 DEF Base, NoRemove
  <2> QED BY <1>4, <1>8, <2>5, <2>6 DEF Base
<1>7. CASE OldMark(k) \/ OldCancel(k)
  <2>1. db' = db /\ old'[k] = Idle /\ old[k] # Idle
    BY <1>7, HandFacts DEF OldMark, OldCancel, dbVars, TypeOK
  <2>2. /\ ded'.received[k].val \in {NoHash, ded.received[k].val}
        /\ ded'.successfullyProcessed[k].val
              \in {NoHash, ded.successfullyProcessed[k].val, old[k].msg.val}
    <3>1. CASE OldCancel(k)
      BY <3>1 DEF OldCancel, handlerVars
    <3>2. CASE OldMark(k)
      <4>1. Known(old[k].msg) /\ old[k].msg.key = k
        BY <2>1, HandFacts
      <4>2. ded' = MarkSuccessful(ded, old[k].msg)
        BY <3>2 DEF OldMark
      <4>3. /\ ded'.received[k] \in {ded.received[k], NoEntry}
            /\ \/ ded'.successfullyProcessed[k] \in {ded.successfullyProcessed[k], NoEntry}
               \/ ded'.successfullyProcessed[k] = [val |-> old[k].msg.val, processed |-> TRUE]
        BY <4>1, <4>2, MarkOwn
      <4> QED BY <1>5, <4>3
    <3> QED BY <1>7, <3>1, <3>2
  <2>3. Values(k)'
    BY <1>1, <1>2, <1>3, <2>1, <2>2 DEF Base, Values, Had
  <2>4. NoRemove(k)'
    BY <1>1, <1>2, <1>3, <2>1 DEF Base, NoRemove
  <2> QED BY <1>4, <1>8, <2>3, <2>4 DEF Base
<1> QED BY <1>6, <1>7

LEMMA BaseStep ==
    ASSUME TypeOK, TypeOK', NEW k \in Keys, Base(k), [Next]_vars
    PROVE  Base(k)'
<1>1. CASE Apart(k)
  BY <1>1, ApartBase
<1>2. ASSUME NEW v \in Hashes, Create(k, v) \/ Update(k, v) PROVE Base(k)'
  BY <1>2, ClusterBase
<1>3. CASE Delete(k) \/ List(k)
  <2>1. \E v \in Hashes : TRUE
    BY <1>3 DEF Delete, List, TypeOK
  <2> QED BY <1>3, <2>1, ClusterBase
<1>4. CASE NewConnection \/ Connect \/ Break \/ Crash
  BY <1>4, ConnectionBase
<1>5. CASE HandleEventOf(k) \/ HandleSynced \/ FlushHashes
  BY <1>5, HandlerBase
<1>6. CASE StartWork(k) \/ Write(k) \/ Mark(k) \/ Fail(k)
  BY <1>6, WorkerBase
<1>7. CASE OldWrite(k) \/ OldMark(k) \/ OldCancel(k)
  BY <1>7, StragglerBase
<1> QED BY <1>1, <1>2, <1>3, <1>4, <1>5, <1>6, <1>7, Steps DEF Concerns

LEMMA InitConn == Init => Conn
<1> SUFFICES ASSUME Init PROVE Conn
  OBVIOUS
<1>1. 1..Len(wire) = {}
  BY DEF Init
<1> QED BY <1>1 DEF Init, Conn

\* Appending an event leaves the Synced event on the wire alone.
LEMMA SyncedKept ==
    ASSUME TypeOK, NEW m, m.act # "Synced", wire' = Append(wire, m) \/ wire' = wire,
           NEW s, NEW u,
           \A i \in 1..Len(wire) : wire[i].act = "Synced" => s /\ wire[i].unchangedIDs = u
    PROVE  \A i \in 1..Len(wire') : wire'[i].act = "Synced" => s /\ wire'[i].unchangedIDs = u
<1>1. wire \in Seq(Wired) /\ Len(wire) \in Nat
  BY DEF TypeOK
<1>2. CASE wire' = Append(wire, m)
  <2>1. \A i \in 1..Len(wire') : (i \in 1..Len(wire) /\ wire'[i] = wire[i]) \/ wire'[i] = m
    BY <1>1, <1>2
  <2> QED BY <2>1
<1> QED BY <1>2

LEMMA ClusterConn ==
    ASSUME TypeOK, Conn, NEW k \in Keys, NEW v \in Hashes,
           Create(k, v) \/ Update(k, v) \/ Delete(k) \/ List(k)
    PROVE  Conn'
<1>0. {"SYNC", "CREATE", "UPDATE", "REMOVE"} \subseteq Actions
      /\ truth[k] \in Hashes \cup {NoHash}
  BY DEF Actions, TypeOK
<1>1. /\ up' = up /\ synced' = synced /\ closed' = closed /\ recon' = recon
      /\ misled' = misled /\ old' = old /\ listed \subseteq listed'
  BY DEF Create, Update, Delete, List, handlerVars, workerVars, disturbances
<1>2. ASSUME NEW act \in Actions, NEW w \in Hashes, SendEvent(k, act, w)
      PROVE  /\ excused \subseteq excused'
             /\ act # "SYNC" => unchanged' = unchanged
             /\ unchanged' \subseteq unchanged \cup {k}
             /\ \E m : m.act # "Synced" /\ (wire' = Append(wire, m) \/ wire' = wire)
  <2>1. /\ excused' = excused \/ excused' = excused \cup {k}
        /\ act # "SYNC" => unchanged' = unchanged
        /\ unchanged' = unchanged \/ unchanged' = unchanged \cup ({k} \cap centralState)
        /\ wire' = Append(wire, Msgs(k, act, w)) \/ wire' = wire
    BY <1>2, SendEventFacts
  <2>2. Msgs(k, act, w).act # "Synced"
    BY MsgsType
  <2> QED BY <2>1, <2>2
<1>3. CASE Create(k, v) \/ Update(k, v) \/ Delete(k)
  <2>1. \/ up /\ \E act \in Actions, w \in Hashes : act # "SYNC" /\ SendEvent(k, act, w)
        \/ NoEvent
    BY <1>0, <1>3 DEF Create, Update, Delete, Follows
  <2>2. CASE NoEvent
    <3>1. wire' = wire /\ unchanged' = unchanged /\ excused' = excused
      BY <2>2 DEF NoEvent
    <3> QED BY <1>1, <3>1 DEF Conn
  <2>3. CASE up /\ \E act \in Actions, w \in Hashes : act # "SYNC" /\ SendEvent(k, act, w)
    <3>1. /\ up /\ excused \subseteq excused' /\ unchanged' = unchanged
          /\ \E m : m.act # "Synced" /\ (wire' = Append(wire, m) \/ wire' = wire)
      BY <1>2, <2>3
    <3>2. \A i \in 1..Len(wire') :
              wire'[i].act = "Synced" => synced /\ wire'[i].unchangedIDs = unchanged
      BY <3>1, SyncedKept DEF Conn
    <3> QED BY <1>1, <3>1, <3>2 DEF Conn
  <2> QED BY <2>1, <2>2, <2>3
<1>4. CASE List(k)
  <2>1. up /\ ~ synced /\ k \in listed' /\ truth[k] \in Hashes /\ SendEvent(k, "SYNC", truth[k])
    BY <1>0, <1>4 DEF List
  <2>2. /\ excused \subseteq excused' /\ unchanged' \subseteq unchanged \cup {k}
        /\ \E m : m.act # "Synced" /\ (wire' = Append(wire, m) \/ wire' = wire)
    BY <1>0, <1>2, <2>1
  <2>3. \A i \in 1..Len(wire) :
            wire[i].act = "Synced" => synced /\ wire[i].unchangedIDs = unchanged
    BY DEF Conn
  <2>4. \A i \in 1..Len(wire') :
            wire'[i].act = "Synced" => synced /\ wire'[i].unchangedIDs = unchanged
    BY <2>2, <2>3, SyncedKept
  <2> QED BY <1>1, <2>1, <2>2, <2>4 DEF Conn
<1> QED BY <1>3, <1>4

LEMMA ConnectionConn ==
    ASSUME TypeOK, Conn, ListDone \/ NewConnection \/ Connect \/ Break \/ Crash
    PROVE  Conn'
<1>1. CASE ListDone
  <2> DEFINE s == [act |-> "Synced", unchangedIDs |-> unchanged]
  <2>1. s \in Wired /\ s.act = "Synced" /\ s.unchangedIDs = unchanged
    BY DEF TypeOK, Wired
  <2>2. /\ wire' = Append(wire, s) \/ wire' = wire
        /\ excused \subseteq excused'
    BY <1>1, <2>1, SendType DEF ListDone
  <2>3. /\ up /\ up' = up /\ ~ synced /\ synced' = TRUE /\ closed' = closed /\ recon' = recon
        /\ misled' = misled /\ old' = old /\ listed' = listed /\ unchanged' = unchanged
    BY <1>1 DEF ListDone, handlerVars, workerVars, disturbances
  <2> HIDE DEF s
  <2>4. wire \in Seq(Wired) /\ Len(wire) \in Nat
    BY DEF TypeOK
  <2>5. \A i \in 1..Len(wire') : (i \in 1..Len(wire) /\ wire'[i] = wire[i]) \/ wire'[i] = s
    BY <2>2, <2>4
  <2>6. \A i \in 1..Len(wire') : wire'[i].act = "Synced" => wire'[i].unchangedIDs = unchanged
    BY <2>1, <2>3, <2>5 DEF Conn
  <2> QED BY <2>2, <2>3, <2>6 DEF Conn
<1>2. CASE NewConnection \/ Break
  <2>1. /\ wire' = wire /\ synced' = synced /\ unchanged' = unchanged /\ closed' = closed
        /\ recon' = recon /\ listed' = listed /\ old' = old /\ (up' => up)
        /\ excused' = excused /\ misled' = misled
    BY <1>2 DEF NewConnection, Break, handlerVars, workerVars, disturbances
  <2> QED BY <2>1 DEF Conn
<1>3. CASE Connect \/ Crash
  <2>1. 1..Len(wire') = {}
    BY <1>3 DEF Connect, Crash
  <2>2. "straggler" \notin Faults => old' = AllIdle
    BY <1>3 DEF Connect, Crash
  <2>3. CASE Connect
    BY <2>1, <2>2, <2>3 DEF Connect, Conn
  <2>4. CASE Crash
    BY <2>1, <2>2, <2>4 DEF Crash, Conn
  <2> QED BY <1>3, <2>3, <2>4
<1> QED BY <1>1, <1>2, <1>3

LEMMA HandlerConn ==
    ASSUME TypeOK, Conn, \A k \in Keys : Base(k), HandleEvent \/ HandleSynced \/ FlushHashes
    PROVE  Conn'
<1>1. CASE FlushHashes
  BY <1>1 DEF FlushHashes, Conn, clusterVars, sensorVars, handlerVars, workerVars, disturbances
<1>2. ASSUME wire # <<>>, wire' = Tail(wire), UNCHANGED <<sensorVars, old>>,
             misled' \subseteq misled \cup excused,
             recon' \subseteq listed, excused \subseteq excused', closed' => closed \/ synced
      PROVE  Conn'
  <2>1. /\ up' = up /\ listed' = listed /\ synced' = synced /\ unchanged' = unchanged
        /\ old' = old
    BY <1>2 DEF sensorVars
  <2>2. up' => misled' \subseteq excused'
    BY <1>2, <2>1 DEF Conn
  <2>3. wire \in Seq(Wired) /\ Len(wire) \in Nat
    BY DEF TypeOK
  <2>4. \A i \in 1..Len(wire') : i + 1 \in 1..Len(wire) /\ wire'[i] = wire[i + 1]
    BY <1>2, <2>3
  <2> QED BY <1>2, <2>1, <2>2, <2>4 DEF Conn
<1>3. CASE HandleEvent
  <2>1. PICK m \in Event({NoKey}) :
            /\ m = Head(wire) /\ wire # <<>> /\ wire' = Tail(wire)
            /\ recon' = IF closed THEN recon ELSE recon \cup {m.key}
    BY <1>3, HandleEventFacts
  <2>2. m.key \in Keys /\ IsEvent(m, m.key)
    BY EventFacts DEF IsEvent
  <2>3. m \in Sent(m.key)
    BY <2>1, <2>2, WirePop
  <2>4. m.key \in listed
    BY <2>2, <2>3 DEF Base, PipeListed, Piped
  <2>5. recon' \subseteq listed
    BY <2>1, <2>4 DEF Conn
  <2>6. UNCHANGED <<sensorVars, old, misled, excused, closed>>
    BY <1>3 DEF HandleEvent, disturbances
  <2> QED BY <1>2, <2>1, <2>5, <2>6
<1>4. CASE HandleSynced
  <2>1. /\ wire # <<>> /\ wire' = Tail(wire) /\ Head(wire).act = "Synced"
        /\ recon' = recon \cup Head(wire).unchangedIDs /\ excused \subseteq excused'
    BY <1>4 DEF HandleSynced
  <2>2. wire \in Seq(Wired) /\ Len(wire) \in Nat
    BY DEF TypeOK
  <2>3. Head(wire) = wire[1] /\ 1 \in 1..Len(wire)
    BY <2>1, <2>2
  <2>4. synced /\ Head(wire).unchangedIDs = unchanged
    BY <2>1, <2>3 DEF Conn
  <2>5. recon' \subseteq listed
    BY <2>1, <2>4 DEF Conn
  <2>6. UNCHANGED <<sensorVars, old>> /\ misled' \subseteq misled \cup excused
    BY <1>4 DEF HandleSynced, workerVars
  <2> QED BY <1>2, <2>1, <2>4, <2>5, <2>6
<1> QED BY <1>1, <1>3, <1>4

LEMMA WorkConn ==
    ASSUME TypeOK, Conn, NEW k \in Keys,
           StartWork(k) \/ Write(k) \/ Mark(k) \/ Fail(k) \/ OldWrite(k) \/ OldMark(k) \/ OldCancel(k)
    PROVE  Conn'
<1>1. /\ up' = up /\ listed' = listed /\ synced' = synced /\ unchanged' = unchanged
      /\ recon' = recon /\ closed' = closed /\ wire' = wire /\ misled' = misled
  BY WorkFrame
<1>2. excused \subseteq excused'
  BY DEF StartWork, Write, Mark, Fail, OldWrite, OldMark, OldCancel
<1>3. "straggler" \notin Faults => old' = AllIdle
  <2>1. old = AllIdle => old[k] = Idle
    BY IdleType
  <2>2. old[k] = Idle => ~ (OldWrite(k) \/ OldMark(k) \/ OldCancel(k))
    BY HandFacts DEF OldWrite, OldMark, OldCancel
  <2>3. ~ (OldWrite(k) \/ OldMark(k) \/ OldCancel(k)) => old' = old
    BY DEF StartWork, Write, Mark, Fail
  <2> QED BY <2>1, <2>2, <2>3 DEF Conn
<1> QED BY <1>1, <1>2, <1>3 DEF Conn

LEMMA ConnStep ==
    ASSUME TypeOK, Conn, \A k \in Keys : Base(k), [Next]_vars
    PROVE  Conn'
<1>1. CASE UNCHANGED vars
  BY <1>1 DEF vars, Conn, clusterVars, sensorVars, handlerVars, workerVars, disturbances
<1>2. ASSUME NEW k \in Keys, NEW v \in Hashes, Create(k, v) \/ Update(k, v) PROVE Conn'
  BY <1>2, ClusterConn
<1>3. ASSUME NEW k \in Keys, Delete(k) \/ List(k) PROVE Conn'
  <2>1. \E v \in Hashes : TRUE
    BY <1>3 DEF Delete, List, TypeOK
  <2> QED BY <1>3, <2>1, ClusterConn
<1>4. CASE ListDone \/ NewConnection \/ Connect \/ Break \/ Crash
  BY <1>4, ConnectionConn
<1>5. CASE HandleEvent \/ HandleSynced \/ FlushHashes
  BY <1>5, HandlerConn
<1>6. ASSUME NEW k \in Keys, StartWork(k) \/ Write(k) \/ Mark(k) \/ Fail(k)
                             \/ OldWrite(k) \/ OldMark(k) \/ OldCancel(k)
      PROVE  Conn'
  BY <1>6, WorkConn
<1> QED BY <1>1, <1>2, <1>3, <1>4, <1>5, <1>6 DEF Next

BaseInv == TypeOK /\ Conn /\ \A k \in Keys : Base(k)

LEMMA BaseInvariance == Spec => []BaseInv
<1>1. Init => BaseInv
  BY InitType, InitConn, InitBase DEF BaseInv
<1>2. BaseInv /\ [Next]_vars => BaseInv'
  BY NextType, ConnStep, BaseStep DEF BaseInv
<1> QED BY <1>1, <1>2, PTL DEF Spec
-----------------------------------------------------------------------------
\* A connection is up, or goes on in Central.
Live == up \/ wire # <<>>

\* Until reconciliation, an object that the listener has delivered is in the map, or
\* reported as unchanged, or on its way ahead of the Synced event; or it was created just
\* now and there is nothing that could be deleted.
Spared(k) ==
    Live /\ ~ closed /\ k \in listed /\ truth[k] # NoHash /\ (k \notin excused \/ "drop" \notin Faults)
        => k \in recon \cup unchanged \/ Ahead(k) \/ Unborn(k)

LEMMA ClusterSpared ==
    ASSUME TypeOK, TypeOK', Conn, NEW k \in Keys, Base(k), Spared(k), NEW v \in Hashes,
           Create(k, v) \/ Update(k, v) \/ Delete(k) \/ List(k)
    PROVE  Spared(k)'
<1>0. /\ {"SYNC", "CREATE", "UPDATE", "REMOVE"} \subseteq Actions
      /\ truth[k] \in Hashes \cup {NoHash} /\ NoHash \notin Hashes
  BY NoHashAssumption DEF Actions, TypeOK
<1>1. /\ work' = work /\ handling' = handling /\ old' = old /\ db' = db /\ up' = up
      /\ recon' = recon /\ closed' = closed
  BY DEF Create, Update, Delete, List, handlerVars, workerVars, dbVars
<1>2. Unborn(k)' <=> Unborn(k)
  BY <1>1 DEF Unborn, Busy
<1>7. Live' => Live
  <2>1. up \/ NoEvent
    BY DEF Create, Update, Delete, List, Follows
  <2> QED BY <1>1, <2>1 DEF Live, NoEvent
<1>3. CASE Create(k, v)
  <2>1. past[k] = {}
    BY <1>3 DEF Create
  <2> QED BY <1>2, <2>1, NoPast DEF Unborn, Spared
<1>4. CASE Update(k, v)
  <2>1. listed' = listed /\ truth[k] # NoHash
    BY <1>4 DEF Update
  <2>2. /\ Ahead(k) => Ahead(k)'
        /\ k \in unchanged => k \in unchanged'
        /\ k \in excused => k \in excused'
    <3>1. CASE SendEvent(k, "UPDATE", v)
      <4>1. PICK m : m = Msgs(k, "UPDATE", v)
        OBVIOUS
      <4> QED BY <1>0, <3>1, <4>1, SendOwn
    <3>2. CASE NoEvent
      BY <3>2, WireSame DEF NoEvent
    <3> QED BY <1>4, <3>1, <3>2 DEF Update
  <2> QED BY <1>1, <1>2, <1>7, <2>1, <2>2 DEF Spared
<1>5. CASE Delete(k)
  <2>1. truth'[k] = NoHash
    BY <1>5 DEF Delete, TypeOK
  <2> QED BY <2>1 DEF Spared
<1>6. CASE List(k)
  <2>1. up /\ ~ synced /\ k \notin listed /\ truth[k] \in Hashes /\ SendEvent(k, "SYNC", truth[k])
    BY <1>0, <1>6 DEF List
  <2>2. PICK m : m = Msgs(k, "SYNC", truth[k])
    OBVIOUS
  <2>3. \/ (\A i \in 1..Len(wire) : wire[i].act # "Synced") => Ahead(k)'
        \/ k \in excused' /\ "drop" \in Faults
        \/ lastSent[k] = Target("SYNC", truth[k]) /\ (k \in centralState => k \in unchanged')
    BY <1>0, <2>1, <2>2, SendOwn
  <2>4. \A i \in 1..Len(wire) : wire[i].act # "Synced"
    BY <2>1 DEF Conn
  <2>5. lastSent[k] = Target("SYNC", truth[k]) => k \in centralState
    BY <1>0, <2>1 DEF Base, Listing, Target
  <2> QED BY <2>3, <2>4, <2>5 DEF Spared
<1> QED BY <1>3, <1>4, <1>5, <1>6

LEMMA SparedStep ==
    ASSUME TypeOK, TypeOK', Conn, NEW k \in Keys, Base(k), Spared(k), [Next]_vars
    PROVE  Spared(k)'
<1>1. CASE Apart(k)
  <2>1. Unborn(k) => Unborn(k)'
    BY <1>1 DEF Apart, Unborn, Busy
  <2> QED BY <1>1, <2>1 DEF Apart, Spared, Live
<1>2. ASSUME NEW v \in Hashes, Create(k, v) \/ Update(k, v) PROVE Spared(k)'
  BY <1>2, ClusterSpared
<1>3. CASE Delete(k) \/ List(k)
  <2>1. \E v \in Hashes : TRUE
    BY <1>3 DEF Delete, List, TypeOK
  <2> QED BY <1>3, <2>1, ClusterSpared
<1>4. CASE NewConnection \/ Connect \/ Break \/ Crash
  <2>1. CASE NewConnection \/ Break
    <3>1. Ahead(k)' <=> Ahead(k)
      BY <2>1, WireSame DEF NewConnection, Break
    <3> QED BY <2>1, <3>1
            DEF NewConnection, Break, Spared, Live, Unborn, Busy, clusterVars, handlerVars,
                workerVars, dbVars
  <2> QED BY <1>4, <2>1 DEF Connect, Crash, Spared, Live
<1>5. CASE HandleEventOf(k)
  <2>1. k \in recon \/ ~ closed => k \in recon'
    BY <1>5, HandleOwn
  <2>2. closed' = closed
    BY <1>5 DEF HandleEventOf, HandleEvent
  <2>3. ~ closed => k \in recon'
    BY <2>1
  <2> QED BY <2>2, <2>3 DEF Spared
<1>6. CASE HandleSynced
  BY <1>6 DEF HandleSynced, Spared
<1>7. CASE \/ StartWork(k) \/ Write(k) \/ Mark(k) \/ Fail(k)
           \/ OldWrite(k) \/ OldMark(k) \/ OldCancel(k)
  <2>1. ~ Unborn(k)
    BY <1>7, HandFacts DEF StartWork, Write, Mark, Fail, OldWrite, OldMark, OldCancel, Unborn, Busy
  <2>2. /\ truth' = truth /\ up' = up /\ listed' = listed /\ unchanged' = unchanged
        /\ recon' = recon /\ closed' = closed /\ (Ahead(k)' <=> Ahead(k)) /\ wire' = wire
        /\ k \in excused => k \in excused'
    BY <1>7, WorkFrame
  <2> QED BY <2>1, <2>2 DEF Spared, Live
<1>8. CASE FlushHashes
  <2>1. wire' = wire /\ UNCHANGED <<clusterVars, sensorVars, handlerVars, workerVars, db, excused>>
    BY <1>8 DEF FlushHashes
  <2>2. Ahead(k)' <=> Ahead(k)
    BY <2>1, WireSame
  <2>3. Unborn(k)' <=> Unborn(k)
    BY <2>1 DEF Unborn, Busy, workerVars
  <2> QED BY <2>1, <2>2, <2>3 DEF Spared, Live, clusterVars, sensorVars, handlerVars
<1> QED BY <1>1, <1>2, <1>3, <1>4, <1>5, <1>6, <1>7, <1>8, Steps DEF Concerns

\* So reconciliation leaves alone what exists.
LEMMA SyncedSpares ==
    ASSUME TypeOK, Conn, NEW k \in Keys, Base(k), Spared(k), HandleSynced,
           k \notin excused \/ "drop" \notin Faults, truth[k] # NoHash
    PROVE  db'[k] = db[k]
<1>1. /\ ~ Ahead(k) /\ (db'[k] = db[k] \/ (db'[k] = NoHash /\ k \notin recon')) /\ ~ closed
      /\ recon' = recon \cup wire[1].unchangedIDs /\ wire[1].act = "Synced"
      /\ 1 \in 1..Len(wire) /\ wire # <<>>
  BY SyncedFacts
<1>2. synced /\ wire[1].unchangedIDs = unchanged
  BY <1>1 DEF Conn
<1>3. k \in listed \/ db[k] = NoHash
  BY <1>2 DEF Base, Missed, Unborn
<1>4. k \in recon' \/ db[k] = NoHash
  BY <1>1, <1>2, <1>3 DEF Spared, Live, Unborn
<1> QED BY <1>1, <1>4

\* For any faults: reconciliation deletes no object that is still in the cluster, except
\* one whose message Sensor's buffer has dropped.
THEOREM SparesExisting == Spec => ReconcileSparesExisting
<1> DEFINE Inv == BaseInv /\ \A k \in Keys : Spared(k)
           A == HandleSynced => \A k \in Keys \ excused :
                    db[k] # NoHash /\ truth[k] # NoHash => db'[k] # NoHash
<1>1. Init => Inv
  BY InitType, InitConn, InitBase DEF Init, Spared, BaseInv
<1>2. Inv /\ [Next]_vars => Inv'
  BY NextType, ConnStep, BaseStep, SparedStep DEF BaseInv
<1>3. ASSUME BaseInv, NEW k \in Keys, Spared(k), k \notin excused, HandleSynced,
             db[k] # NoHash, truth[k] # NoHash
      PROVE  db'[k] # NoHash
  BY <1>3, SyncedSpares DEF BaseInv
<1>4. Inv /\ [Next]_vars => [A]_vars
  <2> SUFFICES ASSUME Inv PROVE A
    OBVIOUS
  <2> QED BY <1>3
<1>5. Spec => []Inv
  BY <1>1, <1>2, PTL DEF Spec
<1>6. Spec => [][A]_vars
  BY <1>4, <1>5, PTL DEF Spec
<1> QED BY <1>6 DEF ReconcileSparesExisting
-----------------------------------------------------------------------------
\* Healing.  A hash tells contents apart, unless an object may return to a content that it
\* had before, or a straggler may write an old content late: then the argument is about
\* existence alone.  Same is the equivalence that the argument is about.
Exact == "straggler" \notin Faults /\ "revert" \notin Faults
Same(x, y) == IF Exact THEN x = y ELSE (x = NoHash <=> y = NoHash)

\* Event m brings Central's copy of k up to date.
Says(m, k) == Same(Stored(m), truth[k])

\* CREATE events are not deduped: one may wait, and only in front of another event.  So
\* an event that takes the place of another one takes the last place.
Shape(k) ==
    /\ \A m \in Queue(k) : m.dedupeKey = IF m.act = "CREATE" THEN NoKey ELSE <<k>>
    /\ \A a, b : QueuedBefore(k, a, b) => a.act = "CREATE" /\ b.act # "CREATE"
    /\ \A a, b : SentBefore(k, a, b) => b.act # "CREATE"
    /\ \A m \in Sent(k) : m.act = "CREATE" => work[k] = <<>>

\* Events keep the order of the changes: one that is up to date is followed by such ones only.
Ordered(k) ==
    /\ \A a, b : SentBefore(k, a, b) /\ Says(a, k) => Says(b, k)
    /\ \A a, b : QueuedBefore(k, a, b) /\ Says(a, k) => Says(b, k)
    /\ \A a \in Queue(k), b \in Sent(k) : Says(a, k) => Says(b, k)
    /\ Busy(k) /\ Says(handling[k].msg, k) => \A b \in Queue(k) \cup Sent(k) : Says(b, k)

Order(k) == Shape(k) /\ Ordered(k)

LEMMA SameFacts ==
    /\ \A x : Same(x, x) /\ (Same(x, NoHash) <=> x = NoHash) /\ (Same(NoHash, x) <=> x = NoHash)
    /\ \A x, y : Same(x, y) => Same(y, x)
    /\ \A x, y, z : Same(x, y) /\ Same(y, z) => Same(x, z)
    /\ Exact => \A x, y : Same(x, y) => x = y
    /\ ~ Exact => \A x, y : x # NoHash /\ y # NoHash => Same(x, y)
    /\ \A x, y : Same(x, y) => (x = NoHash <=> y = NoHash)
BY DEF Same

\* What a change of k means for what is known of it: it is gone; or it is new to all; or,
\* if only existence counts, nothing.
LEMMA Turns ==
    ASSUME TypeOK, NEW k \in Keys, Base(k), NEW v \in Hashes,
           Create(k, v) \/ Update(k, v) \/ Delete(k) \/ List(k)
    PROVE  \/ truth'[k] = NoHash /\ truth[k] # NoHash
           \/ /\ truth'[k] # NoHash /\ (Exact \/ past[k] = {})
              /\ \A x \in past[k] \cup {NoHash} : ~ Same(x, truth'[k])
           \/ /\ truth'[k] # NoHash /\ truth[k] # NoHash
              /\ \A x : Same(x, truth'[k]) <=> Same(x, truth[k])
<1>0. NoHash \notin Hashes /\ truth[k] \in Hashes \cup {NoHash} /\ v # NoHash
  BY NoHashAssumption DEF TypeOK
<1>1. CASE Create(k, v)
  <2>1. past[k] = {} /\ truth'[k] = v
    BY <1>1 DEF Create, TypeOK
  <2> QED BY <1>0, <2>1, SameFacts
<1>2. CASE Update(k, v)
  <2>1. truth'[k] = v /\ truth[k] # NoHash /\ (v \in past[k] => "revert" \in Faults)
    BY <1>2 DEF Update, TypeOK
  <2>2. CASE Exact
    <3>1. v \notin past[k] \cup {NoHash}
      BY <1>0, <2>1, <2>2 DEF Exact
    <3> QED BY <1>0, <2>1, <2>2, <3>1, SameFacts
  <2>3. CASE ~ Exact
    BY <1>0, <2>1, <2>3 DEF Same
  <2> QED BY <2>2, <2>3
<1>3. CASE Delete(k)
  BY <1>3 DEF Delete, TypeOK
<1>4. CASE List(k)
  BY <1>4 DEF List, clusterVars
<1> QED BY <1>1, <1>2, <1>3, <1>4

\* What that means for the events of k.
LEMMA TurnsEvents ==
    ASSUME TypeOK, NEW k \in Keys, Base(k), NEW v \in Hashes,
           Create(k, v) \/ Update(k, v) \/ Delete(k) \/ List(k),
           NEW e, e \in Sent(k) \cup Queue(k) \/ (Busy(k) /\ e = handling[k].msg)
    PROVE  /\ truth[k] # NoHash /\ (Says(e, k)' => Says(e, k))
           /\ truth'[k] = NoHash => ~ Says(e, k)'
           /\ (\A x \in past[k] \cup {NoHash} : ~ Same(x, truth'[k])) => ~ Says(e, k)'
           /\ (\A x : Same(x, truth'[k]) <=> Same(x, truth[k])) => (Says(e, k)' <=> Says(e, k))
<1>1. e.val \in past[k] /\ e.val \in Hashes /\ e.val # NoHash
  BY NoHashAssumption DEF Base, Values, Had, TypeOK
<1>2. truth[k] # NoHash
  BY <1>1 DEF Create, Update, Delete, List
<1>3. e.act # "REMOVE" /\ Stored(e) = e.val
  BY <1>2 DEF Base, NoRemove, Stored
<1> QED BY <1>1, <1>2, <1>3, Turns, SameFacts DEF Says

\* A change of an object that the listener follows, or its listing, sends an event that is
\* up to date, unless Sensor's buffer drops it or Central is known to have the content.
LEMMA ClusterSends ==
    ASSUME TypeOK, NEW k \in Keys, Base(k), NEW v \in Hashes,
           Create(k, v) \/ Update(k, v) \/ Delete(k) \/ List(k)
    PROVE  /\ k \in excused => k \in excused'
           /\ k \in listed => k \in listed'
           /\ \/ \E m : /\ Sent(k)' = Sent(k) \cup {m} /\ Says(m, k)'
                        /\ m.act = "CREATE" => past[k] = {}
                        /\ \A a, b : SentBefore(k, a, b)' =>
                               SentBefore(k, a, b) \/ (a \in Sent(k) /\ b = m)
              \/ /\ Sent(k)' = Sent(k) /\ \A a, b : SentBefore(k, a, b)' => SentBefore(k, a, b)
                 /\ up /\ k \in listed' /\ k \notin excused' =>
                       List(k) /\ lastSent[k] = truth[k] /\ k \notin excused
<1>0. /\ {"SYNC", "CREATE", "UPDATE", "REMOVE"} \subseteq Actions
      /\ truth[k] \in Hashes \cup {NoHash} /\ NoHash \notin Hashes
  BY NoHashAssumption DEF Actions, TypeOK
<1> DEFINE Sends ==
           \E m : /\ Sent(k)' = Sent(k) \cup {m} /\ Says(m, k)'
                  /\ m.act = "CREATE" => past[k] = {}
                  /\ \A a, b : SentBefore(k, a, b)' =>
                         SentBefore(k, a, b) \/ (a \in Sent(k) /\ b = m)
           Quiet == Sent(k)' = Sent(k) /\ \A a, b : SentBefore(k, a, b)' => SentBefore(k, a, b)
<1>1. ASSUME NEW act \in Actions, NEW w \in Hashes, SendEvent(k, act, w),
             truth'[k] = Target(act, w), act = "CREATE" => past[k] = {}
      PROVE  /\ k \in excused => k \in excused'
             /\ \/ Sends
                \/ Quiet /\ k \in excused'
                \/ Quiet /\ excused' = excused /\ lastSent[k] = Target(act, w)
  <2>1. PICK m : m = Msgs(k, act, w)
    OBVIOUS
  <2>2. /\ m.act = act /\ m.val = w
        /\ k \in excused => k \in excused'
        /\ \/ /\ Sent(k)' = Sent(k) \cup {m}
              /\ \A a, b : SentBefore(k, a, b)' => SentBefore(k, a, b) \/ (a \in Sent(k) /\ b = m)
           \/ Quiet /\ k \in excused'
           \/ Quiet /\ excused' = excused /\ lastSent[k] = Target(act, w)
    BY <1>1, <2>1, SendOwn
  <2>3. Says(m, k)'
    <3>1. Stored(m) = truth'[k]
      BY <1>1, <2>2 DEF Stored, Target
    <3>2. Same(Stored(m), truth'[k])
      BY <3>1, SameFacts
    <3> QED BY <3>2 DEF Says
  <2> QED BY <1>1, <2>2, <2>3
<1>2. ASSUME NoEvent PROVE Quiet /\ excused' = excused
  BY <1>2, WireSame DEF NoEvent
<1>3. CASE Create(k, v)
  <2>1. past[k] = {} /\ truth'[k] = v /\ v = Target("CREATE", v)
    BY <1>3 DEF Create, TypeOK, Target
  <2>2. k \notin listed /\ lastSent[k] = NoHash
    BY <2>1, NoPast
  <2>3. CASE up /\ synced /\ listed' = listed \cup {k} /\ SendEvent(k, "CREATE", v)
    <3>1. /\ k \in excused => k \in excused'
          /\ Sends \/ (Quiet /\ k \in excused')
      BY <1>0, <1>1, <2>1, <2>2, <2>3
    <3> QED BY <2>3, <3>1
  <2>4. CASE ~ (up /\ synced) /\ NoEvent /\ UNCHANGED listed
    BY <1>2, <2>2, <2>4
  <2> QED BY <1>3, <2>3, <2>4 DEF Create
<1>4. CASE Update(k, v)
  <2>1. /\ truth'[k] = v /\ truth[k] # v /\ v = Target("UPDATE", v) /\ listed' = listed
    BY <1>4 DEF Update, TypeOK, Target
  <2>2. CASE Follows(k) /\ SendEvent(k, "UPDATE", v)
    <3>1. lastSent[k] = truth[k]
      BY <2>2 DEF Base, Listing, Follows
    <3>2. /\ k \in excused => k \in excused'
          /\ Sends \/ (Quiet /\ k \in excused')
      BY <1>0, <1>1, <2>1, <2>2, <3>1
    <3> QED BY <2>1, <3>2
  <2>3. CASE ~ Follows(k) /\ NoEvent
    BY <1>2, <2>1, <2>3 DEF Follows
  <2> QED BY <1>4, <2>2, <2>3 DEF Update
<1>5. CASE Delete(k)
  <2>1. /\ truth'[k] = Target("REMOVE", truth[k]) /\ Target("REMOVE", truth[k]) = NoHash
        /\ truth[k] \in Hashes /\ listed' = listed
    BY <1>0, <1>5 DEF Delete, TypeOK, Target
  <2>2. CASE Follows(k) /\ SendEvent(k, "REMOVE", truth[k])
    <3>1. lastSent[k] # NoHash
      BY <1>0, <2>1, <2>2 DEF Base, Listing, Follows
    <3>2. /\ k \in excused => k \in excused'
          /\ Sends \/ (Quiet /\ k \in excused')
      BY <1>0, <1>1, <2>1, <2>2, <3>1
    <3> QED BY <2>1, <3>2
  <2>3. CASE ~ Follows(k) /\ NoEvent
    BY <1>2, <2>1, <2>3 DEF Follows
  <2> QED BY <1>5, <2>2, <2>3 DEF Delete
<1>6. CASE List(k)
  <2>1. /\ truth'[k] = Target("SYNC", truth[k]) /\ Target("SYNC", truth[k]) = truth[k]
        /\ truth[k] \in Hashes /\ listed' = listed \cup {k} /\ SendEvent(k, "SYNC", truth[k])
    BY <1>0, <1>6 DEF List, clusterVars, Target
  <2>2. /\ k \in excused => k \in excused'
        /\ \/ Sends
           \/ Quiet /\ k \in excused'
           \/ Quiet /\ excused' = excused /\ lastSent[k] = truth[k]
    BY <1>0, <1>1, <2>1
  <2> QED BY <1>6, <2>1, <2>2
<1> QED BY <1>3, <1>4, <1>5, <1>6

\* addMultiplexed puts an event of k into the queue of k: at the end.
LEMMA PushedLast ==
    ASSUME TypeOK, NEW k \in Keys, Shape(k), NEW m \in Event({NoKey}), m.key = k, m \in Sent(k),
           work'[k] = Push(work[k], Keyed(m))
    PROVE  /\ \A x \in Queue(k)' : x.dedupeKey = IF x.act = "CREATE" THEN NoKey ELSE <<k>>
           /\ \A a, b : QueuedBefore(k, a, b)' =>
                 /\ a \in Queue(k) /\ a.act = "CREATE" /\ b.act # "CREATE"
                 /\ b = Keyed(m) \/ QueuedBefore(k, a, b)
<1> DEFINE x == Keyed(m)
           q == work[k]
           p == Push(q, x)
<1>1. x \in Queueable /\ x.act = m.act /\ x.dedupeKey = IF m.act = "CREATE" THEN NoKey ELSE <<k>>
  BY KeyedFacts
<1>2. q \in Seq(Queueable) /\ Len(q) \in Nat /\ \A i \in 1..Len(q) : q[i] \in Queue(k)
  BY QueueTypes DEF Queue, Items
<1>3. Queue(k)' \subseteq Queue(k) \cup {x}
  BY PushOwn
<1>4. \A y \in Queue(k)' : y.dedupeKey = IF y.act = "CREATE" THEN NoKey ELSE <<k>>
  BY <1>1, <1>3 DEF Shape
<1> HIDE DEF x
<1>5. /\ p \in Seq(Queueable)
      /\ \/ /\ Len(p) = Len(q) + 1 /\ p[Len(q) + 1] = x
            /\ \A i \in 1..Len(q) : p[i] = q[i] /\ ~ Replaces(q, i, x)
         \/ /\ Len(p) = Len(q) /\ \E i \in 1..Len(q) : Replaces(q, i, x)
            /\ \A i \in 1..Len(q) : p[i] = IF Replaces(q, i, x) THEN x ELSE q[i]
  BY <1>1, <1>2, PushCases
<1>6. /\ \A i, j \in 1..Len(q) : i < j => QueuedBefore(k, q[i], q[j])
      /\ \A i, j \in 1..Len(q) : i < j => q[i].act = "CREATE" /\ q[j].act # "CREATE"
  <2>1. \A i, j \in 1..Len(q) : i < j => QueuedBefore(k, q[i], q[j])
    BY DEF QueuedBefore
  <2>2. \A a, b : QueuedBefore(k, a, b) => a.act = "CREATE" /\ b.act # "CREATE"
    BY DEF Shape
  <2> QED BY <2>1, <2>2
<1>7. m.act = "CREATE" => Len(q) = 0
  BY DEF Shape
<1>8. m.act # "CREATE" => \A i \in 1..Len(q) : Replaces(q, i, x) <=> q[i].act # "CREATE"
  <2>1. NoKey # <<k>>
    BY DEF NoKey
  <2> QED BY <1>1, <1>2, <2>1 DEF Shape, Replaces
<1>9. \A i, j \in 1..Len(p) : i < j =>
          /\ p[i] \in Queue(k) /\ p[i].act = "CREATE" /\ p[j].act # "CREATE"
          /\ p[j] = x \/ QueuedBefore(k, p[i], p[j])
  <2> SUFFICES ASSUME NEW i \in 1..Len(p), NEW j \in 1..Len(p), i < j
               PROVE  /\ p[i] \in Queue(k) /\ p[i].act = "CREATE" /\ p[j].act # "CREATE"
                      /\ p[j] = x \/ QueuedBefore(k, p[i], p[j])
    OBVIOUS
  <2>0. Len(p) \in Nat
    BY <1>5
  <2>1. m.act # "CREATE"
    <3> SUFFICES ASSUME m.act = "CREATE" PROVE FALSE
      OBVIOUS
    <3>1. Len(p) <= 1
      BY <1>5, <1>7
    <3>2. 1 <= i /\ i < j /\ j <= Len(p) /\ i \in Int /\ j \in Int
      BY <2>0
    <3> HIDE DEF p
    <3> QED BY <2>0, <3>1, <3>2
  <2>2. CASE /\ Len(p) = Len(q) + 1 /\ p[Len(q) + 1] = x
             /\ \A n \in 1..Len(q) : p[n] = q[n] /\ ~ Replaces(q, n, x)
    <3>1. i \in 1..Len(q) /\ p[i] = q[i] /\ q[i].act = "CREATE" /\ q[i] \in Queue(k)
      BY <1>2, <1>8, <2>1, <2>2
    <3>2. CASE j = Len(q) + 1
      BY <1>1, <2>1, <2>2, <3>1, <3>2
    <3>3. CASE j \in 1..Len(q)
      BY <1>6, <2>2, <3>1, <3>3
    <3> QED BY <1>2, <2>2, <3>2, <3>3
  <2>3. CASE /\ Len(p) = Len(q)
             /\ \A n \in 1..Len(q) : p[n] = IF Replaces(q, n, x) THEN x ELSE q[n]
    <3>1. i \in 1..Len(q) /\ j \in 1..Len(q) /\ q[i].act = "CREATE" /\ q[j].act # "CREATE"
      BY <1>6, <2>3
    <3>2. p[i] = q[i] /\ p[j] = x
      BY <1>8, <2>1, <2>3, <3>1
    <3> QED BY <1>1, <1>2, <2>1, <3>1, <3>2
  <2> QED BY <1>5, <2>2, <2>3
<1>10. ASSUME NEW a, NEW b, QueuedBefore(k, a, b)'
       PROVE  /\ a \in Queue(k) /\ a.act = "CREATE" /\ b.act # "CREATE"
              /\ b = x \/ QueuedBefore(k, a, b)
  <2>1. work'[k] = p
    BY DEF x
  <2> HIDE DEF p
  <2>2. PICK i, j \in 1..Len(p) : i < j /\ a = p[i] /\ b = p[j]
    BY <1>10, <2>1 DEF QueuedBefore
  <2> QED BY <1>9, <2>2
<1> QED BY <1>4, <1>10 DEF x

LEMMA ApartOrder ==
    ASSUME TypeOK, TypeOK', NEW k \in Keys, Order(k), Apart(k)
    PROVE  Order(k)'
<1>1. Queue(k)' = Queue(k) /\ \A a, b : QueuedBefore(k, a, b)' <=> QueuedBefore(k, a, b)
  BY QueueSame DEF Apart
<1>2. \A m : Says(m, k)' <=> Says(m, k)
  BY DEF Apart, Says
<1>3. Shape(k)'
  BY <1>1 DEF Apart, Order, Shape
<1>4. Ordered(k)'
  BY <1>1, <1>2 DEF Apart, Order, Ordered, Busy
<1> QED BY <1>3, <1>4 DEF Order

LEMMA ClusterOrder ==
    ASSUME TypeOK, TypeOK', NEW k \in Keys, Base(k), Order(k), NEW v \in Hashes,
           Create(k, v) \/ Update(k, v) \/ Delete(k) \/ List(k)
    PROVE  Order(k)'
<1>1. work' = work /\ handling' = handling
  BY DEF Create, Update, Delete, List, workerVars
<1>2. /\ Queue(k)' = Queue(k) /\ (Busy(k)' <=> Busy(k))
      /\ \A a, b : QueuedBefore(k, a, b)' <=> QueuedBefore(k, a, b)
  BY <1>1, QueueSame DEF Busy
<1>3. \/ \A e : e \in Sent(k) \cup Queue(k) \/ (Busy(k) /\ e = handling[k].msg) => ~ Says(e, k)'
      \/ \A e : e \in Sent(k) \cup Queue(k) \/ (Busy(k) /\ e = handling[k].msg) =>
                    (Says(e, k)' <=> Says(e, k))
  <2>1. CASE truth'[k] = NoHash
    BY <2>1, TurnsEvents
  <2>2. CASE \A x \in past[k] \cup {NoHash} : ~ Same(x, truth'[k])
    BY <2>2, TurnsEvents
  <2>3. CASE \A x : Same(x, truth'[k]) <=> Same(x, truth[k])
    BY <2>3, TurnsEvents
  <2> QED BY <2>1, <2>2, <2>3, Turns
<1>4. /\ \A a, b : SentBefore(k, a, b) => a \in Sent(k) /\ b \in Sent(k)
      /\ \A a, b : QueuedBefore(k, a, b) => a \in Queue(k) /\ b \in Queue(k)
  BY DEF SentBefore, Sent, QueuedBefore, Queue, Items
<1>5. ASSUME NEW m, Sent(k)' = Sent(k) \cup {m}, Says(m, k)', m.act = "CREATE" => past[k] = {},
             \A a, b : SentBefore(k, a, b)' => SentBefore(k, a, b) \/ (a \in Sent(k) /\ b = m)
      PROVE  Order(k)'
  <2>1. m.act = "CREATE" => Sent(k) = {} /\ work[k] = <<>>
    BY <1>5, NoPast
  <2>2. Shape(k)'
    BY <1>1, <1>2, <1>5, <2>1 DEF Order, Shape
  <2>3. Ordered(k)'
    BY <1>1, <1>2, <1>3, <1>4, <1>5 DEF Order, Ordered
  <2> QED BY <2>2, <2>3 DEF Order
<1>6. ASSUME Sent(k)' = Sent(k), \A a, b : SentBefore(k, a, b)' => SentBefore(k, a, b)
      PROVE  Order(k)'
  <2>1. Shape(k)'
    BY <1>1, <1>2, <1>6 DEF Order, Shape
  <2>2. Ordered(k)'
    BY <1>1, <1>2, <1>3, <1>4, <1>6 DEF Order, Ordered
  <2> QED BY <2>1, <2>2 DEF Order
<1> QED BY <1>5, <1>6, ClusterSends

\* Says is about the target of an event, so it is the same for the event in the queue.
LEMMA KeyedSays ==
    ASSUME NEW k \in Keys, NEW m \in Event({NoKey})
    PROVE  Says(Keyed(m), k) <=> Says(m, k)
BY KeyedFacts DEF Says, Stored

LEMMA HandleOrder ==
    ASSUME TypeOK, TypeOK', NEW k \in Keys, Order(k), HandleEventOf(k)
    PROVE  Order(k)'
<1>1. truth' = truth /\ handling' = handling
  BY DEF HandleEventOf, HandleEvent, clusterVars
<1>2. PICK m \in Sent(k) :
          /\ Sent(k) = Sent(k)' \cup {m} /\ m \in Event({NoKey}) /\ m.key = k
          /\ \A b \in Sent(k)' : SentBefore(k, m, b)
          /\ \A a, b : SentBefore(k, a, b)' => SentBefore(k, a, b)
          /\ work'[k] = Push(work[k], Keyed(m)) \/ work'[k] = work[k]
  <2>1. PICK m \in Sent(k) :
          /\ Sent(k) = Sent(k)' \cup {m} /\ m \in Event({NoKey}) /\ m.key = k
          /\ \A b \in Sent(k)' : SentBefore(k, m, b)
          /\ \A a, b : SentBefore(k, a, b)' => SentBefore(k, a, b)
          /\ \/ work'[k] = Push(work[k], Keyed(m))
             \/ work'[k] = work[k] /\ k \notin SkipKeys /\ m.act # "REMOVE" /\ GetValue(ded, k) = m.val
    BY HandleOwn
  <2> QED BY <2>1
<1>3. /\ \A e : Says(e, k)' <=> Says(e, k)
      /\ (Busy(k)' <=> Busy(k)) /\ (Says(Keyed(m), k) <=> Says(m, k))
  BY <1>1, <1>2, KeyedSays DEF Says, Busy
<1>4. \A b \in Sent(k)' : b \in Sent(k) /\ b.act # "CREATE" /\ (Says(m, k) => Says(b, k))
  BY <1>2 DEF Order, Shape, Ordered
<1>5. CASE work'[k] = work[k]
  <2>1. Queue(k)' = Queue(k) /\ \A a, b : QueuedBefore(k, a, b)' <=> QueuedBefore(k, a, b)
    BY <1>5, QueueSame
  <2>2. Shape(k)'
    BY <1>2, <1>4, <2>1 DEF Order, Shape
  <2>3. Ordered(k)'
    BY <1>1, <1>2, <1>3, <1>4, <2>1 DEF Order, Ordered
  <2> QED BY <2>2, <2>3 DEF Order
<1>6. CASE work'[k] = Push(work[k], Keyed(m))
  <2>1. /\ \A x \in Queue(k)' : x.dedupeKey = IF x.act = "CREATE" THEN NoKey ELSE <<k>>
        /\ \A a, b : QueuedBefore(k, a, b)' =>
              /\ a \in Queue(k) /\ a.act = "CREATE" /\ b.act # "CREATE"
              /\ b = Keyed(m) \/ QueuedBefore(k, a, b)
    BY <1>2, <1>6, PushedLast DEF Order
  <2>2. Queue(k)' \subseteq Queue(k) \cup {Keyed(m)}
    BY <1>2, <1>6, PushOwn
  <2>3. Shape(k)'
    BY <1>2, <1>4, <2>1 DEF Order, Shape
  <2>4. \A a \in Queue(k) : Says(a, k) => Says(m, k)
    BY <1>2 DEF Order, Ordered
  <2>5. Busy(k) /\ Says(handling[k].msg, k) => Says(m, k)
    BY <1>2 DEF Order, Ordered
  <2>6. Ordered(k)'
    BY <1>1, <1>2, <1>3, <1>4, <2>1, <2>2, <2>4, <2>5 DEF Order, Ordered
  <2> QED BY <2>3, <2>6 DEF Order
<1> QED BY <1>2, <1>5, <1>6

LEMMA OrderStep ==
    ASSUME TypeOK, TypeOK', NEW k \in Keys, Base(k), Order(k), [Next]_vars
    PROVE  Order(k)'
<1>1. CASE Apart(k)
  BY <1>1, ApartOrder
<1>2. ASSUME NEW v \in Hashes, Create(k, v) \/ Update(k, v) PROVE Order(k)'
  BY <1>2, ClusterOrder
<1>3. CASE Delete(k) \/ List(k)
  <2>1. \E v \in Hashes : TRUE
    BY <1>3 DEF Delete, List, TypeOK
  <2> QED BY <1>3, <2>1, ClusterOrder
<1>4. CASE HandleEventOf(k)
  BY <1>4, HandleOrder
<1>5. CASE Connect \/ Crash
  <2>1. wire' = <<>> /\ work' = [j \in Keys |-> <<>>] /\ handling' = AllIdle
    BY <1>5 DEF Connect, Crash
  <2>2. /\ Sent(k)' = {} /\ Queue(k)' = {} /\ ~ Busy(k)'
        /\ \A a, b : ~ SentBefore(k, a, b)' /\ ~ QueuedBefore(k, a, b)'
    BY <2>1, EndedFacts
  <2> QED BY <2>2 DEF Order, Shape, Ordered
\* The other steps leave the wire and the queue alone, or take from them.
<1>6. ASSUME truth' = truth, Sent(k)' = Sent(k),
             \A a, b : SentBefore(k, a, b)' => SentBefore(k, a, b),
             work'[k] = work[k], Busy(k)' => Busy(k) /\ handling'[k].msg = handling[k].msg
      PROVE  Order(k)'
  <2>1. Queue(k)' = Queue(k) /\ \A a, b : QueuedBefore(k, a, b)' <=> QueuedBefore(k, a, b)
    BY <1>6, QueueSame
  <2>2. \A e : Says(e, k)' <=> Says(e, k)
    BY <1>6 DEF Says
  <2>3. Shape(k)'
    BY <1>6, <2>1 DEF Order, Shape
  <2>4. Ordered(k)'
    BY <1>6, <2>1, <2>2 DEF Order, Ordered
  <2> QED BY <2>3, <2>4 DEF Order
<1>7. CASE NewConnection \/ Break
  <2>1. truth' = truth /\ work' = work /\ handling' = handling /\ wire' = wire
    BY <1>7 DEF NewConnection, Break, clusterVars, workerVars
  <2>2. Sent(k)' = Sent(k) /\ \A a, b : SentBefore(k, a, b)' => SentBefore(k, a, b)
    BY <2>1, WireSame
  <2> QED BY <1>6, <2>1, <2>2 DEF Busy
<1>8. CASE HandleSynced
  <2>1. truth' = truth /\ work' = work /\ handling' = handling
    BY <1>8 DEF HandleSynced, clusterVars, workerVars
  <2>2. Sent(k)' = Sent(k) /\ \A a, b : SentBefore(k, a, b)' => SentBefore(k, a, b)
    BY <1>8, SyncedFacts
  <2> QED BY <1>6, <2>1, <2>2 DEF Busy
<1>9. CASE FlushHashes
  <2>1. truth' = truth /\ work' = work /\ handling' = handling /\ wire' = wire
    BY <1>9 DEF FlushHashes, clusterVars, workerVars
  <2>2. Sent(k)' = Sent(k) /\ \A a, b : SentBefore(k, a, b)' => SentBefore(k, a, b)
    BY <2>1, WireSame
  <2> QED BY <1>6, <2>1, <2>2 DEF Busy
<1>10. CASE StartWork(k)
  <2>1. /\ truth' = truth /\ Sent(k)' = Sent(k)
        /\ \A a, b : SentBefore(k, a, b)' => SentBefore(k, a, b)
    BY <1>10, WorkFrame
  <2>2. /\ work[k] # <<>> /\ Queue(k) = Queue(k)' \cup {handling'[k].msg}
        /\ \A a, b : QueuedBefore(k, a, b)' => QueuedBefore(k, a, b)
        /\ \A b \in Queue(k)' : QueuedBefore(k, handling'[k].msg, b)
    BY <1>10, StartOwn
  <2>3. \A e : Says(e, k)' <=> Says(e, k)
    BY <2>1 DEF Says
  <2>4. Shape(k)'
    BY <2>1, <2>2 DEF Order, Shape
  <2>5. Ordered(k)'
    BY <2>1, <2>2, <2>3 DEF Order, Ordered
  <2> QED BY <2>4, <2>5 DEF Order
<1>11. CASE Write(k) \/ Mark(k) \/ Fail(k) \/ OldWrite(k) \/ OldMark(k) \/ OldCancel(k)
  <2>1. /\ truth' = truth /\ Sent(k)' = Sent(k)
        /\ \A a, b : SentBefore(k, a, b)' => SentBefore(k, a, b)
    BY <1>11, WorkFrame
  <2>2. work' = work
    BY <1>11 DEF Write, Mark, Fail, OldWrite, OldMark, OldCancel
  <2>3. Busy(k)' => Busy(k) /\ handling'[k].msg = handling[k].msg
    <3>1. CASE Write(k)
      BY <3>1, WriteOwn
    <3>2. CASE Mark(k) \/ Fail(k)
      BY <3>2 DEF Mark, Fail, TypeOK, Busy
    <3>3. CASE OldWrite(k) \/ OldMark(k) \/ OldCancel(k)
      BY <3>3 DEF OldWrite, OldMark, OldCancel, Busy
    <3> QED BY <1>11, <3>1, <3>2, <3>3
  <2> QED BY <1>6, <2>1, <2>2, <2>3
<1> QED BY <1>1, <1>2, <1>3, <1>4, <1>5, <1>7, <1>8, <1>9, <1>10, <1>11, Steps DEF Concerns
-----------------------------------------------------------------------------
\* Everything on its way to Central is up to date.
AllSay(k) ==
    /\ \A m \in Sent(k) \cup Queue(k) : Says(m, k)
    /\ handling[k].phase = "pulled" => Says(handling[k].msg, k)

\* An event that is up to date is waiting for the database; or for the handler at least.
Waiting(k) ==
    \/ \E m \in Queue(k) : Says(m, k)
    \/ handling[k].phase = "pulled" /\ Says(handling[k].msg, k)
Coming(k) == Waiting(k) \/ \E m \in Sent(k) : Says(m, k)

\* The database is up to date and stays so.
Done(k) == Same(db[k], truth[k]) /\ AllSay(k)

\* Until reconciliation, an object with events in Central is in its map.
Held(k) == ~ closed /\ (work[k] # <<>> \/ Busy(k)) => k \in recon

\* What the listener has delivered heals Central's copy.
Heals(k) == up /\ k \in listed /\ k \notin excused => Coming(k) \/ Done(k)

\* So does what the deduper has accepted in this connection ...
Received(k) ==
    /\ up /\ k \notin excused /\ truth[k] # NoHash
    /\ ded.received[k].processed /\ Same(ded.received[k].val, truth[k])
    => Waiting(k) \/ Done(k)

\* ... and before the listing, what Sensor takes for unchanged is stored.
Knows(k) ==
    /\ up /\ k \notin listed /\ k \notin excused /\ truth[k] # NoHash
    /\ Same(lastSent[k], truth[k])
    => Same(db[k], truth[k])

\* Reconciliation removes what is gone.
Gone(k) ==
    up /\ k \notin listed /\ k \notin excused /\ truth[k] = NoHash /\ closed => db[k] = NoHash

\* The successful hash of an existing object is that of the stored content, except for
\* misled objects; and the persisted one at least of an object that was stored.
Hashed(k) ==
    truth[k] # NoHash =>
        /\ Same(ded.successfullyProcessed[k].val, truth[k]) =>
              AllSay(k) /\ (Same(db[k], truth[k]) \/ (db[k] = NoHash /\ k \in misled))
        /\ Same(persisted[k], truth[k]) =>
              AllSay(k) /\ (Same(db[k], truth[k]) \/ db[k] = NoHash)

\* What a worker is about to mark is in the database.
Written(k) ==
    truth[k] # NoHash =>
        /\ handling[k].phase = "written" /\ Says(handling[k].msg, k) => Same(db[k], truth[k])
        /\ old[k].phase = "written" => Same(db[k], truth[k])

Healing(k) ==
    Held(k) /\ Heals(k) /\ Received(k) /\ Knows(k) /\ Gone(k) /\ Hashed(k) /\ Written(k)

LEMMA SameFlow ==
    ASSUME NEW k \in Keys, truth'[k] = truth[k], Sent(k)' = Sent(k), Queue(k)' = Queue(k),
           handling'[k] = handling[k]
    PROVE  (AllSay(k)' <=> AllSay(k)) /\ (Waiting(k)' <=> Waiting(k)) /\ (Coming(k)' <=> Coming(k))
<1>1. \A e : Says(e, k)' <=> Says(e, k)
  BY DEF Says
<1> QED BY <1>1 DEF AllSay, Waiting, Coming

LEMMA InitHealing ==
    ASSUME Init, NEW k \in Keys
    PROVE  Order(k) /\ Healing(k)
<1>1. 1..Len(wire) = {} /\ work[k] = <<>> /\ 1..Len(work[k]) = {} /\ handling[k] = Idle
      /\ truth[k] = NoHash /\ ~ up
  BY IdleType DEF Init
<1>2. Sent(k) = {} /\ Queue(k) = {} /\ ~ Busy(k)
      /\ \A a, b : ~ SentBefore(k, a, b) /\ ~ QueuedBefore(k, a, b)
  BY <1>1 DEF Sent, Queue, Items, Busy, SentBefore, QueuedBefore
<1>3. Order(k)
  BY <1>2 DEF Order, Shape, Ordered
<1> QED BY <1>1, <1>2, <1>3 DEF Healing, Held, Heals, Received, Knows, Gone, Hashed, Written

LEMMA ApartHealing ==
    ASSUME TypeOK, NEW k \in Keys, Healing(k), Apart(k)
    PROVE  Healing(k)'
<1>1. Queue(k)' = Queue(k)
  BY QueueSame DEF Apart
<1>2. (AllSay(k)' <=> AllSay(k)) /\ (Waiting(k)' <=> Waiting(k)) /\ (Coming(k)' <=> Coming(k))
  BY <1>1, SameFlow DEF Apart
<1>3. Held(k)'
  BY DEF Apart, Healing, Held, Busy
<1>4. Heals(k)' /\ Received(k)'
  BY <1>2 DEF Apart, Healing, Heals, Received, Done
<1>5. Knows(k)' /\ Gone(k)'
  BY DEF Apart, Healing, Knows, Gone
<1>6. Hashed(k)'
  BY <1>2 DEF Apart, Healing, Hashed
<1>7. Written(k)'
  BY DEF Apart, Healing, Written, Says
<1> QED BY <1>3, <1>4, <1>5, <1>6, <1>7 DEF Healing

LEMMA ClusterHealing ==
    ASSUME TypeOK, Conn, NEW k \in Keys, Base(k), Healing(k), NEW v \in Hashes,
           Create(k, v) \/ Update(k, v) \/ Delete(k) \/ List(k)
    PROVE  Healing(k)'
<1>1. /\ work' = work /\ handling' = handling /\ old' = old /\ db' = db
      /\ persisted' = persisted /\ ded' = ded /\ up' = up /\ synced' = synced
      /\ recon' = recon /\ closed' = closed /\ misled' = misled
  BY DEF Create, Update, Delete, List, handlerVars, workerVars, dbVars, disturbances
<1>2. Queue(k)' = Queue(k) /\ (Busy(k)' <=> Busy(k))
  BY <1>1, QueueSame DEF Busy
<1>3. /\ k \in excused => k \in excused'
      /\ k \in listed => k \in listed'
      /\ \/ \E m : Sent(k)' = Sent(k) \cup {m} /\ Says(m, k)'
         \/ /\ Sent(k)' = Sent(k)
            /\ up /\ k \in listed' /\ k \notin excused' =>
                  List(k) /\ lastSent[k] = truth[k] /\ k \notin excused
  BY ClusterSends
<1>4. Sent(k) \subseteq Sent(k)' /\ \A e \in Sent(k)' : e \in Sent(k) \/ Says(e, k)'
  BY <1>3
<1>5. Held(k)'
  BY <1>1, <1>2 DEF Healing, Held
<1>6. Heals(k)'
  <2> SUFFICES ASSUME up', k \in listed', k \notin excused'
               PROVE  Coming(k)' \/ Done(k)'
    BY DEF Heals
  <2>1. CASE \E m : Sent(k)' = Sent(k) \cup {m} /\ Says(m, k)'
    BY <2>1 DEF Coming
  <2>2. CASE Sent(k)' = Sent(k) /\ List(k) /\ lastSent[k] = truth[k] /\ k \notin excused
    <3>1. up /\ k \notin listed /\ truth[k] # NoHash /\ truth' = truth
      BY <2>2 DEF List, clusterVars
    <3>2. Same(db[k], truth[k])
      BY <2>2, <3>1, SameFacts DEF Healing, Knows
    <3>3. Sent(k) = {} /\ work[k] = <<>> /\ ~ Busy(k)
      BY <3>1 DEF Base, PipeListed, Piped
    <3>4. Queue(k) = {} /\ handling[k].phase # "pulled"
      <4>1. 1..Len(work[k]) = {}
        BY <3>3
      <4> QED BY <3>3, <4>1, HandFacts DEF Queue, Items, Busy
    <3> QED BY <1>1, <1>2, <2>2, <3>1, <3>2, <3>3, <3>4 DEF Done, AllSay
  <2> QED BY <1>1, <1>3, <2>1, <2>2
<1>7. CASE truth'[k] = NoHash /\ truth[k] # NoHash
  <2>1. Received(k)' /\ Knows(k)' /\ Hashed(k)' /\ Written(k)'
    BY <1>7 DEF Received, Knows, Hashed, Written
  <2>2. up /\ k \notin listed => ~ closed
    BY <1>7 DEF Conn, Base, Missed
  <2>3. Gone(k)'
    BY <1>1, <1>3, <2>2 DEF Gone
  <2> QED BY <1>5, <1>6, <2>1, <2>3 DEF Healing
<1>8. CASE /\ truth'[k] # NoHash /\ (Exact \/ past[k] = {})
           /\ \A x \in past[k] \cup {NoHash} : ~ Same(x, truth'[k])
  <2>1. /\ ~ Same(ded.received[k].val, truth'[k]) /\ ~ Same(persisted[k], truth'[k])
        /\ ~ Same(ded.successfullyProcessed[k].val, truth'[k]) /\ ~ Same(lastSent[k], truth'[k])
    BY <1>8 DEF Base, Values, Had
  <2>2. Received(k)' /\ Hashed(k)' /\ Gone(k)'
    BY <1>1, <1>8, <2>1 DEF Received, Hashed, Gone
  <2>3. Knows(k)'
    <3>1. k \notin listed' => lastSent'[k] = lastSent[k]
      BY <1>1, <1>3 DEF Create, Update, Delete, List, NoEvent, Follows
    <3> QED BY <1>1, <2>1, <3>1 DEF Knows
  <2>4. old[k].phase # "written"
    <3>1. Exact => old[k] = Idle
      BY IdleType DEF Conn, Exact
    <3>2. past[k] = {} => old[k] = Idle
      BY NoPast
    <3> QED BY <1>8, <3>1, <3>2, HandFacts
  <2>5. Busy(k) => ~ Same(Stored(handling[k].msg), truth'[k])
    <3>1. PICK e : e = handling[k].msg
      OBVIOUS
    <3>2. Busy(k) => ~ Says(e, k)'
      BY <1>8, <3>1, TurnsEvents
    <3> QED BY <3>1, <3>2 DEF Says
  <2>6. handling[k].phase = "written" => Busy(k)
    BY HandFacts DEF Busy
  <2>7. Written(k)'
    BY <1>1, <2>4, <2>5, <2>6 DEF Written, Says
  <2> QED BY <1>5, <1>6, <2>2, <2>3, <2>7 DEF Healing
<1>9. CASE /\ truth'[k] # NoHash /\ truth[k] # NoHash
           /\ \A x : Same(x, truth'[k]) <=> Same(x, truth[k])
  <2>1. \A e : Says(e, k)' <=> Says(e, k)
    BY <1>9 DEF Says
  <2>2. (AllSay(k) => AllSay(k)') /\ (Waiting(k) => Waiting(k)')
    BY <1>1, <1>2, <1>4, <2>1 DEF AllSay, Waiting
  <2>3. Done(k) => Done(k)'
    BY <1>1, <1>9, <2>2 DEF Done
  <2>4. Received(k)'
    BY <1>1, <1>3, <1>9, <2>2, <2>3 DEF Healing, Received
  <2>5. Hashed(k)'
    BY <1>1, <1>9, <2>2 DEF Healing, Hashed
  <2>6. Gone(k)'
    BY <1>9 DEF Gone
  <2>7. Written(k)'
    BY <1>1, <1>9 DEF Healing, Written, Says
  <2>8. Knows(k)'
    <3>1. k \notin listed' => lastSent'[k] = lastSent[k]
      BY <1>1, <1>3 DEF Create, Update, Delete, List, NoEvent, Follows
    <3> QED BY <1>1, <1>3, <1>9, <3>1 DEF Healing, Knows
  <2> QED BY <1>5, <1>6, <2>4, <2>5, <2>6, <2>7, <2>8 DEF Healing
<1> QED BY <1>7, <1>8, <1>9, Turns

\* The handler takes an event of k: what waited for it waits for the worker now, or the
\* deduper knows that there is no need to.
LEMMA HandleHealing ==
    ASSUME TypeOK, Conn, NEW k \in Keys, Base(k), Order(k), Healing(k), HandleEventOf(k)
    PROVE  Healing(k)'
<1>1. /\ truth' = truth /\ db' = db /\ persisted' = persisted /\ handling' = handling
      /\ old' = old /\ up' = up /\ listed' = listed /\ lastSent' = lastSent
      /\ closed' = closed /\ excused' = excused /\ misled' = misled
  BY DEF HandleEventOf, HandleEvent, clusterVars, sensorVars, dbVars, disturbances
<1>2. PICK m \in Sent(k) :
          /\ Sent(k) = Sent(k)' \cup {m} /\ m \in Event({NoKey}) /\ m.key = k
          /\ k \in recon \/ ~ closed => k \in recon'
          /\ \/ work'[k] = Push(work[k], Keyed(m))
             \/ /\ work'[k] = work[k] /\ k \notin SkipKeys /\ m.act # "REMOVE"
                /\ GetValue(ded, k) = m.val
          /\ k \in SkipKeys =>
                /\ ded'.received[k] = ded.received[k]
                /\ ded'.successfullyProcessed[k] = ded.successfullyProcessed[k]
          /\ k \notin SkipKeys /\ m.act = "REMOVE" =>
                ded'.received[k] = NoEntry /\ ded'.successfullyProcessed[k] = NoEntry
          /\ k \notin SkipKeys /\ m.act # "REMOVE" =>
                /\ ded'.received[k] = IF GetValue(ded, k) # m.val
                                      THEN [val |-> m.val, processed |-> TRUE]
                                      ELSE ded.received[k]
                /\ ded'.successfullyProcessed[k].val = ded.successfullyProcessed[k].val
  BY HandleOwn
<1>3. k \in listed
  BY <1>2 DEF Base, PipeListed, Piped
<1>4. NoEntry.val = NoHash /\ ~ NoEntry.processed
  BY DEF NoEntry
<1>5. \/ /\ work'[k] = work[k] /\ k \notin SkipKeys /\ m.act # "REMOVE"
         /\ GetValue(ded, k) = m.val /\ ded'.received[k] = ded.received[k]
      \/ /\ work'[k] = Push(work[k], Keyed(m))
         /\ \/ ded'.received[k] = ded.received[k]
            \/ ~ ded'.received[k].processed
            \/ m.act # "REMOVE" /\ ded'.received[k].val = m.val
  BY <1>2, <1>4
<1>6. ded'.successfullyProcessed[k].val \in {NoHash, ded.successfullyProcessed[k].val}
  BY <1>2, <1>4
<1>7. /\ \A e : Says(e, k)' <=> Says(e, k)
      /\ Says(Keyed(m), k) <=> Says(m, k)
  BY <1>1, <1>2, KeyedSays DEF Says
<1>8. \/ work'[k] = work[k] /\ Queue(k)' = Queue(k)
      \/ /\ work'[k] = Push(work[k], Keyed(m))
         /\ Queue(k)' \subseteq Queue(k) \cup {Keyed(m)}
  BY <1>2, <1>5, QueueSame, PushOwn
<1>9. AllSay(k) => AllSay(k)'
  BY <1>1, <1>2, <1>7, <1>8 DEF AllSay
<1>10. Done(k) => Done(k)'
  BY <1>1, <1>9 DEF Done
<1>11. work'[k] = Push(work[k], Keyed(m)) /\ Says(m, k) => Waiting(k)'
  BY <1>7, <1>2, PushOwn DEF Waiting
<1>12. Waiting(k) => Waiting(k)'
  <2>1. CASE handling[k].phase = "pulled" /\ Says(handling[k].msg, k)
    BY <1>1, <2>1 DEF Waiting, Says
  <2>2. CASE \E x \in Queue(k) : Says(x, k)
    <3>1. Says(m, k)
      BY <1>2, <2>2 DEF Order, Ordered
    <3>2. CASE work'[k] = work[k]
      <4>1. Queue(k)' = Queue(k)
        BY <3>2, QueueSame
      <4> QED BY <1>7, <2>2, <4>1 DEF Waiting
    <3> QED BY <1>5, <1>11, <3>1, <3>2
  <2> QED BY <2>1, <2>2 DEF Waiting
<1>13. Held(k)'
  BY <1>1, <1>2 DEF Held
<1>14. Knows(k)' /\ Gone(k)'
  BY <1>1, <1>3 DEF Knows, Gone
<1>15. Written(k)'
  BY <1>1 DEF Healing, Written, Says
<1>16. Hashed(k)'
  BY <1>1, <1>6, <1>9, SameFacts DEF Healing, Hashed
<1>17. Received(k)'
  <2> SUFFICES ASSUME up', k \notin excused', truth'[k] # NoHash, ded'.received[k].processed,
                      Same(ded'.received[k].val, truth'[k])
               PROVE  Waiting(k)' \/ Done(k)'
    BY DEF Received
  <2>1. CASE ded'.received[k] = ded.received[k]
    BY <1>1, <1>10, <1>12, <2>1 DEF Healing, Received
  <2>2. CASE /\ work'[k] = Push(work[k], Keyed(m)) /\ m.act # "REMOVE"
             /\ ded'.received[k].val = m.val
    <3>1. Says(m, k)
      BY <1>1, <2>2 DEF Says, Stored
    <3> QED BY <1>11, <2>2, <3>1
  <2> QED BY <1>5, <2>1, <2>2
<1>18. Heals(k)'
  <2> SUFFICES ASSUME up', k \in listed', k \notin excused' PROVE Coming(k)' \/ Done(k)'
    BY DEF Heals
  <2>1. Coming(k) \/ Done(k)
    BY <1>1 DEF Healing, Heals
  <2>2. CASE \E x \in Sent(k)' : Says(x, k)
    BY <1>7, <2>2 DEF Coming
  <2>3. CASE Waiting(k) \/ Done(k)
    BY <1>10, <1>12, <2>3 DEF Coming
  <2>4. CASE Says(m, k) /\ work'[k] = Push(work[k], Keyed(m))
    BY <1>11, <2>4 DEF Coming
  <2>5. CASE /\ Says(m, k) /\ m.act # "REMOVE" /\ GetValue(ded, k) = m.val
    <3>1. m.val \in Hashes /\ m.val # NoHash /\ Same(m.val, truth[k])
      BY <1>2, <2>5, EventFacts, NoHashAssumption DEF Says, Stored
    <3>2. truth[k] # NoHash
      BY <3>1, SameFacts
    <3>3. CASE ded.received[k].processed /\ ded.received[k].val = m.val
      <4>1. Waiting(k) \/ Done(k)
        BY <1>1, <3>1, <3>2, <3>3 DEF Healing, Received
      <4> QED BY <1>10, <1>12, <4>1 DEF Coming
    <3>4. CASE ded.successfullyProcessed[k].val = m.val
      <4>1. k \notin misled
        BY <1>1, <1>3 DEF Conn
      <4>2. Done(k)
        BY <3>1, <3>2, <3>4, <4>1 DEF Healing, Hashed, Done
      <4> QED BY <1>10, <4>2
    <3> QED BY <2>5, <3>3, <3>4 DEF GetValue
  <2> QED BY <1>2, <1>5, <2>1, <2>2, <2>3, <2>4, <2>5 DEF Coming
<1> QED BY <1>13, <1>14, <1>15, <1>16, <1>17, <1>18 DEF Healing

\* Reconciliation deletes what is gone, and not what exists.  If messages may be dropped it
\* deletes existing objects: with their hashes, or they are misled.
LEMMA SyncedHealing ==
    ASSUME TypeOK, Conn, NEW k \in Keys, Base(k), Spared(k), Healing(k), HandleSynced,
           "drop" \in Faults => "straggler" \notin Faults
    PROVE  Healing(k)'
<1>1. /\ truth' = truth /\ persisted' = persisted /\ handling' = handling /\ work' = work
      /\ old' = old /\ up' = up /\ listed' = listed /\ lastSent' = lastSent
  BY DEF HandleSynced, clusterVars, sensorVars, workerVars
<1>2. /\ Sent(k)' = Sent(k)
      /\ ded'.received[k] = ded.received[k]
      /\ ded'.successfullyProcessed[k] \in {NoEntry, ded.successfullyProcessed[k]}
      /\ db'[k] = db[k] \/ (db'[k] = NoHash /\ k \notin recon')
      /\ k \notin recon' /\ k \notin excused' => db'[k] = NoHash
      /\ k \in excused => k \in excused'
      /\ k \in misled => k \in misled'
      /\ k \in NotSynced(ded) => ded'.successfullyProcessed[k] = NoEntry
      /\ /\ k \in excused \ NotSynced(ded) /\ db[k] # NoHash /\ db'[k] = NoHash
         /\ Present(ded'.successfullyProcessed[k])
         => k \in misled'
      /\ recon' = recon \cup wire[1].unchangedIDs /\ wire[1].act = "Synced"
      /\ 1 \in 1..Len(wire) /\ ~ closed /\ closed' /\ wire # <<>>
  BY SyncedFacts
<1>3. synced /\ wire[1].unchangedIDs = unchanged /\ recon' \subseteq listed
      /\ (up /\ truth[k] # NoHash => k \in listed)
  BY <1>2 DEF Conn, Base, Missed
<1>4. Queue(k)' = Queue(k)
  BY <1>1, QueueSame
<1>5. (AllSay(k)' <=> AllSay(k)) /\ (Waiting(k)' <=> Waiting(k)) /\ (Coming(k)' <=> Coming(k))
  BY <1>1, <1>2, <1>4, SameFlow
<1>6. NoEntry.val = NoHash
  BY DEF NoEntry
<1>7. truth[k] # NoHash /\ (k \notin excused \/ "drop" \notin Faults) => db'[k] = db[k]
  BY SyncedSpares
<1>8. Held(k)'
  BY <1>2 DEF Held
<1>9. Done(k) /\ k \notin excused => Done(k)'
  BY <1>1, <1>2, <1>5, <1>7, SameFacts DEF Done
<1>10. Heals(k)' /\ Received(k)'
  BY <1>1, <1>2, <1>5, <1>9 DEF Healing, Heals, Received
<1>11. Knows(k)' /\ Gone(k)'
  BY <1>1, <1>2, <1>3 DEF Knows, Gone
<1>12. Hashed(k)'
  <2> SUFFICES ASSUME truth[k] # NoHash PROVE Hashed(k)'
    BY <1>1 DEF Hashed
  <2>1. Same(persisted[k], truth[k]) => AllSay(k) /\ (Same(db'[k], truth[k]) \/ db'[k] = NoHash)
    BY <1>2 DEF Healing, Hashed
  <2>2. ASSUME Same(ded'.successfullyProcessed[k].val, truth[k])
        PROVE  AllSay(k) /\ (Same(db'[k], truth[k]) \/ (db'[k] = NoHash /\ k \in misled'))
    <3>1. ded'.successfullyProcessed[k] = ded.successfullyProcessed[k] /\ k \notin NotSynced(ded)
          /\ ded.successfullyProcessed[k].val # NoHash
      BY <1>2, <1>6, <2>2, SameFacts
    <3>2. AllSay(k) /\ (Same(db[k], truth[k]) \/ (db[k] = NoHash /\ k \in misled))
      BY <2>2, <3>1 DEF Healing, Hashed
    <3>3. CASE db'[k] = db[k]
      BY <1>2, <3>2, <3>3
    <3>4. CASE db'[k] # db[k]
      <4>1. k \in excused /\ db'[k] = NoHash /\ db[k] # NoHash
        BY <1>2, <1>7, <3>4
      <4>2. Present(ded'.successfullyProcessed[k])
        BY <3>1 DEF Present
      <4> QED BY <1>2, <3>1, <3>2, <4>1, <4>2
    <3> QED BY <3>3, <3>4
  <2> QED BY <1>1, <1>5, <2>1, <2>2 DEF Hashed
<1>13. Written(k)'
  <2>1. truth[k] # NoHash /\ handling[k].phase = "written" => db'[k] = db[k]
    <3>1. handling[k].phase = "written" => Busy(k)
      BY HandFacts DEF Busy
    <3>2. Busy(k) => k \in recon'
      BY <1>2, <1>3 DEF Healing, Held
    <3> QED BY <1>2, <3>1, <3>2
  <2>2. truth[k] # NoHash /\ old[k].phase = "written" => db'[k] = db[k]
    <3>1. old[k].phase = "written" => "straggler" \in Faults
      BY HandFacts, IdleType DEF Conn
    <3> QED BY <1>7, <3>1
  <2> QED BY <1>1, <2>1, <2>2 DEF Healing, Written, Says
<1> QED BY <1>8, <1>10, <1>11, <1>12, <1>13 DEF Healing

\* While the object exists, and only existence counts, every event is up to date.
LEMMA ExistsSays ==
    ASSUME TypeOK, NEW k \in Keys, Base(k), truth[k] # NoHash, ~ Exact
    PROVE  /\ AllSay(k) /\ (Busy(k) => Says(handling[k].msg, k))
           /\ old[k] # Idle => Says(old[k].msg, k)
<1>1. \A m : m.act # "REMOVE" /\ m.val \in Hashes => Says(m, k)
  BY NoHashAssumption, SameFacts DEF Says, Stored
<1>2. past[k] \subseteq Hashes
  BY DEF TypeOK
<1>3. \A m \in Sent(k) \cup Queue(k) : Says(m, k)
  BY <1>1, <1>2 DEF Base, Values, Had, NoRemove
<1>4. /\ Busy(k) => Says(handling[k].msg, k)
      /\ old[k] # Idle => Says(old[k].msg, k)
  BY <1>1, <1>2 DEF Base, Values, Had, NoRemove
<1>5. handling[k].phase = "pulled" => Busy(k)
  BY HandFacts DEF Busy
<1> QED BY <1>3, <1>4, <1>5 DEF AllSay

\* A new connection, or a rival, only marks hashes as unseen.
LEMMA NewConnectionHealing ==
    ASSUME TypeOK, NEW k \in Keys, Healing(k), NewConnection
    PROVE  Healing(k)'
<1>1. /\ truth' = truth /\ db' = db /\ persisted' = persisted /\ misled' = misled
      /\ work' = work /\ handling' = handling /\ old' = old /\ recon' = recon /\ closed' = closed
      /\ listed' = listed /\ lastSent' = lastSent /\ excused' = excused
  BY DEF NewConnection, clusterVars, workerVars, dbVars, disturbances
<1>2. /\ up' = up /\ Sent(k)' = Sent(k) /\ ~ ded'.received[k].processed
      /\ ded'.successfullyProcessed[k].val = ded.successfullyProcessed[k].val
  BY NewConnectionFacts
<1>3. Queue(k)' = Queue(k) /\ (Busy(k)' <=> Busy(k))
  BY <1>1, QueueSame DEF Busy
<1>4. (AllSay(k)' <=> AllSay(k)) /\ (Coming(k)' <=> Coming(k))
  BY <1>1, <1>2, <1>3, SameFlow
<1>5. Heals(k)' /\ Received(k)' /\ Knows(k)' /\ Gone(k)'
  BY <1>1, <1>2, <1>4 DEF Healing, Heals, Done, Received, Knows, Gone
<1>6. Held(k)' /\ Written(k)'
  BY <1>1, <1>3 DEF Healing, Held, Written, Says
<1>7. Hashed(k)'
  BY <1>1, <1>2, <1>4 DEF Healing, Hashed
<1> QED BY <1>5, <1>6, <1>7 DEF Healing

LEMMA BreakHealing ==
    ASSUME TypeOK, NEW k \in Keys, Healing(k), Break
    PROVE  Healing(k)'
<1>1. /\ truth' = truth /\ db' = db /\ persisted' = persisted /\ misled' = misled
      /\ work' = work /\ handling' = handling /\ old' = old /\ recon' = recon /\ closed' = closed
      /\ ded' = ded /\ wire' = wire /\ ~ up'
  BY DEF Break, clusterVars, handlerVars, workerVars, dbVars
<1>2. Sent(k)' = Sent(k) /\ Queue(k)' = Queue(k) /\ (Busy(k)' <=> Busy(k))
  BY <1>1, WireSame, QueueSame DEF Busy
<1>3. AllSay(k)' <=> AllSay(k)
  BY <1>1, <1>2, SameFlow
<1>4. Heals(k)' /\ Received(k)' /\ Knows(k)' /\ Gone(k)'
  BY <1>1 DEF Heals, Received, Knows, Gone
<1>5. Held(k)' /\ Written(k)'
  BY <1>1, <1>2 DEF Healing, Held, Written, Says
<1>6. Hashed(k)'
  BY <1>1, <1>3 DEF Healing, Hashed
<1> QED BY <1>4, <1>5, <1>6 DEF Healing

\* A connection starts with what Central knows and nothing on its way.  What the replaced
\* one has accepted since StartSync is excused.
LEMMA ConnectHealing ==
    ASSUME TypeOK, Conn, NEW k \in Keys, Base(k), Healing(k), Connect
    PROVE  Healing(k)'
<1>1. truth' = truth /\ db' = db /\ persisted' = persisted
  BY DEF Connect, clusterVars, dbVars
<1>2. /\ ~ closed' /\ k \notin listed' /\ Sent(k)' = {} /\ Queue(k)' = {}
      /\ ~ Busy(k)' /\ work'[k] = <<>> /\ handling'[k].phase = "idle"
      /\ lastSent'[k] \in {NoHash, ded.successfullyProcessed[k].val} /\ ded' = ded
      /\ k \in misled' <=> k \in misled /\ Present(ded.successfullyProcessed[k]) /\ db[k] = NoHash
      /\ k \in excused' <=> k \in misled' \/ ded.received[k].processed
  BY ConnectFacts DEF Idle
<1>3. AllSay(k)'
  BY <1>2 DEF AllSay
<1>4. Held(k)' /\ Heals(k)' /\ Received(k)' /\ Gone(k)'
  BY <1>2 DEF Held, Heals, Received, Gone
<1>5. ASSUME truth[k] # NoHash, Same(ded.successfullyProcessed[k].val, truth[k])
      PROVE  Same(db[k], truth[k]) \/ (db[k] = NoHash /\ k \in misled')
  <2>1. Present(ded.successfullyProcessed[k])
    BY <1>5, SameFacts DEF Present
  <2> QED BY <1>2, <1>5, <2>1 DEF Healing, Hashed
<1>6. Knows(k)'
  BY <1>1, <1>2, <1>5, SameFacts DEF Knows
<1>7. Hashed(k)'
  BY <1>1, <1>2, <1>3, <1>5 DEF Healing, Hashed
<1>8. ASSUME truth[k] # NoHash, old'[k].phase = "written" PROVE Same(db[k], truth[k])
  <2>1. "straggler" \in Faults /\ (old'[k] = old[k] \/ old'[k] = handling[k])
    BY <1>8, ConnectFacts, IdleType DEF Idle
  <2>2. handling[k].phase = "written" => Says(handling[k].msg, k)
    BY <1>8, <2>1, ExistsSays, HandFacts DEF Exact, Busy
  <2> QED BY <1>8, <2>1, <2>2 DEF Healing, Written
<1>9. Written(k)'
  BY <1>1, <1>2, <1>8 DEF Written
<1> QED BY <1>4, <1>6, <1>7, <1>9 DEF Healing

LEMMA CrashHealing ==
    ASSUME TypeOK, NEW k \in Keys, Base(k), Healing(k), Crash
    PROVE  Healing(k)'
<1>1. truth' = truth /\ db' = db /\ persisted' = persisted /\ ~ up'
  BY DEF Crash, clusterVars, dbVars
<1>2. /\ Sent(k)' = {} /\ Queue(k)' = {} /\ ~ Busy(k)' /\ work'[k] = <<>>
      /\ handling'[k].phase = "idle"
  BY EndedFacts DEF Crash, Idle
<1>3. /\ old'[k] = Idle
      /\ \/ ded'.successfullyProcessed[k].val = NoHash
         \/ /\ ded'.successfullyProcessed[k].val = persisted[k]
            /\ persisted[k] # NoHash /\ db[k] = NoHash /\ truth[k] # NoHash => k \in misled'
  BY CrashFacts
<1>4. Held(k)' /\ Heals(k)' /\ Received(k)' /\ Knows(k)' /\ Gone(k)'
  BY <1>1, <1>2 DEF Held, Heals, Received, Knows, Gone
<1>5. AllSay(k)'
  BY <1>2 DEF AllSay
<1>6. Hashed(k)'
  BY <1>1, <1>3, <1>5, SameFacts DEF Healing, Hashed
<1>7. Written(k)'
  BY <1>2, <1>3 DEF Written, Idle
<1> QED BY <1>4, <1>6, <1>7 DEF Healing

\* The worker of k takes an event from its queue, writes it, marks it or fails.
LEMMA StartHealing ==
    ASSUME TypeOK, NEW k \in Keys, Healing(k), StartWork(k)
    PROVE  Healing(k)'
<1>1. /\ truth' = truth /\ persisted' = persisted /\ up' = up /\ listed' = listed
      /\ lastSent' = lastSent /\ recon' = recon /\ closed' = closed /\ misled' = misled
      /\ Sent(k)' = Sent(k)
  BY WorkFrame
<1>2. db' = db /\ ded' = ded /\ old' = old /\ excused' = excused
  BY DEF StartWork, handlerVars, dbVars
<1>3. /\ ~ Busy(k) /\ work[k] # <<>> /\ handling'[k].phase = "pulled"
      /\ Queue(k) = Queue(k)' \cup {handling'[k].msg}
  BY StartOwn
<1>4. handling[k].phase = "idle"
  BY <1>3, HandFacts DEF Busy
<1>5. \A e : Says(e, k)' <=> Says(e, k)
  BY <1>1 DEF Says
<1>6. (AllSay(k)' <=> AllSay(k)) /\ (Waiting(k)' <=> Waiting(k)) /\ (Coming(k)' <=> Coming(k))
  BY <1>1, <1>3, <1>4, <1>5 DEF AllSay, Waiting, Coming
<1>7. Held(k)'
  BY <1>1, <1>2, <1>3 DEF Healing, Held
<1>8. Heals(k)' /\ Received(k)' /\ Knows(k)' /\ Gone(k)'
  BY <1>1, <1>2, <1>6 DEF Healing, Heals, Received, Done, Knows, Gone
<1>9. Hashed(k)' /\ Written(k)'
  BY <1>1, <1>2, <1>3, <1>6 DEF Healing, Hashed, Written
<1> QED BY <1>7, <1>8, <1>9 DEF Healing

LEMMA WriteHealing ==
    ASSUME TypeOK, Conn, NEW k \in Keys, Base(k), Order(k), Healing(k), Write(k)
    PROVE  Healing(k)'
<1>1. /\ truth' = truth /\ persisted' = persisted /\ up' = up /\ listed' = listed
      /\ lastSent' = lastSent /\ recon' = recon /\ closed' = closed /\ misled' = misled
      /\ Sent(k)' = Sent(k)
  BY WorkFrame
<1>2. ded' = ded /\ old' = old /\ excused' = excused /\ work' = work
  BY DEF Write, handlerVars
<1>3. /\ Busy(k) /\ handling[k].phase = "pulled" /\ db'[k] = Stored(handling[k].msg)
      /\ Busy(k)' /\ handling'[k].phase = "written" /\ handling'[k].msg = handling[k].msg
  BY WriteOwn
<1>4. Queue(k)' = Queue(k) /\ k \in listed
  BY <1>2, <1>3, QueueSame DEF Base, PipeListed, Piped
<1>5. \A e : Says(e, k)' <=> Says(e, k)
  BY <1>1 DEF Says
<1>6. Says(handling[k].msg, k) <=> Same(db'[k], truth[k])
  BY <1>3 DEF Says
<1>7. AllSay(k) => AllSay(k)' /\ Same(db'[k], truth[k])
  BY <1>1, <1>3, <1>4, <1>5, <1>6 DEF AllSay
<1>8. Done(k) => Done(k)'
  BY <1>1, <1>7 DEF Done
<1>9. Says(handling[k].msg, k) => Done(k)'
  <2> SUFFICES ASSUME Says(handling[k].msg, k) PROVE Done(k)'
    OBVIOUS
  <2>1. \A b \in Queue(k) \cup Sent(k) : Says(b, k)
    BY <1>3 DEF Order, Ordered
  <2> QED BY <1>1, <1>3, <1>4, <1>5, <1>6, <2>1 DEF Done, AllSay
<1>10. Waiting(k) => Waiting(k)' \/ Done(k)'
  BY <1>3, <1>4, <1>5, <1>9 DEF Waiting
<1>11. Coming(k) => Coming(k)' \/ Done(k)'
  BY <1>1, <1>5, <1>10 DEF Coming
<1>12. Held(k)' /\ Heals(k)' /\ Received(k)'
  BY <1>1, <1>2, <1>3, <1>8, <1>10, <1>11 DEF Healing, Held, Heals, Received
<1>13. Knows(k)' /\ Gone(k)'
  BY <1>1, <1>4 DEF Knows, Gone
<1>14. Hashed(k)'
  BY <1>1, <1>2, <1>7 DEF Healing, Hashed
<1>15. Written(k)'
  <2>1. truth[k] # NoHash /\ old[k].phase = "written" => Same(db'[k], truth[k])
    <3>1. old[k].phase = "written" => "straggler" \in Faults
      BY HandFacts, IdleType DEF Conn
    <3> QED BY <1>3, <1>6, <3>1, ExistsSays DEF Exact
  <2> QED BY <1>1, <1>2, <1>3, <1>6, <2>1 DEF Written, Says
<1> QED BY <1>12, <1>13, <1>14, <1>15 DEF Healing

LEMMA MarkHealing ==
    ASSUME TypeOK, NEW k \in Keys, Base(k), Order(k), Healing(k), Mark(k)
    PROVE  Healing(k)'
<1>1. /\ truth' = truth /\ persisted' = persisted /\ up' = up /\ listed' = listed
      /\ lastSent' = lastSent /\ recon' = recon /\ closed' = closed /\ misled' = misled
      /\ Sent(k)' = Sent(k)
  BY WorkFrame
<1>2. /\ db' = db /\ old' = old /\ excused' = excused /\ work' = work
      /\ handling'[k] = Idle /\ ded' = MarkSuccessful(ded, handling[k].msg)
  BY DEF Mark, dbVars, TypeOK
<1>3. handling[k].phase = "written" /\ Busy(k) /\ handling'[k].phase = "idle"
  BY <1>2, HandFacts DEF Mark, Busy, Idle
<1>4. Queue(k)' = Queue(k) /\ k \in listed
  BY <1>2, <1>3, QueueSame DEF Base, PipeListed, Piped
<1>5. \A e : Says(e, k)' <=> Says(e, k)
  BY <1>1 DEF Says
<1>6. (AllSay(k)' <=> AllSay(k)) /\ (Waiting(k)' <=> Waiting(k)) /\ (Coming(k)' <=> Coming(k))
  BY <1>1, <1>3, <1>4, <1>5 DEF AllSay, Waiting, Coming
<1>7. Known(handling[k].msg) /\ handling[k].msg.key = k
  BY <1>3, HandFacts DEF Busy
<1>8. /\ ded'.received[k] \in {ded.received[k], NoEntry}
      /\ \/ ded'.successfullyProcessed[k] \in {ded.successfullyProcessed[k], NoEntry}
         \/ /\ handling[k].msg.act # "REMOVE"
            /\ ded'.successfullyProcessed[k] = [val |-> handling[k].msg.val, processed |-> TRUE]
  BY <1>2, <1>7, MarkOwn
<1>9. NoEntry.val = NoHash /\ ~ NoEntry.processed
  BY DEF NoEntry
<1>10. Held(k)'
  BY <1>1, <1>3 DEF Healing, Held
<1>11. Heals(k)'
  BY <1>1, <1>2, <1>6 DEF Healing, Heals, Done
<1>12. Received(k)'
  BY <1>1, <1>2, <1>6, <1>8, <1>9 DEF Healing, Received, Done
<1>13. Knows(k)' /\ Gone(k)' /\ Written(k)'
  BY <1>1, <1>2, <1>3, <1>4 DEF Healing, Knows, Gone, Written
<1>14. Hashed(k)'
  <2> SUFFICES ASSUME truth[k] # NoHash, Same(ded'.successfullyProcessed[k].val, truth[k])
               PROVE  AllSay(k) /\ (Same(db[k], truth[k]) \/ (db[k] = NoHash /\ k \in misled))
    BY <1>1, <1>2, <1>6 DEF Healing, Hashed
  <2>1. CASE ded'.successfullyProcessed[k] \in {ded.successfullyProcessed[k], NoEntry}
    BY <1>9, <2>1, SameFacts DEF Healing, Hashed
  <2>2. CASE /\ handling[k].msg.act # "REMOVE"
             /\ ded'.successfullyProcessed[k] = [val |-> handling[k].msg.val, processed |-> TRUE]
    <3>1. Says(handling[k].msg, k)
      BY <2>2 DEF Says, Stored
    <3>2. Same(db[k], truth[k])
      BY <1>3, <3>1 DEF Healing, Written
    <3>3. \A b \in Queue(k) \cup Sent(k) : Says(b, k)
      BY <1>3, <3>1 DEF Order, Ordered
    <3> QED BY <1>3, <3>2, <3>3 DEF AllSay
  <2> QED BY <1>8, <2>1, <2>2
<1> QED BY <1>10, <1>11, <1>12, <1>13, <1>14 DEF Healing

LEMMA FailHealing ==
    ASSUME TypeOK, NEW k \in Keys, Healing(k), Fail(k)
    PROVE  Healing(k)'
<1>1. /\ truth' = truth /\ persisted' = persisted /\ up' = up /\ listed' = listed
      /\ recon' = recon /\ closed' = closed /\ misled' = misled /\ Sent(k)' = Sent(k)
  BY WorkFrame
<1>2. /\ ded'.received[k] \in {ded.received[k], NoEntry}
      /\ ded'.successfullyProcessed[k] = ded.successfullyProcessed[k]
      /\ k \in excused' /\ handling'[k] = Idle /\ Busy(k)
      /\ work' = work /\ old' = old /\ db' = db
  BY FailFacts
<1>3. Queue(k)' = Queue(k) /\ handling'[k].phase = "idle"
  BY <1>2, QueueSame DEF Idle
<1>4. \A e : Says(e, k)' <=> Says(e, k)
  BY <1>1 DEF Says
<1>5. AllSay(k) => AllSay(k)'
  BY <1>1, <1>3, <1>4 DEF AllSay
<1>6. Held(k)'
  BY <1>1, <1>2 DEF Healing, Held
<1>7. Heals(k)' /\ Received(k)' /\ Knows(k)' /\ Gone(k)'
  BY <1>2 DEF Heals, Received, Knows, Gone
<1>8. Hashed(k)' /\ Written(k)'
  BY <1>1, <1>2, <1>3, <1>5 DEF Healing, Hashed, Written
<1> QED BY <1>6, <1>7, <1>8 DEF Healing

\* A straggler writes some content of k, so only existence counts.
LEMMA OldHealing ==
    ASSUME TypeOK, Conn, NEW k \in Keys, Base(k), Healing(k),
           OldWrite(k) \/ OldMark(k) \/ OldCancel(k)
    PROVE  Healing(k)'
<1>1. /\ truth' = truth /\ persisted' = persisted /\ up' = up /\ listed' = listed
      /\ lastSent' = lastSent /\ recon' = recon /\ closed' = closed /\ misled' = misled
      /\ Sent(k)' = Sent(k)
  BY WorkFrame
<1>2. work' = work /\ handling' = handling
  BY DEF OldWrite, OldMark, OldCancel
<1>3. Queue(k)' = Queue(k) /\ (Busy(k)' <=> Busy(k))
  BY <1>2, QueueSame DEF Busy
<1>4. (AllSay(k)' <=> AllSay(k)) /\ (Waiting(k)' <=> Waiting(k)) /\ (Coming(k)' <=> Coming(k))
  BY <1>1, <1>2, <1>3, SameFlow
<1>5. old[k] # Idle /\ "straggler" \in Faults /\ ~ Exact
  BY HandFacts, IdleType DEF OldWrite, OldMark, OldCancel, Conn, Exact
<1>6. truth[k] # NoHash => AllSay(k) /\ Says(old[k].msg, k)
  BY <1>5, ExistsSays
<1>7. CASE OldCancel(k)
  <2>1. ded' = ded /\ db' = db /\ excused' = excused /\ old'[k].phase = "idle"
    BY <1>7 DEF OldCancel, handlerVars, dbVars, TypeOK, Idle
  <2>2. Held(k)' /\ Heals(k)' /\ Received(k)'
    BY <1>1, <1>2, <1>3, <1>4, <2>1 DEF Healing, Held, Heals, Received, Done
  <2>3. Knows(k)' /\ Gone(k)' /\ Hashed(k)'
    BY <1>1, <1>4, <2>1 DEF Healing, Knows, Gone, Hashed
  <2>4. Written(k)'
    BY <1>1, <1>2, <2>1 DEF Healing, Written, Says
  <2> QED BY <2>2, <2>3, <2>4 DEF Healing
<1>8. CASE OldWrite(k)
  <2>1. ded' = ded /\ k \in excused'
    BY <1>8 DEF OldWrite, handlerVars
  <2>2. db'[k] = Stored(old[k].msg)
    BY <1>8, OldWriteOwn
  <2>3. truth[k] # NoHash => AllSay(k) /\ Same(db'[k], truth[k])
    BY <1>6, <2>2 DEF Says
  <2>4. Held(k)' /\ Heals(k)' /\ Received(k)' /\ Knows(k)' /\ Gone(k)'
    BY <1>1, <1>2, <1>3, <2>1 DEF Healing, Held, Heals, Received, Knows, Gone
  <2>5. Hashed(k)' /\ Written(k)'
    BY <1>1, <1>4, <2>3 DEF Hashed, Written
  <2> QED BY <2>4, <2>5 DEF Healing
<1>9. CASE OldMark(k)
  <2>1. /\ db' = db /\ k \in excused' /\ old'[k].phase = "idle" /\ old[k].phase = "written"
        /\ ded' = MarkSuccessful(ded, old[k].msg)
    BY <1>9 DEF OldMark, dbVars, TypeOK, Idle
  <2>2. Known(old[k].msg) /\ old[k].msg.key = k
    BY <1>5, HandFacts
  <2>3. ded'.received[k] \in {ded.received[k], NoEntry}
    BY <2>1, <2>2, MarkOwn
  <2>4. ~ NoEntry.processed
    BY DEF NoEntry
  <2>5. truth[k] # NoHash => Same(db[k], truth[k])
    BY <2>1 DEF Healing, Written
  <2>6. Held(k)'
    BY <1>1, <1>2, <1>3, <1>5, <2>3, <2>4 DEF Healing, Held
  <2>7. Heals(k)' /\ Received(k)' /\ Knows(k)' /\ Gone(k)'
    BY <2>1 DEF Heals, Received, Knows, Gone
  <2>8. Hashed(k)' /\ Written(k)'
    BY <1>1, <1>4, <1>6, <2>1, <2>5 DEF Hashed, Written
  <2> QED BY <2>6, <2>7, <2>8 DEF Healing
<1> QED BY <1>7, <1>8, <1>9

LEMMA FlushHealing ==
    ASSUME TypeOK, NEW k \in Keys, Healing(k), FlushHashes
    PROVE  Healing(k)'
<1>1. /\ UNCHANGED <<clusterVars, sensorVars, handlerVars, workerVars, db, excused, disturbances>>
      /\ wire' = wire /\ persisted' = GetSuccessfulHashes(ded)
  BY DEF FlushHashes
<1>2. /\ truth' = truth /\ up' = up /\ listed' = listed /\ lastSent' = lastSent
      /\ ded' = ded /\ recon' = recon /\ closed' = closed /\ misled' = misled
      /\ work' = work /\ handling' = handling /\ old' = old /\ db' = db /\ excused' = excused
  BY <1>1 DEF clusterVars, sensorVars, handlerVars, workerVars, disturbances
<1>3. Sent(k)' = Sent(k) /\ Queue(k)' = Queue(k) /\ (Busy(k)' <=> Busy(k))
  BY <1>1, <1>2, WireSame, QueueSame DEF Busy
<1>4. (AllSay(k)' <=> AllSay(k)) /\ (Waiting(k)' <=> Waiting(k)) /\ (Coming(k)' <=> Coming(k))
  BY <1>2, <1>3, SameFlow
<1>5. ded \in Deduper
  BY DEF TypeOK
<1>6. persisted'[k] \in {NoHash, ded.successfullyProcessed[k].val}
  BY <1>1, <1>5, SuccessfulFacts
<1>7. Held(k)' /\ Heals(k)' /\ Received(k)'
  BY <1>2, <1>3, <1>4 DEF Healing, Held, Heals, Received, Done
<1>8. Knows(k)' /\ Gone(k)'
  BY <1>2 DEF Healing, Knows, Gone
<1>9. Hashed(k)'
  BY <1>2, <1>4, <1>6, SameFacts DEF Healing, Hashed
<1>10. Written(k)'
  BY <1>2 DEF Healing, Written, Says
<1> QED BY <1>7, <1>8, <1>9, <1>10 DEF Healing

LEMMA HealingStep ==
    ASSUME TypeOK, Conn, NEW k \in Keys, Base(k), Spared(k), Order(k), Healing(k), [Next]_vars,
           "drop" \in Faults => "straggler" \notin Faults
    PROVE  Healing(k)'
<1>1. CASE Apart(k)
  BY <1>1, ApartHealing
<1>2. ASSUME NEW v \in Hashes, Create(k, v) \/ Update(k, v) PROVE Healing(k)'
  BY <1>2, ClusterHealing
<1>3. CASE Delete(k) \/ List(k)
  <2>1. \E v \in Hashes : TRUE
    BY <1>3 DEF Delete, List, TypeOK
  <2> QED BY <1>3, <2>1, ClusterHealing
<1>4. CASE Connect \/ NewConnection
  BY <1>4, ConnectHealing, NewConnectionHealing
<1>5. CASE Break \/ Crash
  BY <1>5, BreakHealing, CrashHealing
<1>6. CASE HandleEventOf(k)
  BY <1>6, HandleHealing
<1>7. CASE HandleSynced
  BY <1>7, SyncedHealing
<1>8. CASE StartWork(k) \/ Write(k) \/ Mark(k) \/ Fail(k)
  BY <1>8, StartHealing, WriteHealing, MarkHealing, FailHealing
<1>9. CASE OldWrite(k) \/ OldMark(k) \/ OldCancel(k)
  BY <1>9, OldHealing
<1>10. CASE FlushHashes
  BY <1>10, FlushHealing
<1> QED BY <1>1, <1>2, <1>3, <1>4, <1>5, <1>6, <1>7, <1>8, <1>9, <1>10, Steps DEF Concerns

SyncInv == BaseInv /\ \A k \in Keys : Spared(k) /\ Order(k) /\ Healing(k)

LEMMA SyncInvariance ==
    ASSUME "drop" \in Faults => "straggler" \notin Faults
    PROVE  Spec => []SyncInv
<1>1. Init => SyncInv
  <2> SUFFICES ASSUME Init PROVE SyncInv
    OBVIOUS
  <2>1. BaseInv
    BY InitType, InitConn, InitBase DEF BaseInv
  <2>2. \A k \in Keys : Spared(k)
    BY DEF Init, Spared
  <2> QED BY <2>1, <2>2, InitHealing DEF SyncInv
<1>2. SyncInv /\ [Next]_vars => SyncInv'
  <2> SUFFICES ASSUME SyncInv, [Next]_vars PROVE SyncInv'
    OBVIOUS
  <2>1. TypeOK /\ Conn /\ \A k \in Keys : Base(k) /\ Spared(k) /\ Order(k) /\ Healing(k)
    BY DEF SyncInv, BaseInv
  <2>2. TypeOK'
    BY <2>1, NextType
  <2>3. Conn' /\ \A k \in Keys : Base(k)'
    BY <2>1, <2>2, ConnStep, BaseStep
  <2>4. \A k \in Keys : Spared(k)' /\ Order(k)' /\ Healing(k)'
    BY <2>1, <2>2, SparedStep, OrderStep, HealingStep
  <2> QED BY <2>2, <2>3, <2>4 DEF SyncInv, BaseInv
<1> QED BY <1>1, <1>2, PTL DEF Spec

\* In a connection that has settled every object that is not excused is up to date.
LEMMA SettledSame ==
    ASSUME SyncInv, Settled, NEW k \in Keys, k \notin excused
    PROVE  Same(db[k], truth[k])
<1>1. TypeOK /\ Base(k) /\ Healing(k)
  BY DEF SyncInv, BaseInv
<1>2. up /\ synced /\ closed /\ wire = <<>> /\ work[k] = <<>> /\ handling[k] = Idle
  BY DEF Settled
<1>3. 1..Len(wire) = {} /\ 1..Len(work[k]) = {} /\ handling[k].phase = "idle"
  BY <1>2 DEF Idle
<1>4. Sent(k) = {} /\ Queue(k) = {}
  BY <1>3 DEF Sent, Queue, Items
<1>5. ~ Coming(k)
  BY <1>3, <1>4 DEF Coming, Waiting
<1>6. CASE k \in listed
  BY <1>1, <1>2, <1>5, <1>6 DEF Healing, Heals, Done
<1>7. CASE k \notin listed
  <2>1. truth[k] = NoHash
    BY <1>1, <1>2, <1>7 DEF Base, Missed
  <2>2. db[k] = NoHash
    BY <1>1, <1>2, <1>7, <2>1 DEF Healing, Gone
  <2> QED BY <2>1, <2>2, SameFacts
<1> QED BY <1>6, <1>7

\* A connection that settles has brought the existence of every object up to date, except
\* for what failed in it and for what the replaced connection accepted after it had begun;
\* with or without stragglers and contents that return.  Messages may be dropped if there
\* are no stragglers.
THEOREM ExistenceIsHealed ==
    ASSUME "drop" \in Faults => "straggler" \notin Faults
    PROVE  Spec => []ExistenceHeals
<1>1. SyncInv => ExistenceHeals
  BY SettledSame, SameFacts DEF ExistenceHeals
<1> QED BY <1>1, SyncInvariance, PTL

\* Without stragglers and returning contents it has brought the content up to date.
THEOREM ContentIsHealed ==
    ASSUME "straggler" \notin Faults, "revert" \notin Faults
    PROVE  Spec => []ResyncHeals
<1>1. Exact /\ ("drop" \in Faults => "straggler" \notin Faults)
  BY DEF Exact
<1>2. SyncInv => ResyncHeals
  BY <1>1, SettledSame, SameFacts DEF ResyncHeals
<1>3. Spec => []SyncInv
  BY <1>1, SyncInvariance
<1> QED BY <1>2, <1>3, PTL
=============================================================================
