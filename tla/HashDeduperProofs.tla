-------------------------- MODULE HashDeduperProofs --------------------------
(***************************************************************************)
(* What HashDeduper guarantees for every set of keys and hashes, every      *)
(* number of attempts and every size of the hash table.                     *)
(***************************************************************************)
EXTENDS HashDeduper, TLAPS

(* The operations of the deduper map dedupers to dedupers.                  *)
\* NewDeduper returns a deduper, whatever hashes it reads.
LEMMA NewDeduperType ==
    ASSUME NEW h \in [Keys -> Hashes \cup {NoHash}]
    PROVE  NewDeduper(h) \in Deduper
BY DEF NewDeduper, Deduper, EntryMap, Entry, NoEntry

\* ShouldProcess leaves a deduper.
LEMMA AfterShouldProcessType ==
    ASSUME NEW d \in Deduper, NEW m \in Msg
    PROVE  AfterShouldProcess(d, m) \in Deduper
<1>1. /\ m.key \in Keys /\ m.val \in Hashes \cup {NoHash}
      /\ d.received \in EntryMap /\ d.successfullyProcessed \in EntryMap
  BY DEF Msg, Deduper
<1>2. NoEntry \in Entry /\ [val |-> m.val, processed |-> TRUE] \in Entry
  BY <1>1 DEF NoEntry, Entry
<1>3. \A e \in Entry : MarkSeen(e) \in Entry
  BY DEF MarkSeen, Entry
<1>4. CASE SkipDedupe(m)
  BY <1>4 DEF AfterShouldProcess
<1>5. CASE ~ SkipDedupe(m) /\ m.act = "REMOVE"
  BY <1>1, <1>2, <1>5 DEF AfterShouldProcess, Deduper, EntryMap
<1>6. CASE ~ SkipDedupe(m) /\ m.act # "REMOVE"
  <2> DEFINE r == IF m.attempt = 0 /\ GetValue(d, m.key) # m.val
                  THEN [d.received EXCEPT ![m.key] = [val |-> m.val, processed |-> TRUE]]
                  ELSE d.received
             s == IF m.act = "SYNC"
                  THEN [d.successfullyProcessed EXCEPT ![m.key] = MarkSeen(@)]
                  ELSE d.successfullyProcessed
  <2>1. r \in EntryMap
    BY <1>1, <1>2 DEF EntryMap
  <2>2. s \in EntryMap
    BY <1>1, <1>3 DEF EntryMap
  <2>3. AfterShouldProcess(d, m) = [received |-> r, successfullyProcessed |-> s]
    BY <1>6 DEF AfterShouldProcess
  <2> QED
    BY <2>1, <2>2, <2>3 DEF Deduper
<1> QED
  BY <1>4, <1>5, <1>6

\* MarkSuccessful leaves a deduper.
LEMMA MarkSuccessfulType ==
    ASSUME NEW d \in Deduper, NEW m \in Msg
    PROVE  MarkSuccessful(d, m) \in Deduper
BY DEF MarkSuccessful, Deduper, EntryMap, Entry, NoEntry, Msg

\* RemoveMessage leaves a deduper.
LEMMA RemoveMessageType ==
    ASSUME NEW d \in Deduper, NEW m \in Msg
    PROVE  RemoveMessage(d, m) \in Deduper
BY DEF RemoveMessage, Deduper, EntryMap, Entry, NoEntry, Msg

\* StartSync leaves a deduper.
LEMMA StartSyncType ==
    ASSUME NEW d \in Deduper
    PROVE  StartSync(d) \in Deduper
BY DEF StartSync, Unseen, Deduper, EntryMap, Entry

\* ProcessSync leaves a deduper.
LEMMA ProcessSyncType ==
    ASSUME NEW d \in Deduper
    PROVE  ProcessSync(d) \in Deduper
BY DEF ProcessSync, Deduper, EntryMap, Entry, NoEntry

\* What is flushed is a map from keys to hashes.
LEMMA GetSuccessfulHashesType ==
    ASSUME NEW d \in Deduper
    PROVE  GetSuccessfulHashes(d) \in [Keys -> Hashes \cup {NoHash}]
BY DEF GetSuccessfulHashes, Deduper, EntryMap, Entry

\* First attempts and retries are messages; what is lost with one is a key and a hash.
LEMMA MsgFacts ==
    /\ FirstMsg \subseteq Msg /\ Traffic \subseteq FirstMsg
    /\ \A m \in Msg : NextAttempt(m) \in Msg /\ Loss(m) \subseteq Keys \X Hashes
BY TrafficAssumption DEF FirstMsg, Msg, NextAttempt, Loss, Actions

(***************************************************************************)
(* Type correctness.                                                       *)
(***************************************************************************)
\* addMultiplexed keeps the types.
LEMMA AcceptType ==
    ASSUME TypeOK, NEW m \in Msg, Accept(m)
    PROVE  ded' \in Deduper /\ pending' \subseteq Msg /\ seen' \subseteq Keys
<1>1. ded' \in Deduper
  BY AfterShouldProcessType DEF Accept, TypeOK
<1> QED
  BY <1>1 DEF Accept, TypeOK, Msg

\* The end of a connection keeps the types.
LEMMA AbandonType ==
    ASSUME TypeOK, NEW inHand \in SUBSET pending, Abandon(inHand)
    PROVE  /\ pending' \subseteq Msg /\ retrying' \subseteq Msg /\ stale' \subseteq Msg
           /\ lost' \subseteq Keys \X Hashes
BY MsgFacts DEF TypeOK, Abandon

\* Every step keeps the types.
LEMMA NextType ==
    ASSUME TypeOK, [Next]_vars
    PROVE  TypeOK'
<1>1. ASSUME NEW m \in Traffic, Receive(m) PROVE TypeOK'
  BY <1>1, AcceptType, MsgFacts DEF TypeOK, Receive
<1>2. ASSUME NEW m \in retrying, Retry(m) PROVE TypeOK'
  BY <1>2, AcceptType DEF TypeOK, Retry
<1>16. ASSUME NEW m \in Traffic, ReceiveLate(m) PROVE TypeOK'
  <2>1. m \in Msg /\ m.key \in Keys
    BY MsgFacts DEF Msg
  <2>2. ded' \in Deduper
    BY <1>16, <2>1, AfterShouldProcessType DEF TypeOK, ReceiveLate
  <2> QED
    BY <1>16, <2>1, <2>2 DEF TypeOK, ReceiveLate
<1>17. CASE Drained
  BY <1>17 DEF TypeOK, Drained
<1>3. ASSUME NEW m \in pending \cup stale, Succeed(m) PROVE TypeOK'
  <2>1. m \in Msg
    BY DEF TypeOK
  <2>2. ded' \in Deduper
    BY <1>3, <2>1, MarkSuccessfulType DEF TypeOK, Succeed
  <2>3. written' \in [Keys -> SUBSET Hashes]
    BY <1>3, <2>1 DEF TypeOK, Succeed, Msg
  <2> QED
    BY <1>3, <2>2, <2>3 DEF TypeOK, Succeed, Handled
<1>4. ASSUME NEW m \in pending \cup stale, FailTransient(m) PROVE TypeOK'
  <2>1. m \in Msg /\ NextAttempt(m) \in Msg /\ Loss(m) \subseteq Keys \X Hashes
    BY MsgFacts DEF TypeOK
  <2> QED
    BY <1>4, <2>1 DEF TypeOK, FailTransient, Handled
<1>5. ASSUME NEW m \in pending \cup stale, FailUnretryable(m) PROVE TypeOK'
  <2>1. ded' \in Deduper
    BY <1>5, RemoveMessageType DEF TypeOK, FailUnretryable
  <2> QED
    BY <1>5, <2>1 DEF TypeOK, FailUnretryable, Handled
<1>6. ASSUME NEW m \in stale, Cancel(m) PROVE TypeOK'
  BY <1>6, MsgFacts DEF TypeOK, Cancel, Handled
<1>7. CASE NewConnection
  BY <1>7, StartSyncType DEF TypeOK, NewConnection, ConnStates
<1>8. CASE StartRunning
  BY <1>8 DEF TypeOK, StartRunning, ConnStates
<1>9. CASE TerminateOld
  BY <1>9, AbandonType DEF TypeOK, TerminateOld, ConnStates, Abandon, Conns
<1>10. CASE RejectNew
  BY <1>10 DEF TypeOK, RejectNew, ConnStates
<1>11. CASE Disconnect
  BY <1>11, AbandonType DEF TypeOK, Disconnect, ConnStates, Abandon, Conns
<1>12. CASE \E c \in Conns : Synced(c)
  BY <1>12, ProcessSyncType DEF TypeOK, Synced, Conns
<1>13. CASE FlushHashes
  BY <1>13, GetSuccessfulHashesType DEF TypeOK, FlushHashes
<1>14. CASE Restart
  <2>1. ded' \in Deduper
    BY <1>14, NewDeduperType DEF TypeOK, Restart
  <2> QED
    BY <1>14, <2>1 DEF TypeOK, Restart, ConnStates
<1>15. CASE UNCHANGED vars
  BY <1>15 DEF TypeOK, vars
<1> QED
  BY <1>1, <1>2, <1>3, <1>4, <1>5, <1>6, <1>7, <1>8, <1>9, <1>10, <1>11, <1>12,
     <1>13, <1>14, <1>15, <1>16, <1>17 DEF Next

\* The types hold initially.
LEMMA InitType == Init => TypeOK
<1> SUFFICES ASSUME Init PROVE TypeOK
  OBVIOUS
<1>1. ded \in Deduper
  BY NewDeduperType DEF Init
<1> QED
  BY <1>1 DEF Init, TypeOK, ConnStates

(* The state of the deduper, of its callers and of the persisted hashes is  *)
(* always well-formed.                                                      *)
THEOREM TypeCorrect == Spec => []TypeOK
BY InitType, NextType, PTL DEF Spec

(***************************************************************************)
(* Hashes only say what is true: HashWasWritten.  No operation but          *)
(* MarkSuccessful puts a hash into successfullyProcessed, so it is enough   *)
(* that the others keep an entry's hash or delete the entry.                *)
(***************************************************************************)
KeepsOrDrops(new, old) ==
    \A k \in Keys : Present(new.successfullyProcessed[k])
                    => new.successfullyProcessed[k].val = old.successfullyProcessed[k].val

\* Every operation but MarkSuccessful keeps or drops each successful hash.
LEMMA OpsKeepOrDrop ==
    ASSUME NEW d \in Deduper
    PROVE  /\ \A m \in Msg : /\ KeepsOrDrops(AfterShouldProcess(d, m), d)
                             /\ KeepsOrDrops(RemoveMessage(d, m), d)
           /\ KeepsOrDrops(StartSync(d), d)
           /\ KeepsOrDrops(ProcessSync(d), d)
<1>1. d.successfullyProcessed \in EntryMap
  BY DEF Deduper
<1>2. \A e \in Entry : MarkSeen(e).val = e.val
  BY DEF MarkSeen, Entry
<1>3. ASSUME NEW m \in Msg PROVE KeepsOrDrops(AfterShouldProcess(d, m), d)
  <2>1. m.key \in Keys
    BY DEF Msg
  <2>2. ~ Present(NoEntry)
    BY DEF Present, NoEntry
  <2>3. CASE SkipDedupe(m)
    BY <2>3 DEF AfterShouldProcess, KeepsOrDrops
  <2>4. CASE ~ SkipDedupe(m) /\ m.act = "REMOVE"
    <3>1. AfterShouldProcess(d, m).successfullyProcessed
            = [d.successfullyProcessed EXCEPT ![m.key] = NoEntry]
      BY <2>4 DEF AfterShouldProcess
    <3> QED
      BY <1>1, <2>1, <2>2, <3>1 DEF KeepsOrDrops, EntryMap
  <2>5. CASE ~ SkipDedupe(m) /\ m.act # "REMOVE"
    <3>1. AfterShouldProcess(d, m).successfullyProcessed
            = IF m.act = "SYNC"
              THEN [d.successfullyProcessed EXCEPT ![m.key] = MarkSeen(@)]
              ELSE d.successfullyProcessed
      BY <2>5 DEF AfterShouldProcess
    <3> QED
      BY <1>1, <1>2, <2>1, <3>1 DEF KeepsOrDrops, EntryMap
  <2> QED
    BY <2>3, <2>4, <2>5
<1>4. ASSUME NEW m \in Msg PROVE KeepsOrDrops(RemoveMessage(d, m), d)
  BY DEF RemoveMessage, KeepsOrDrops, Deduper
<1>5. KeepsOrDrops(StartSync(d), d)
  BY <1>1 DEF StartSync, Unseen, KeepsOrDrops, EntryMap, Entry
<1>6. KeepsOrDrops(ProcessSync(d), d)
  BY <1>1 DEF ProcessSync, KeepsOrDrops, Deduper, NoEntry, Present, EntryMap
<1> QED
  BY <1>3, <1>4, <1>5, <1>6

\* Keeping or dropping hashes keeps them sound.
LEMMA KeptHashesWereWritten ==
    ASSUME HashWasWritten, UNCHANGED <<persisted, written>>, KeepsOrDrops(ded', ded),
           ded \in Deduper, ded' \in Deduper
    PROVE  HashWasWritten'
BY DEF HashWasWritten, KeepsOrDrops, Present

\* Every step keeps the hashes sound.
LEMMA NextHashWasWritten ==
    ASSUME TypeOK, HashWasWritten, [Next]_vars
    PROVE  HashWasWritten'
<1> USE NextType
<1>0. TypeOK'
  OBVIOUS
<1>1. ASSUME NEW m \in Traffic, Receive(m) PROVE HashWasWritten'
  BY <1>0, <1>1, OpsKeepOrDrop, KeptHashesWereWritten, MsgFacts DEF Receive, Accept, TypeOK
<1>2. ASSUME NEW m \in retrying, Retry(m) PROVE HashWasWritten'
  BY <1>0, <1>2, OpsKeepOrDrop, KeptHashesWereWritten DEF Retry, Accept, TypeOK
<1>13. ASSUME NEW m \in Traffic, ReceiveLate(m) PROVE HashWasWritten'
  BY <1>0, <1>13, OpsKeepOrDrop, KeptHashesWereWritten, MsgFacts DEF ReceiveLate, TypeOK
<1>14. CASE Drained
  BY <1>14 DEF Drained, HashWasWritten
<1>3. ASSUME NEW m \in pending \cup stale, Succeed(m) PROVE HashWasWritten'
  <2>1. m \in Msg /\ m.key \in Keys /\ m.val \in Hashes \cup {NoHash}
    BY DEF TypeOK, Msg
  <2>2. ded.successfullyProcessed \in EntryMap
    BY DEF TypeOK, Deduper
  <2>3. \A k \in Keys : written[k] \subseteq written'[k]
    BY <1>3, <2>1 DEF Succeed, TypeOK
  <2>4. ~ SkipDedupe(m) /\ m.act # "REMOVE" =>
          ded'.successfullyProcessed
            = [ded.successfullyProcessed EXCEPT ![m.key] = [val |-> m.val, processed |-> TRUE]]
    BY <1>3 DEF Succeed, MarkSuccessful
  <2>5. ~ SkipDedupe(m) /\ m.act = "REMOVE" =>
          ded'.successfullyProcessed = [ded.successfullyProcessed EXCEPT ![m.key] = NoEntry]
    BY <1>3 DEF Succeed, MarkSuccessful, TypeOK, Deduper
  <2>6. SkipDedupe(m) => ded' = ded
    BY <1>3 DEF Succeed, MarkSuccessful
  <2>7. m.act # "REMOVE" => m.val \in written'[m.key]
    BY <1>3, <2>1 DEF Succeed, TypeOK
  <2>8. \A k \in Keys : Present(ded'.successfullyProcessed[k])
                        => ded'.successfullyProcessed[k].val \in written'[k]
    BY <2>1, <2>2, <2>3, <2>4, <2>5, <2>6, <2>7
       DEF HashWasWritten, Present, NoEntry, EntryMap
  <2>9. persisted' = persisted
    BY <1>3 DEF Succeed
  <2> QED
    BY <2>3, <2>8, <2>9 DEF HashWasWritten
<1>4. ASSUME NEW m \in pending \cup stale, FailTransient(m) PROVE HashWasWritten'
  BY <1>4 DEF FailTransient, HashWasWritten
<1>5. ASSUME NEW m \in pending \cup stale, FailUnretryable(m) PROVE HashWasWritten'
  BY <1>0, <1>5, OpsKeepOrDrop, KeptHashesWereWritten DEF FailUnretryable, TypeOK
<1>6. ASSUME NEW m \in stale, Cancel(m) PROVE HashWasWritten'
  BY <1>6 DEF Cancel, HashWasWritten
<1>7. CASE NewConnection
  BY <1>0, <1>7, OpsKeepOrDrop, KeptHashesWereWritten DEF NewConnection, TypeOK
<1>8. CASE StartRunning \/ TerminateOld \/ RejectNew \/ Disconnect
  BY <1>8 DEF StartRunning, TerminateOld, RejectNew, Disconnect, HashWasWritten
<1>9. CASE \E c \in Conns : Synced(c)
  BY <1>0, <1>9, OpsKeepOrDrop, KeptHashesWereWritten DEF Synced, TypeOK
<1>10. CASE FlushHashes
  BY <1>10 DEF FlushHashes, GetSuccessfulHashes, HashWasWritten, Present
<1>11. CASE Restart
  <2>1. PICK hashes \in {persisted, [k \in Keys |-> NoHash]} : ded' = NewDeduper(hashes)
    BY <1>11 DEF Restart
  <2>2. \A k \in Keys : Present(ded'.successfullyProcessed[k])
                        => ded'.successfullyProcessed[k].val = persisted[k]
    BY <2>1 DEF NewDeduper, Present, NoEntry
  <2> QED
    BY <1>11, <2>2 DEF Restart, HashWasWritten, Present
<1>12. CASE UNCHANGED vars
  BY <1>12 DEF vars, HashWasWritten
<1> QED
  BY <1>1, <1>2, <1>3, <1>4, <1>5, <1>6, <1>7, <1>8, <1>9, <1>10, <1>11, <1>12,
     <1>13, <1>14 DEF Next

(* Central never skips an event as successfully processed unless an object  *)
(* with that hash was stored by the pipeline, across retries, replaced      *)
(* connections, flushes and restarts.                                       *)
THEOREM HashesAreSound == Spec => []HashWasWritten
<1>1. Init => HashWasWritten
  BY DEF Init, HashWasWritten, NewDeduper, Present, NoEntry
<1> QED
  BY <1>1, TypeCorrect, NextHashWasWritten, PTL DEF Spec
(***************************************************************************)
(* Every clean received hash has a message behind it: ReceivedIsBacked.     *)
(* Only ShouldProcess makes an entry clean, and it accepts the message; an  *)
(* entry whose message is done was deleted by MarkSuccessful or             *)
(* RemoveMessage, or its message is recorded as given up or abandoned.      *)
(***************************************************************************)
CleanKept(new, old) ==
    \A k \in Keys : Clean(new, k) => Clean(old, k) /\ new.received[k] = old.received[k]

\* What ShouldProcess does to clean entries.
LEMMA CleanAfterShouldProcess ==
    ASSUME NEW d \in Deduper, NEW m \in Msg, NEW k \in Keys,
           Clean(AfterShouldProcess(d, m), k)
    PROVE  \/ Clean(d, k) /\ AfterShouldProcess(d, m).received[k] = d.received[k]
           \/ /\ k = m.key /\ AfterShouldProcess(d, m).received[k].val = m.val
              /\ m.act # "REMOVE" /\ ShouldProcess(d, m)
<1>1. /\ m.key \in Keys /\ d.received \in EntryMap
      /\ ~ Present(NoEntry)
  BY DEF Msg, Deduper, Present, NoEntry
<1>2. CASE SkipDedupe(m)
  BY <1>2 DEF AfterShouldProcess
<1>3. CASE ~ SkipDedupe(m) /\ m.act = "REMOVE"
  <2>1. AfterShouldProcess(d, m).received = [d.received EXCEPT ![m.key] = NoEntry]
    BY <1>3 DEF AfterShouldProcess
  <2> QED
    BY <1>1, <2>1 DEF Clean, EntryMap
<1>4. CASE ~ SkipDedupe(m) /\ m.act # "REMOVE"
  <2>1. AfterShouldProcess(d, m).received
          = IF m.attempt = 0 /\ GetValue(d, m.key) # m.val
            THEN [d.received EXCEPT ![m.key] = [val |-> m.val, processed |-> TRUE]]
            ELSE d.received
    BY <1>4 DEF AfterShouldProcess
  <2> QED
    BY <1>1, <1>4, <2>1 DEF Clean, EntryMap, ShouldProcess
<1> QED
  BY <1>2, <1>3, <1>4

\* The other operations make no entry clean.
LEMMA OpsKeepClean ==
    ASSUME NEW d \in Deduper
    PROVE  /\ \A m \in Msg : CleanKept(RemoveMessage(d, m), d)
           /\ CleanKept(ProcessSync(d), d)
           /\ \A k \in Keys : ~ Clean(StartSync(d), k)
<1>1. d.received \in EntryMap /\ ~ Present(NoEntry)
  BY DEF Deduper, Present, NoEntry
<1>2. ASSUME NEW m \in Msg PROVE CleanKept(RemoveMessage(d, m), d)
  <2>1. m.key \in Keys
    BY DEF Msg
  <2>2. ~ SkipDedupe(m) =>
           RemoveMessage(d, m).received = [d.received EXCEPT ![m.key] = NoEntry]
    BY DEF RemoveMessage, Deduper
  <2>3. SkipDedupe(m) => RemoveMessage(d, m) = d
    BY DEF RemoveMessage
  <2> QED
    BY <1>1, <2>1, <2>2, <2>3 DEF CleanKept, Clean, EntryMap
<1>3. ProcessSync(d).received = d.received
  BY DEF ProcessSync, Deduper
<1>4. CleanKept(ProcessSync(d), d)
  BY <1>3 DEF CleanKept, Clean
<1>5. \A k \in Keys : ~ Clean(StartSync(d), k)
  BY <1>1 DEF StartSync, Unseen, Clean, EntryMap, Entry
<1> QED
  BY <1>2, <1>4, <1>5

(* The hashes that are accounted for.                                       *)
Backed(k, v) == OnItsWay(k, v) \/ <<k, v>> \in lost

(* Nothing that was accounted for gets lost, and no entry becomes clean.    *)
LEMMA BackingKept ==
    ASSUME ReceivedIsBacked, CleanKept(ded', ded),
           \A k \in Keys : Clean(ded', k) =>
               (Backed(k, ded.received[k].val) => Backed(k, ded.received[k].val)')
    PROVE  ReceivedIsBacked'
BY DEF ReceivedIsBacked, Backed, CleanKept, Clean

(* Both ways an accepted message goes into the hands of a worker.           *)
LEMMA AcceptedIsBacked ==
    ASSUME TypeOK, ReceivedIsBacked, NEW m \in Msg,
           ded' = AfterShouldProcess(ded, m),
           UNCHANGED lost,
           ShouldProcess(ded, m) => m \in pending' \cup stale',
           pending \subseteq pending', stale \subseteq stale', retrying \ {m} \subseteq retrying',
           m \in retrying \ retrying' => m.attempt > 0
    PROVE  ReceivedIsBacked'
<1> SUFFICES ASSUME NEW k \in Keys, Clean(ded', k)
             PROVE  Backed(k, ded.received[k].val)'
  BY DEF ReceivedIsBacked, Backed
<1>1. ded \in Deduper
  BY DEF TypeOK
<1>2. CASE Clean(ded, k) /\ ded'.received[k] = ded.received[k]
  <2>1. Backed(k, ded.received[k].val)
    BY <1>2 DEF ReceivedIsBacked, Backed
  <2>2. CASE <<k, ded.received[k].val>> \in lost
    BY <1>2, <2>2 DEF Backed
  <2>3. CASE OnItsWay(k, ded.received[k].val)
    <3>1. PICK b \in pending \cup retrying \cup stale :
             b.key = k /\ b.val = ded.received[k].val /\ b.act # "REMOVE"
      BY <2>3 DEF OnItsWay
    <3>2. CASE b \in pending' \cup retrying' \cup stale'
      BY <1>2, <3>1, <3>2 DEF Backed, OnItsWay
    <3>3. CASE b = m /\ m \in retrying \ retrying'
      <4>1. GetValue(ded, m.key) = m.val
        BY <1>2, <3>1, <3>3 DEF GetValue, Clean
      <4>2. ShouldProcess(ded, m)
        BY <3>3, <4>1 DEF ShouldProcess, ShouldReprocess
      <4> QED
        BY <1>2, <3>1, <3>3, <4>2 DEF Backed, OnItsWay
    <3> QED
      BY <3>1, <3>2, <3>3
  <2> QED
    BY <2>1, <2>2, <2>3 DEF Backed
<1>3. CASE /\ k = m.key /\ ded'.received[k].val = m.val
           /\ m.act # "REMOVE" /\ ShouldProcess(ded, m)
  BY <1>3 DEF Backed, OnItsWay
<1> QED
  BY <1>1, <1>2, <1>3, CleanAfterShouldProcess
(* What waits for a retry timer has been tried before.                      *)
RetriesWereTried == \A m \in retrying : m.attempt > 0

\* Every step keeps RetriesWereTried.
LEMMA NextRetriesWereTried ==
    ASSUME TypeOK, RetriesWereTried, [Next]_vars
    PROVE  RetriesWereTried'
<1>1. ASSUME NEW m \in pending \cup stale, FailTransient(m) PROVE RetriesWereTried'
  <2>1. NextAttempt(m).attempt > 0
    BY DEF NextAttempt, TypeOK, Msg
  <2> QED
    BY <1>1, <2>1 DEF FailTransient, RetriesWereTried
<1>2. CASE retrying' \subseteq retrying
  BY <1>2 DEF RetriesWereTried
<1>3. (\E m \in pending \cup stale : FailTransient(m)) \/ retrying' \subseteq retrying
  BY DEF Next, vars, Receive, ReceiveLate, Drained, Retry, Succeed, FailUnretryable, Cancel,
         NewConnection, StartRunning, TerminateOld, RejectNew, Disconnect, Abandon, Synced,
         FlushHashes, Restart
<1> QED
  BY <1>1, <1>2, <1>3

\* MarkSuccessful leaves no clean entry with the hash it marks.
LEMMA SucceedClean ==
    ASSUME TypeOK, NEW m \in Msg, ded' = MarkSuccessful(ded, m), NEW k \in Keys, Clean(ded', k)
    PROVE  /\ Clean(ded, k) /\ ded'.received[k] = ded.received[k]
           /\ m.key # k \/ m.val # ded.received[k].val \/ m.act = "REMOVE" \/ SkipDedupe(m)
<1>1. /\ m.key \in Keys /\ m.val \in Hashes \cup {NoHash} /\ ded.received \in EntryMap
      /\ ~ Present(NoEntry)
  BY DEF TypeOK, Msg, Deduper, Present, NoEntry
<1>2. CASE SkipDedupe(m)
  BY <1>2 DEF MarkSuccessful
<1>3. CASE ~ SkipDedupe(m) /\ m.act = "REMOVE"
  BY <1>3 DEF MarkSuccessful, Clean, TypeOK, Deduper
<1>4. CASE ~ SkipDedupe(m) /\ m.act # "REMOVE"
  <2>1. ded'.received = IF ded.received[m.key].val = m.val
                        THEN [ded.received EXCEPT ![m.key] = NoEntry]
                        ELSE ded.received
    BY <1>4 DEF MarkSuccessful
  <2> QED
    BY <1>1, <2>1 DEF Clean, EntryMap
<1> QED
  BY <1>2, <1>3, <1>4

(* Kinds that are never deduped have no entries at all.                     *)
SkippedHaveNone == \A k \in SkipKeys : ~ Present(ded.received[k])

\* No operation creates an entry for a kind that is never deduped.
LEMMA OpsSkip ==
    ASSUME NEW d \in Deduper, \A k \in SkipKeys : ~ Present(d.received[k])
    PROVE  /\ \A m \in Msg : \A k \in SkipKeys :
                 /\ ~ Present(AfterShouldProcess(d, m).received[k])
                 /\ ~ Present(MarkSuccessful(d, m).received[k])
                 /\ ~ Present(RemoveMessage(d, m).received[k])
           /\ \A k \in SkipKeys : /\ ~ Present(StartSync(d).received[k])
                                  /\ ~ Present(ProcessSync(d).received[k])
<1>1. /\ SkipKeys \subseteq Keys /\ d.received \in EntryMap
      /\ ~ Present(NoEntry)
  BY KeysAssumption DEF Deduper, Present, NoEntry
<1>2. ASSUME NEW m \in Msg, NEW k \in SkipKeys
      PROVE  /\ ~ Present(AfterShouldProcess(d, m).received[k])
             /\ ~ Present(MarkSuccessful(d, m).received[k])
             /\ ~ Present(RemoveMessage(d, m).received[k])
  <2>1. CASE SkipDedupe(m)
    BY <2>1 DEF AfterShouldProcess, MarkSuccessful, RemoveMessage
  <2>2. CASE ~ SkipDedupe(m)
    <3>1. m.key \in Keys /\ m.key # k
      BY <2>2 DEF SkipDedupe, Msg
    <3>2. AfterShouldProcess(d, m).received[k] = d.received[k]
      BY <1>1, <2>2, <3>1 DEF AfterShouldProcess, EntryMap
    <3>3. MarkSuccessful(d, m).received[k] = d.received[k]
      BY <1>1, <2>2, <3>1 DEF MarkSuccessful, EntryMap, Deduper
    <3>4. RemoveMessage(d, m).received[k] = d.received[k]
      BY <1>1, <2>2, <3>1 DEF RemoveMessage, EntryMap, Deduper
    <3> QED
      BY <3>2, <3>3, <3>4
  <2> QED
    BY <2>1, <2>2
<1>3. ASSUME NEW k \in SkipKeys
      PROVE  ~ Present(StartSync(d).received[k]) /\ ~ Present(ProcessSync(d).received[k])
  BY <1>1 DEF StartSync, Unseen, ProcessSync, Present, EntryMap, Entry, Deduper
<1> QED
  BY <1>2, <1>3

\* Every step keeps SkippedHaveNone.
LEMMA NextSkippedHaveNone ==
    ASSUME TypeOK, SkippedHaveNone, [Next]_vars
    PROVE  SkippedHaveNone'
<1>1. \/ ded' = ded
      \/ \E m \in Msg : \/ ded' = AfterShouldProcess(ded, m)
                        \/ ded' = MarkSuccessful(ded, m)
                        \/ ded' = RemoveMessage(ded, m)
      \/ ded' = StartSync(ded) \/ ded' = ProcessSync(ded)
      \/ \E h \in [Keys -> Hashes \cup {NoHash}] : ded' = NewDeduper(h)
  BY MsgFacts
     DEF TypeOK, Next, vars, Receive, ReceiveLate, Drained, Retry, Accept, Succeed,
         FailTransient, FailUnretryable, Cancel, NewConnection, StartRunning, TerminateOld,
         RejectNew, Disconnect, Synced, FlushHashes, Restart
<1>2. ASSUME NEW h \in [Keys -> Hashes \cup {NoHash}], ded' = NewDeduper(h)
      PROVE  SkippedHaveNone'
  BY <1>2, KeysAssumption DEF SkippedHaveNone, NewDeduper, Present, NoEntry
<1>3. ded \in Deduper
  BY DEF TypeOK
<1> QED
  BY <1>1, <1>2, <1>3, OpsSkip DEF SkippedHaveNone

BackedInv == TypeOK /\ RetriesWereTried /\ SkippedHaveNone /\ ReceivedIsBacked

(* A worker that is done with m without marking or removing it records m.   *)
LEMMA DoneIsBacked ==
    ASSUME BackedInv, NEW m \in pending \cup stale,
           Handled(m), CleanKept(ded', ded),
           retrying \subseteq retrying', lost \subseteq lost',
           \/ Loss(m) \subseteq lost'
           \/ \E r \in retrying' : r.key = m.key /\ r.val = m.val /\ r.act = m.act
           \/ \A k \in Keys : Clean(ded', k) =>
                 m.key # k \/ m.val # ded.received[k].val \/ m.act = "REMOVE"
    PROVE  ReceivedIsBacked'
<1> SUFFICES ASSUME NEW k \in Keys, Clean(ded', k), Backed(k, ded.received[k].val)
             PROVE  Backed(k, ded.received[k].val)'
  BY BackingKept DEF BackedInv
<1>1. ded'.received[k] = ded.received[k]
  BY DEF CleanKept
<1>2. CASE <<k, ded.received[k].val>> \in lost
  BY <1>1, <1>2 DEF Backed
<1>3. CASE OnItsWay(k, ded.received[k].val)
  <2>1. PICK b \in pending \cup retrying \cup stale :
           b.key = k /\ b.val = ded.received[k].val /\ b.act # "REMOVE"
    BY <1>3 DEF OnItsWay
  <2>2. CASE b \in retrying \/ b # m
    <3>1. b \in pending' \cup retrying' \cup stale'
      BY <2>1, <2>2 DEF Handled
    <3> QED
      BY <1>1, <2>1, <3>1 DEF Backed, OnItsWay
  <2>3. CASE b = m
    BY <1>1, <2>1, <2>3 DEF Backed, OnItsWay, Loss
  <2> QED
    BY <2>2, <2>3
<1> QED
  BY <1>2, <1>3 DEF Backed

\* The end of a connection records what its queues and timers held.
LEMMA AbandonedIsBacked ==
    ASSUME BackedInv, NEW inHand \in SUBSET pending, Abandon(inHand), UNCHANGED ded
    PROVE  ReceivedIsBacked'
<1> SUFFICES ASSUME NEW k \in Keys, Clean(ded', k), Backed(k, ded.received[k].val)
             PROVE  Backed(k, ded.received[k].val)'
  BY BackingKept DEF BackedInv, CleanKept, Clean
<1>1. CASE <<k, ded.received[k].val>> \in lost
  BY <1>1 DEF Backed, Abandon
<1>2. CASE OnItsWay(k, ded.received[k].val)
  <2>1. PICK b \in pending \cup retrying \cup stale :
           b.key = k /\ b.val = ded.received[k].val /\ b.act # "REMOVE"
    BY <1>2 DEF OnItsWay
  <2>2. CASE b \in inHand \cup stale
    BY <2>1, <2>2 DEF Backed, OnItsWay, Abandon
  <2>3. CASE b \in (pending \ inHand) \cup retrying
    BY <2>1, <2>3 DEF Backed, Abandon, Loss
  <2> QED
    BY <2>1, <2>2, <2>3
<1> QED
  BY <1>1, <1>2 DEF Backed

\* Every step keeps ReceivedIsBacked.
LEMMA NextReceivedIsBacked ==
    ASSUME BackedInv, [Next]_vars
    PROVE  ReceivedIsBacked'
<1>0. /\ TypeOK /\ ReceivedIsBacked /\ ded \in Deduper
      /\ \A m \in pending \cup retrying \cup stale : m \in Msg
  BY DEF BackedInv, TypeOK
<1>1. ASSUME NEW m \in Traffic, Receive(m) PROVE ReceivedIsBacked'
  BY <1>0, <1>1, AcceptedIsBacked, MsgFacts DEF Receive, Accept
<1>2. ASSUME NEW m \in Traffic, ReceiveLate(m) PROVE ReceivedIsBacked'
  BY <1>0, <1>2, AcceptedIsBacked, MsgFacts DEF ReceiveLate
<1>3. ASSUME NEW m \in retrying, Retry(m) PROVE ReceivedIsBacked'
  BY <1>0, <1>3, AcceptedIsBacked DEF Retry, Accept, BackedInv, RetriesWereTried
<1>4. ASSUME NEW m \in pending \cup stale, Succeed(m) PROVE ReceivedIsBacked'
  <2>1. ASSUME NEW k \in Keys, Clean(ded', k)
        PROVE  /\ Clean(ded, k) /\ ded'.received[k] = ded.received[k]
               /\ m.key # k \/ m.val # ded.received[k].val \/ m.act = "REMOVE"
    BY <1>0, <1>4, <2>1, SucceedClean
       DEF Succeed, BackedInv, SkippedHaveNone, SkipDedupe, Clean
  <2> QED
    BY <1>4, <2>1, DoneIsBacked DEF Succeed, CleanKept
<1>5. ASSUME NEW m \in pending \cup stale, FailTransient(m) PROVE ReceivedIsBacked'
  <2>1. CleanKept(ded', ded)
    BY <1>5 DEF FailTransient, CleanKept, Clean
  <2>2. /\ NextAttempt(m).key = m.key /\ NextAttempt(m).val = m.val
        /\ NextAttempt(m).act = m.act
    BY <1>0 DEF NextAttempt, Msg
  <2>3. \/ Loss(m) \subseteq lost'
        \/ \E r \in retrying' : r.key = m.key /\ r.val = m.val /\ r.act = m.act
    BY <1>5, <2>2 DEF FailTransient
  <2>4. retrying \subseteq retrying' /\ lost \subseteq lost'
    BY <1>5 DEF FailTransient
  <2> QED
    BY <1>5, <2>1, <2>3, <2>4, DoneIsBacked DEF FailTransient
<1>6. ASSUME NEW m \in pending \cup stale, FailUnretryable(m) PROVE ReceivedIsBacked'
  <2>1. ded' = RemoveMessage(ded, m) /\ CleanKept(ded', ded)
    BY <1>0, <1>6, OpsKeepClean DEF FailUnretryable
  <2>2. ~ SkipDedupe(m) => ded'.received = [ded.received EXCEPT ![m.key] = NoEntry]
    BY <1>0, <2>1 DEF RemoveMessage, Deduper
  <2>3. \A k \in Keys : Clean(ded', k) => m.key # k
    BY <1>0, <2>1, <2>2
       DEF CleanKept, Clean, Present, NoEntry, BackedInv, SkippedHaveNone, SkipDedupe, Msg,
           Deduper, EntryMap
  <2> QED
    BY <1>6, <2>1, <2>3, DoneIsBacked DEF FailUnretryable
<1>7. ASSUME NEW m \in stale, Cancel(m) PROVE ReceivedIsBacked'
  <2>1. CleanKept(ded', ded)
    BY <1>7 DEF Cancel, CleanKept, Clean
  <2> QED
    BY <1>7, <2>1, DoneIsBacked DEF Cancel
<1>8. CASE NewConnection
  BY <1>0, <1>8, OpsKeepClean DEF NewConnection, ReceivedIsBacked
<1>9. CASE TerminateOld
  BY <1>9, AbandonedIsBacked DEF TerminateOld
<1>10. CASE Disconnect
  BY <1>10, AbandonedIsBacked DEF Disconnect
<1>11. CASE \E c \in Conns : Synced(c)
  <2>1. CleanKept(ded', ded)
    BY <1>0, <1>11, OpsKeepClean DEF Synced
  <2>2. ASSUME NEW k \in Keys, Clean(ded', k)
        PROVE  Backed(k, ded.received[k].val)'
    <3>1. Clean(ded, k) /\ ded'.received[k] = ded.received[k]
      BY <2>1, <2>2 DEF CleanKept
    <3>2. Backed(k, ded.received[k].val)
      BY <1>0, <3>1 DEF ReceivedIsBacked, Backed
    <3> QED
      BY <1>11, <3>1, <3>2 DEF Synced, Backed, OnItsWay
  <2> QED
    BY <2>2 DEF ReceivedIsBacked, Backed
<1>12. CASE Restart
  <2>1. \A k \in Keys : ded'.received[k] = NoEntry
    BY <1>12 DEF Restart, NewDeduper
  <2> QED
    BY <2>1 DEF ReceivedIsBacked, Clean, Present, NoEntry
<1>13. CASE StartRunning \/ RejectNew \/ Drained \/ FlushHashes \/ UNCHANGED vars
  BY <1>0, <1>13
     DEF StartRunning, RejectNew, Drained, FlushHashes, vars, ReceivedIsBacked, Clean, OnItsWay
<1> QED
  BY <1>1, <1>2, <1>3, <1>4, <1>5, <1>6, <1>7, <1>8, <1>9, <1>10, <1>11, <1>12, <1>13 DEF Next

(* Central never skips an event as already on its way unless a message with *)
(* that hash is being handled or retried, or was given up or abandoned      *)
(* since the current connection began.                                      *)
THEOREM ReceivedHashesAreBacked == Spec => []ReceivedIsBacked
<1>1. Init => RetriesWereTried /\ SkippedHaveNone /\ ReceivedIsBacked
  <2>1. SkipKeys \subseteq Keys
    BY KeysAssumption
  <2> QED
    BY <2>1 DEF Init, RetriesWereTried, SkippedHaveNone, ReceivedIsBacked, Clean, NewDeduper,
                Present, NoEntry
<1>2. TypeOK /\ (RetriesWereTried /\ SkippedHaveNone /\ ReceivedIsBacked) /\ [Next]_vars
        => (RetriesWereTried /\ SkippedHaveNone /\ ReceivedIsBacked)'
  BY NextRetriesWereTried, NextSkippedHaveNone, NextReceivedIsBacked DEF BackedInv
<1> QED
  BY <1>1, <1>2, TypeCorrect, PTL DEF Spec

(***************************************************************************)
(* What the Synced event may forget.                                       *)
(***************************************************************************)
\* Stored hashes stay as they are, become seen, or are dropped; those of kinds that are
\* never deduped do not appear.
SeenOrKept(d2, d1) ==
    \A k \in Keys :
        \/ d2.successfullyProcessed[k] = d1.successfullyProcessed[k]
        \/ ~ Present(d2.successfullyProcessed[k])
        \/ d2.successfullyProcessed[k].processed /\ k \notin SkipKeys

\* The operations between two calls of StartSync.
LEMMA OpsSeenOrKept ==
    ASSUME NEW d \in Deduper, NEW m \in Msg
    PROVE  /\ SeenOrKept(AfterShouldProcess(d, m), d)
           /\ SeenOrKept(MarkSuccessful(d, m), d)
           /\ SeenOrKept(RemoveMessage(d, m), d)
<1>1. m.key \in Keys /\ d.successfullyProcessed \in EntryMap
  BY DEF Msg, Deduper
<1>2. ~ Present(NoEntry)
  BY DEF Present, NoEntry
<1>3. ASSUME NEW e \in Entry PROVE ~ Present(MarkSeen(e)) \/ MarkSeen(e).processed
  BY DEF MarkSeen, Entry, Present
<1>4. SeenOrKept(AfterShouldProcess(d, m), d)
  BY <1>1, <1>2, <1>3 DEF AfterShouldProcess, SeenOrKept, SkipDedupe, EntryMap
<1>5. SeenOrKept(MarkSuccessful(d, m), d)
  BY <1>1, <1>2 DEF MarkSuccessful, SeenOrKept, SkipDedupe, EntryMap, Deduper
<1>6. SeenOrKept(RemoveMessage(d, m), d)
  BY DEF RemoveMessage, SeenOrKept, Deduper
<1> QED
  BY <1>4, <1>5, <1>6

\* ProcessSync only drops.
LEMMA ProcessSyncSeenOrKept ==
    ASSUME NEW d \in Deduper
    PROVE  SeenOrKept(ProcessSync(d), d)
BY DEF ProcessSync, SeenOrKept, Present, NoEntry, Deduper

\* A SYNC event marks the stored hash of its object.
LEMMA SyncMarks ==
    ASSUME NEW d \in Deduper, NEW m \in Msg, m.act = "SYNC", m.key \notin SkipKeys
    PROVE  LET e == AfterShouldProcess(d, m).successfullyProcessed[m.key]
           IN  Present(e) => e.processed
<1>1. m.key \in Keys /\ d.successfullyProcessed \in EntryMap
  BY DEF Msg, Deduper
<1>2. ASSUME NEW e \in Entry PROVE Present(MarkSeen(e)) => MarkSeen(e).processed
  BY DEF MarkSeen, Entry, Present
<1> QED
  BY <1>1, <1>2 DEF AfterShouldProcess, SkipDedupe, EntryMap

\* The invariant: the stored hash of an object whose SYNC event has arrived is marked,
\* and kinds that are never deduped have no hash, in memory or in the database.
SeenIsMarked ==
    \A k \in seen : Present(ded.successfullyProcessed[k]) => ded.successfullyProcessed[k].processed
SkippedNotStored ==
    \A k \in SkipKeys : ~ Present(ded.successfullyProcessed[k]) /\ persisted[k] = NoHash
SeenInv == TypeOK /\ SeenIsMarked /\ SkippedNotStored

\* A step that lists nothing and leaves the database alone.
LEMMA SeenOrKeptKeepsInv ==
    ASSUME SeenInv, SeenOrKept(ded', ded), seen' \subseteq seen, UNCHANGED persisted
    PROVE  SeenIsMarked' /\ SkippedNotStored'
BY KeysAssumption DEF SeenInv, SeenOrKept, SeenIsMarked, SkippedNotStored, TypeOK

\* Both ways a message is accepted.
LEMMA AcceptedIsMarked ==
    ASSUME SeenInv, NEW m \in Msg, ded' = AfterShouldProcess(ded, m), UNCHANGED persisted,
           seen' = IF m.act = "SYNC" THEN seen \cup {m.key} ELSE seen
    PROVE  SeenIsMarked' /\ SkippedNotStored'
<1>1. ded \in Deduper /\ SeenOrKept(ded', ded)
  BY OpsSeenOrKept DEF SeenInv, TypeOK
<1>2. SkippedNotStored'
  BY <1>1, KeysAssumption DEF SeenInv, SeenOrKept, SkippedNotStored
<1>3. \A k \in seen : Present(ded'.successfullyProcessed[k])
                      => ded'.successfullyProcessed[k].processed
  BY <1>1 DEF SeenInv, SeenOrKept, SeenIsMarked, TypeOK
<1>4. m.act = "SYNC" /\ Present(ded'.successfullyProcessed[m.key])
         => ded'.successfullyProcessed[m.key].processed
  BY <1>1, <1>2, SyncMarks DEF SkippedNotStored
<1> QED
  BY <1>2, <1>3, <1>4 DEF SeenIsMarked

\* Every step keeps the invariant.
LEMMA NextSeenInv ==
    ASSUME SeenInv, [Next]_vars
    PROVE  SeenInv'
<1>0. /\ TypeOK /\ TypeOK' /\ ded \in Deduper
      /\ \A m \in pending \cup retrying \cup stale : m \in Msg
  BY NextType DEF SeenInv, TypeOK
<1>1. ASSUME NEW m \in Traffic, Receive(m) \/ ReceiveLate(m)
      PROVE  SeenIsMarked' /\ SkippedNotStored'
  BY <1>1, AcceptedIsMarked, MsgFacts DEF Receive, ReceiveLate, Accept
<1>2. ASSUME NEW m \in retrying, Retry(m) PROVE SeenIsMarked' /\ SkippedNotStored'
  BY <1>0, <1>2, AcceptedIsMarked DEF Retry, Accept
<1>3. ASSUME NEW m \in pending \cup stale, Succeed(m) \/ FailUnretryable(m)
      PROVE  SeenIsMarked' /\ SkippedNotStored'
  BY <1>0, <1>3, OpsSeenOrKept, SeenOrKeptKeepsInv DEF Succeed, FailUnretryable
<1>4. ASSUME UNCHANGED <<ded, persisted, seen>> PROVE SeenIsMarked' /\ SkippedNotStored'
  BY <1>4 DEF SeenInv, SeenIsMarked, SkippedNotStored
<1>5. CASE NewConnection
  <2>1. seen' = {} /\ persisted' = persisted /\ ded' = StartSync(ded)
    BY <1>5 DEF NewConnection
  <2>2. \A k \in Keys : ded'.successfullyProcessed[k].val = ded.successfullyProcessed[k].val
    BY <1>0, <2>1 DEF StartSync, Unseen, Deduper, EntryMap, Entry
  <2> QED
    BY <1>0, <2>1, <2>2, KeysAssumption DEF SeenInv, SeenIsMarked, SkippedNotStored, Present
<1>6. CASE \E c \in Conns : Synced(c)
  BY <1>0, <1>6, ProcessSyncSeenOrKept, SeenOrKeptKeepsInv DEF Synced, SeenInv
<1>7. CASE FlushHashes
  <2>1. \A k \in SkipKeys : persisted'[k] = NoHash
    BY <1>7, KeysAssumption
       DEF FlushHashes, GetSuccessfulHashes, SeenInv, SkippedNotStored, Present
  <2> QED
    BY <1>0, <1>7, <2>1 DEF FlushHashes, SeenInv, SeenIsMarked, SkippedNotStored
<1>8. CASE Restart
  <2>1. PICK h \in {persisted, [k \in Keys |-> NoHash]} : ded' = NewDeduper(h)
    BY <1>8 DEF Restart
  <2>2. \A k \in SkipKeys : h[k] = NoHash
    BY <2>1, KeysAssumption DEF SeenInv, SkippedNotStored
  <2>3. \A k \in SkipKeys : ~ Present(ded'.successfullyProcessed[k])
    BY <2>1, <2>2, KeysAssumption DEF NewDeduper, Present, NoEntry
  <2> QED
    BY <1>0, <1>8, <2>3 DEF Restart, SeenInv, SeenIsMarked, SkippedNotStored
<1> QED
  BY <1>0, <1>1, <1>2, <1>3, <1>4, <1>5, <1>6, <1>7, <1>8
     DEF Next, SeenInv, FailTransient, Cancel, StartRunning, TerminateOld, RejectNew,
         Disconnect, Drained, vars

\* What ProcessSync keeps in a state of the invariant.
LEMMA SyncedKeepsSeen ==
    ASSUME SeenInv, NEW c \in Conns, Synced(c), NEW k \in Keys,
           k \in seen \ AlertKeys \/ (k \in AlertKeys /\ DeploymentOf[k] \in seen)
    PROVE  ded'.successfullyProcessed[k] = ded.successfullyProcessed[k]
<1>1. k \notin NotSynced(ded)
  BY DEF SeenInv, SeenIsMarked, NotSynced
<1>2. ~ (k \in AlertKeys /\ DeploymentOf[k] \in NotSynced(ded))
  BY KeysAssumption DEF SeenInv, SeenIsMarked, NotSynced
<1> QED
  BY <1>1, <1>2 DEF Synced, ProcessSync, SeenInv, TypeOK, Deduper

\* ProcessSync forgets no hash of an object whose SYNC event has reached Central in this
\* connection, nor of the alerts of such a deployment (deduper.go:275-299).  Objects that
\* the list reports only as unchanged ids are not covered: their hashes are forgotten.
THEOREM SyncForgetsNothingSeen == Spec => SyncKeepsSeen
<1>1. Init => SeenInv
  <2> SUFFICES ASSUME Init PROVE SeenInv
    OBVIOUS
  <2>1. seen = {} /\ \A k \in Keys : persisted[k] = NoHash
    BY DEF Init
  <2>2. \A k \in Keys : ~ Present(ded.successfullyProcessed[k])
    BY DEF Init, NewDeduper, Present, NoEntry
  <2>3. TypeOK
    BY InitType
  <2> QED
    BY <2>1, <2>2, <2>3, KeysAssumption DEF SeenInv, SeenIsMarked, SkippedNotStored
<1>2. SeenInv /\ [Next]_vars => SeenInv'
  BY NextSeenInv
<1>3. SeenInv /\ [Next]_vars =>
        [(\E c \in Conns : Synced(c)) => \A k \in Keys :
          \/ k \in seen \ AlertKeys
          \/ k \in AlertKeys /\ DeploymentOf[k] \in seen
          => ded'.successfullyProcessed[k] = ded.successfullyProcessed[k]]_vars
  BY SyncedKeepsSeen
<1> QED
  BY <1>1, <1>2, <1>3, PTL DEF Spec, SyncKeepsSeen
=============================================================================
