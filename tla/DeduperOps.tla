----------------------------- MODULE DeduperOps -----------------------------
(***************************************************************************)
(* The operations of Central's event deduper (central/hash/manager,        *)
(* deduperImpl) as functions from a deduper to a deduper.  A deduper is a  *)
(* record of the two Go maps                                               *)
(*                                                                         *)
(*    received               hashes accepted but not yet processed         *)
(*    successfullyProcessed  hashes of objects the pipeline has stored     *)
(*                                                                         *)
(* both from event keys to entries [val, processed].  A key that is absent *)
(* from the Go map has the entry NoEntry here.                             *)
(***************************************************************************)
EXTENDS Integers, FiniteSets

CONSTANTS
    Keys,          \* event keys (resource type and id)
    Hashes,        \* content hashes of resources
    NoHash,        \* stands for "no entry in the map"
    AlertKeys,     \* the keys of deploy-time alert results
    DeploymentOf,  \* the deployment key an alert key belongs to
    SkipKeys,      \* the keys of resource kinds that are never deduped
    MaxHashes      \* env.MaxEventHashSize

ASSUME NoHashAssumption == NoHash \notin Hashes
ASSUME KeysAssumption ==
    /\ AlertKeys \subseteq Keys
    /\ SkipKeys \subseteq Keys
    /\ DeploymentOf \in [AlertKeys -> Keys \ AlertKeys]
ASSUME MaxHashesAssumption == MaxHashes \in Nat

Actions == {"SYNC", "CREATE", "UPDATE", "REMOVE"}

NoEntry == [val |-> NoHash, processed |-> FALSE]
Entry == [val : Hashes \cup {NoHash}, processed : BOOLEAN]
EntryMap == [Keys -> Entry]
Deduper == [received : EntryMap, successfullyProcessed : EntryMap]

\* MsgFromSensor, as the deduper sees it: the attempt counts the retries.  The hash of a
\* REMOVE is never looked at and is NoHash here.
Msg == [key : Keys, act : Actions \ {"REMOVE"}, val : Hashes, attempt : Nat]
       \cup [key : Keys, act : {"REMOVE"}, val : {NoHash}, attempt : Nat]
\* First attempts.  To the deduper, CREATE is the same as UPDATE.
FirstMsg == [key : Keys, act : {"SYNC", "UPDATE"}, val : Hashes, attempt : {0}]
            \cup [key : Keys, act : {"REMOVE"}, val : {NoHash}, attempt : {0}]

Present(e) == e.val # NoHash

SkipDedupe(m) == m.key \in SkipKeys

\* Mutant: the map without its absent keys.
GetSuccessfulHashesPartial(d) ==
    LET present == {k \in Keys : Present(d.successfullyProcessed[k])}
    IN  [k \in present |-> d.successfullyProcessed[k].val]

\* GetSuccessfulHashes: nothing at all if there are too many hashes.
GetSuccessfulHashes(d) ==
    LET present == {k \in Keys : Present(d.successfullyProcessed[k])}
    IN  [k \in Keys |-> IF Cardinality(present) > MaxHashes
                        THEN NoHash
                        ELSE d.successfullyProcessed[k].val]

\* NewDeduper: hashes that do not stay below the limit are all discarded.
NewDeduper(hashes) ==
    LET present == {k \in Keys : hashes[k] # NoHash}
    IN  [received |-> [k \in Keys |-> NoEntry],
         successfullyProcessed |->
            [k \in Keys |-> IF Cardinality(present) < MaxHashes
                            THEN [val |-> hashes[k], processed |-> FALSE]
                            ELSE NoEntry]]

\* getValueNoLock: a received hash counts unless a new connection made it dirty.
GetValue(d, k) ==
    IF Present(d.received[k]) /\ d.received[k].processed
    THEN d.received[k].val
    ELSE d.successfullyProcessed[k].val

\* Mutant: a retry is checked like a first attempt.
ShouldReprocessInverted(d, m) == GetValue(d, m.key) # m.val

\* Mutant: a retry is not checked.
ShouldReprocessAlways(d, m) == TRUE

ShouldReprocess(d, m) == GetValue(d, m.key) = m.val

\* ShouldProcess: its result ...
ShouldProcess(d, m) ==
    \/ SkipDedupe(m)
    \/ m.act = "REMOVE"
    \/ m.attempt > 0 /\ ShouldReprocess(d, m)
    \/ m.attempt = 0 /\ GetValue(d, m.key) # m.val

\* Mutant: a SYNC event leaves the stored hash unmarked.
MarkSeenNever(e) == e

MarkSeen(e) == IF Present(e) THEN [e EXCEPT !.processed = TRUE] ELSE e

\* Mutant: an accepted hash goes straight to the map of successful ones.
AfterShouldProcessEager(d, m) ==
    IF SkipDedupe(m) \/ m.act = "REMOVE" THEN d
    ELSE [d EXCEPT !.successfullyProcessed =
             [@ EXCEPT ![m.key] = [val |-> m.val, processed |-> TRUE]]]

\* ... and its effect on the deduper.
AfterShouldProcess(d, m) ==
    IF SkipDedupe(m) THEN d
    ELSE IF m.act = "REMOVE"
    THEN [received |-> [d.received EXCEPT ![m.key] = NoEntry],
          successfullyProcessed |-> [d.successfullyProcessed EXCEPT ![m.key] = NoEntry]]
    ELSE [received |->
             IF m.attempt = 0 /\ GetValue(d, m.key) # m.val
             THEN [d.received EXCEPT ![m.key] = [val |-> m.val, processed |-> TRUE]]
             ELSE d.received,
          successfullyProcessed |->
             IF m.act = "SYNC"
             THEN [d.successfullyProcessed EXCEPT ![m.key] = MarkSeen(@)]
             ELSE d.successfullyProcessed]

\* Mutant: the stored hash does not count as seen in this connection.
MarkSuccessfulUnseen(d, m) ==
    IF SkipDedupe(m) \/ m.act = "REMOVE" THEN d
    ELSE [received |-> [d.received EXCEPT ![m.key] = NoEntry],
          successfullyProcessed |->
             [d.successfullyProcessed EXCEPT ![m.key] = [val |-> m.val, processed |-> FALSE]]]

MarkSuccessful(d, m) ==
    IF SkipDedupe(m) THEN d
    ELSE IF m.act = "REMOVE"
    THEN [d EXCEPT !.successfullyProcessed = [@ EXCEPT ![m.key] = NoEntry]]
    ELSE [received |-> IF d.received[m.key].val = m.val
                       THEN [d.received EXCEPT ![m.key] = NoEntry]
                       ELSE d.received,
          successfullyProcessed |->
             [d.successfullyProcessed EXCEPT ![m.key] = [val |-> m.val, processed |-> TRUE]]]

\* Mutant: the received hash survives an error that is not retried.
RemoveMessageNot(d, m) == d

\* RemoveMessage: forgets whatever was received for the key.
RemoveMessage(d, m) ==
    IF SkipDedupe(m) THEN d
    ELSE [d EXCEPT !.received = [@ EXCEPT ![m.key] = NoEntry]]

Unseen(map) == [k \in Keys |-> [map[k] EXCEPT !.processed = FALSE]]

StartSync(d) == [received |-> Unseen(d.received),
                 successfullyProcessed |-> Unseen(d.successfullyProcessed)]

\* The hashes ProcessSync reconciles away: not seen since StartSync.
NotSynced(d) ==
    {k \in Keys \ AlertKeys :
        /\ Present(d.successfullyProcessed[k])
        /\ ~ d.successfullyProcessed[k].processed
        /\ ~ (Present(d.received[k]) /\ d.received[k].processed)}

\* Mutant: no hash is ever reconciled away.
ProcessSyncNot(d) == d

\* An alert's hash goes with the hash of its deployment, and only then.
ProcessSync(d) ==
    LET gone == NotSynced(d)
    IN  [d EXCEPT !.successfullyProcessed =
            [k \in Keys |-> IF \/ k \in gone
                               \/ k \in AlertKeys /\ DeploymentOf[k] \in gone
                            THEN NoEntry
                            ELSE d.successfullyProcessed[k]]]
=============================================================================
