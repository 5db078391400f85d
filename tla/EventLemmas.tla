------------------------------ MODULE EventLemmas ------------------------------
(***************************************************************************)
(* What the operations of the deduping queue and of the event deduper do,    *)
(* for any queue, deduper and message: the facts that the proofs about       *)
(* EventQueues and EventSync rest on.                                       *)
(***************************************************************************)
EXTENDS DeduperOps, DedupingQueue, TLAPS

\* The items of a queue; no two of them have the same key, if they have one.
Items(q) == {q[i] : i \in 1..Len(q)}
KeysUnique(q) ==
    \A i, j \in 1..Len(q) :
        q[i].dedupeKey = q[j].dedupeKey /\ q[i].dedupeKey # NoKey => i = j

\* Pushed item x takes the place of q[i].
Replaces(q, i, x) == x.dedupeKey # NoKey /\ q[i].dedupeKey = x.dedupeKey

\* Push appends the item or replaces the queued item with its key.
LEMMA PushCases ==
    ASSUME NEW S, NEW q \in Seq(S), NEW x \in S
    PROVE  LET p == Push(q, x)
           IN  /\ p \in Seq(S)
               /\ \/ /\ Len(p) = Len(q) + 1 /\ p[Len(q) + 1] = x
                     /\ \A i \in 1..Len(q) : p[i] = q[i] /\ ~ Replaces(q, i, x)
                  \/ /\ Len(p) = Len(q) /\ \E i \in 1..Len(q) : Replaces(q, i, x)
                     /\ \A i \in 1..Len(q) : p[i] = IF Replaces(q, i, x) THEN x ELSE q[i]
<1>1. Len(q) \in Nat /\ \A i \in 1..Len(q) : q[i] \in S
  OBVIOUS
<1>2. \A i \in 1..Len(q) : i \in Queued(q, x.dedupeKey) <=> Replaces(q, i, x)
  BY DEF Queued, Replaces
<1>3. CASE Queued(q, x.dedupeKey) = {}
  <2>1. Push(q, x) = Append(q, x)
    BY <1>3 DEF Push
  <2> QED BY <1>1, <1>2, <1>3, <2>1
<1>4. CASE Queued(q, x.dedupeKey) # {}
  <2>1. Push(q, x) = [i \in 1..Len(q) |-> IF i \in Queued(q, x.dedupeKey) THEN x ELSE q[i]]
    BY <1>4 DEF Push
  <2>2. \A i \in 1..Len(q) : (IF i \in Queued(q, x.dedupeKey) THEN x ELSE q[i]) \in S
    BY <1>1
  <2>3. Push(q, x) \in Seq(S) /\ Len(Push(q, x)) = Len(q)
    BY <1>1, <2>1, <2>2
  <2>4. \E i \in 1..Len(q) : Replaces(q, i, x)
    BY <1>2, <1>4 DEF Queued
  <2>5. \A i \in 1..Len(q) : Push(q, x)[i] = IF Replaces(q, i, x) THEN x ELSE q[i]
    BY <1>2, <2>1
  <2> QED BY <2>3, <2>4, <2>5
<1> QED BY <1>3, <1>4

\* The items after a push: the new one is there, and only an item with its key is gone.
LEMMA PushItems ==
    ASSUME NEW S, NEW q \in Seq(S), NEW x \in S
    PROVE  /\ Push(q, x) \in Seq(S) /\ x \in Items(Push(q, x))
           /\ Items(Push(q, x)) \subseteq Items(q) \cup {x}
           /\ \A m \in Items(q) :
                 m \in Items(Push(q, x)) \/ (x.dedupeKey # NoKey /\ m.dedupeKey = x.dedupeKey)
<1> DEFINE p == Push(q, x)
<1>0. Len(q) \in Nat
  OBVIOUS
<1>1. /\ p \in Seq(S)
      /\ \/ /\ Len(p) = Len(q) + 1 /\ p[Len(q) + 1] = x
            /\ \A i \in 1..Len(q) : p[i] = q[i] /\ ~ Replaces(q, i, x)
         \/ /\ Len(p) = Len(q) /\ \E i \in 1..Len(q) : Replaces(q, i, x)
            /\ \A i \in 1..Len(q) : p[i] = IF Replaces(q, i, x) THEN x ELSE q[i]
  BY PushCases
<1> HIDE DEF p
<1>2. x \in Items(p)
  BY <1>0, <1>1 DEF Items
<1>3. Items(p) \subseteq Items(q) \cup {x}
  BY <1>0, <1>1 DEF Items
<1>4. \A m \in Items(q) : m \in Items(p) \/ (x.dedupeKey # NoKey /\ m.dedupeKey = x.dedupeKey)
  BY <1>0, <1>1 DEF Items, Replaces
<1> QED BY <1>1, <1>2, <1>3, <1>4 DEF p

\* No key is ever queued twice.
LEMMA PushUnique ==
    ASSUME NEW S, NEW q \in Seq(S), NEW x \in S, KeysUnique(q)
    PROVE  KeysUnique(Push(q, x))
<1> DEFINE p == Push(q, x)
<1>0. Len(q) \in Nat
  OBVIOUS
<1>1. \/ /\ Len(p) = Len(q) + 1 /\ p[Len(q) + 1] = x
         /\ \A i \in 1..Len(q) : p[i] = q[i] /\ ~ Replaces(q, i, x)
      \/ /\ Len(p) = Len(q) /\ \E i \in 1..Len(q) : Replaces(q, i, x)
         /\ \A i \in 1..Len(q) : p[i] = IF Replaces(q, i, x) THEN x ELSE q[i]
  BY PushCases
<1> HIDE DEF p
<1> QED BY <1>0, <1>1 DEF KeysUnique, Replaces, p

\* The items that are left after a pull.
LEMMA PullItems ==
    ASSUME NEW S, NEW q \in Seq(S), q # <<>>
    PROVE  /\ Pulled(q) = q[1] /\ Pulled(q) \in S /\ AfterPull(q) \in Seq(S)
           /\ Len(q) \in Nat \ {0} /\ Len(AfterPull(q)) = Len(q) - 1
           /\ \A i \in 1..(Len(q) - 1) : AfterPull(q)[i] = q[i + 1]
           /\ Items(q) = Items(AfterPull(q)) \cup {Pulled(q)}
<1>1. /\ Pulled(q) = q[1] /\ Pulled(q) \in S /\ AfterPull(q) \in Seq(S)
      /\ Len(q) \in Nat \ {0} /\ Len(AfterPull(q)) = Len(q) - 1
      /\ \A i \in 1..(Len(q) - 1) : AfterPull(q)[i] = q[i + 1]
  BY DEF Pulled, AfterPull
<1>2. Items(AfterPull(q)) \cup {Pulled(q)} \subseteq Items(q)
  BY <1>1 DEF Items
<1>3. ASSUME NEW i \in 1..Len(q) PROVE q[i] \in Items(AfterPull(q)) \cup {Pulled(q)}
  <2>1. CASE i = 1
    BY <1>1, <2>1
  <2>2. CASE i # 1
    <3>1. i - 1 \in 1..(Len(q) - 1) /\ (i - 1) + 1 = i
      BY <1>1, <2>2
    <3>2. AfterPull(q)[i - 1] = q[i]
      BY <1>1, <3>1
    <3> QED BY <1>1, <3>1, <3>2 DEF Items
  <2> QED BY <2>1, <2>2
<1> QED BY <1>1, <1>2, <1>3 DEF Items

LEMMA PullUnique ==
    ASSUME NEW S, NEW q \in Seq(S), q # <<>>, KeysUnique(q)
    PROVE  KeysUnique(AfterPull(q))
<1>1. /\ Len(q) \in Nat \ {0} /\ Len(AfterPull(q)) = Len(q) - 1
      /\ \A i \in 1..(Len(q) - 1) : AfterPull(q)[i] = q[i + 1]
  BY PullItems
<1> QED BY <1>1 DEF KeysUnique
-----------------------------------------------------------------------------
\* The messages that the deduper's operations are defined for.
Known(m) == m.key \in Keys /\ m.val \in Hashes

LEMMA NewDeduperFacts ==
    ASSUME NEW h \in [Keys -> Hashes \cup {NoHash}]
    PROVE  /\ NewDeduper(h) \in Deduper
           /\ \A k \in Keys : /\ NewDeduper(h).received[k] = NoEntry
                              /\ NewDeduper(h).successfullyProcessed[k].val \in {NoHash, h[k]}
BY DEF NewDeduper, Deduper, EntryMap, Entry, NoEntry

\* ShouldProcess accepts the first attempt of a new hash and remembers it; a retry changes
\* no hash; a REMOVE forgets both.
LEMMA AcceptFacts ==
    ASSUME NEW d \in Deduper, NEW m, Known(m)
    PROVE  LET e == AfterShouldProcess(d, m)
           IN  /\ e \in Deduper
               /\ \A k \in Keys : k # m.key \/ k \in SkipKeys =>
                     /\ e.received[k] = d.received[k]
                     /\ e.successfullyProcessed[k] = d.successfullyProcessed[k]
               /\ m.key \notin SkipKeys /\ m.act = "REMOVE" =>
                     e.received[m.key] = NoEntry /\ e.successfullyProcessed[m.key] = NoEntry
               /\ m.key \notin SkipKeys /\ m.act # "REMOVE" =>
                     /\ e.received[m.key] =
                          IF m.attempt = 0 /\ GetValue(d, m.key) # m.val
                          THEN [val |-> m.val, processed |-> TRUE] ELSE d.received[m.key]
                     /\ e.successfullyProcessed[m.key].val = d.successfullyProcessed[m.key].val
<1>1. /\ m.key \in Keys /\ m.val \in Hashes
      /\ d.received \in EntryMap /\ d.successfullyProcessed \in EntryMap
      /\ d = [received |-> d.received, successfullyProcessed |-> d.successfullyProcessed]
  BY DEF Known, Deduper
<1>2. NoEntry \in Entry /\ [val |-> m.val, processed |-> TRUE] \in Entry
  BY <1>1 DEF NoEntry, Entry
<1>3. \A e \in Entry : MarkSeen(e) \in Entry /\ MarkSeen(e).val = e.val
  BY DEF MarkSeen, Entry
<1>4. CASE m.key \in SkipKeys
  BY <1>1, <1>4 DEF AfterShouldProcess, SkipDedupe
<1>5. CASE m.key \notin SkipKeys /\ m.act = "REMOVE"
  <2> DEFINE r == [d.received EXCEPT ![m.key] = NoEntry]
             s == [d.successfullyProcessed EXCEPT ![m.key] = NoEntry]
  <2>1. AfterShouldProcess(d, m) = [received |-> r, successfullyProcessed |-> s]
    BY <1>5 DEF AfterShouldProcess, SkipDedupe
  <2>2. r \in EntryMap /\ s \in EntryMap
    BY <1>1, <1>2 DEF EntryMap
  <2>3. /\ r[m.key] = NoEntry /\ s[m.key] = NoEntry
        /\ \A k \in Keys : k # m.key => r[k] = d.received[k] /\ s[k] = d.successfullyProcessed[k]
    BY <1>1 DEF EntryMap
  <2> HIDE DEF r, s
  <2> QED BY <1>5, <2>1, <2>2, <2>3 DEF Deduper
<1>6. CASE m.key \notin SkipKeys /\ m.act # "REMOVE"
  <2> DEFINE new == m.attempt = 0 /\ GetValue(d, m.key) # m.val
             r == IF new
                  THEN [d.received EXCEPT ![m.key] = [val |-> m.val, processed |-> TRUE]]
                  ELSE d.received
             s == IF m.act = "SYNC"
                  THEN [d.successfullyProcessed EXCEPT ![m.key] = MarkSeen(@)]
                  ELSE d.successfullyProcessed
  <2>1. AfterShouldProcess(d, m) = [received |-> r, successfullyProcessed |-> s]
    BY <1>6 DEF AfterShouldProcess, SkipDedupe
  <2>2. r \in EntryMap /\ s \in EntryMap
    BY <1>1, <1>2, <1>3 DEF EntryMap
  <2>3. /\ r[m.key] = IF new THEN [val |-> m.val, processed |-> TRUE] ELSE d.received[m.key]
        /\ s[m.key].val = d.successfullyProcessed[m.key].val
        /\ \A k \in Keys : k # m.key => r[k] = d.received[k] /\ s[k] = d.successfullyProcessed[k]
    BY <1>1, <1>3 DEF EntryMap
  <2> HIDE DEF r, s
  <2> QED BY <1>6, <2>1, <2>2, <2>3 DEF Deduper
<1> QED BY <1>4, <1>5, <1>6

\* MarkSuccessful: the hash becomes a successful one, and is no longer just received.
LEMMA MarkFacts ==
    ASSUME NEW d \in Deduper, NEW m, Known(m)
    PROVE  LET e == MarkSuccessful(d, m)
           IN  /\ e \in Deduper
               /\ \A k \in Keys : k # m.key \/ k \in SkipKeys =>
                     /\ e.received[k] = d.received[k]
                     /\ e.successfullyProcessed[k] = d.successfullyProcessed[k]
               /\ m.key \notin SkipKeys /\ m.act = "REMOVE" =>
                     /\ e.received[m.key] = d.received[m.key]
                     /\ e.successfullyProcessed[m.key] = NoEntry
               /\ m.key \notin SkipKeys /\ m.act # "REMOVE" =>
                     /\ e.received[m.key] = IF d.received[m.key].val = m.val
                                            THEN NoEntry ELSE d.received[m.key]
                     /\ e.successfullyProcessed[m.key] = [val |-> m.val, processed |-> TRUE]
BY DEF Known, MarkSuccessful, SkipDedupe, Deduper, EntryMap, Entry, NoEntry

\* RemoveMessage: nothing is received for the key any more.
LEMMA ForgetFacts ==
    ASSUME NEW d \in Deduper, NEW m, Known(m)
    PROVE  LET e == RemoveMessage(d, m)
           IN  /\ e \in Deduper /\ e.successfullyProcessed = d.successfullyProcessed
               /\ \A k \in Keys : k # m.key \/ k \in SkipKeys => e.received[k] = d.received[k]
               /\ m.key \notin SkipKeys => e.received[m.key] = NoEntry
BY DEF Known, RemoveMessage, SkipDedupe, Deduper, EntryMap, Entry, NoEntry
=============================================================================
