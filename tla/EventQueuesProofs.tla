--------------------------- MODULE EventQueuesProofs ---------------------------
(***************************************************************************)
(* Proofs about EventQueues: for any keys and shards, any number of events   *)
(* and attempts, and any faults, the events of a resource are handled one    *)
(* by one, no older state of a resource overwrites a newer one, and one      *)
(* failure is healed by its retry.                                          *)
(***************************************************************************)
EXTENDS EventQueues, EventLemmas

\* The messages in the queues of the workers, in their hands, and all that are on their way.
Queues == UNION {Items(workerQ[w]) : w \in Workers}
Hand == {handling[w] : w \in Workers} \ {Idle}
Flight == Items(connQ) \cup Queues \cup Hand \cup retrying

\* Those that handleMessage has seen at least once.
Handled == {m \in Items(connQ) : m.attempt > 0} \cup Queues \cup Hand \cup retrying

\* Every worker has messages of its own only.
Placed ==
    /\ \A w \in Workers : \A m \in Items(workerQ[w]) : WorkerOf(m.key) = w
    /\ \A w \in Workers : handling[w] # Idle => WorkerOf(handling[w].key) = w

\* The dedupe key of a first attempt, and that of a handled message.
FirstKey(k) == IF k.kind = "reprocess" THEN <<"risk", k.id>> ELSE NoKey
Keyed(m) ==
    /\ m.key.kind = "reprocess" => m.dedupeKey = <<"risk", m.key.id>>
    /\ m.key.kind \in {"inventory", "index"} => m.dedupeKey # NoKey /\ m.dedupeKey[1] \notin Ids
    /\ m.key.kind \notin {"reprocess", "inventory", "index"} =>
          m.dedupeKey = IF ShallDedupe(m) THEN <<m.key.id>> ELSE NoKey

Tagged ==
    /\ \A m \in Handled : Keyed(m)
    /\ \A m \in Items(connQ) : m.attempt = 0 => m.dedupeKey = FirstKey(m.key)
    /\ \A m \in Handled : m.attempt > 0 => failures[m.key.id] # "none"
    /\ \A m \in retrying : m.attempt > 0

\* No queue holds two items with the same dedupe key.
QueuesUnique == KeysUnique(connQ) /\ \A w \in Workers : KeysUnique(workerQ[w])

TInv == TypeOK /\ Placed /\ Tagged /\ QueuesUnique

-----------------------------------------------------------------------------
\* Types.
DedupeKeys == Seq({"risk", "NodeInventory", "NodeIndex"} \cup Ids)

LEMMA ConstantFacts ==
    /\ MaxAttempts \in Nat \ {0} /\ MaxEvents \in Nat /\ Hashes = 1..MaxEvents /\ NoHash = 0
    /\ \A k \in Keys : k.kind \in Kinds /\ k.id \in Ids
    /\ \A i \in Ids : i \notin {"risk", "NodeInventory", "NodeIndex"}
    /\ \A k, l \in Keys : k.kind = l.kind /\ k.id = l.id => k = l
BY EventsAssumption DEF Ids

LEMMA WorkerOfType == ASSUME NEW k \in Keys PROVE WorkerOf(k) \in Workers
<1>1. WorkerType(k.kind) \in Kinds
  BY EventsAssumption DEF WorkerType, Kinds
<1> QED BY <1>1 DEF WorkerOf, Workers, Ids

LEMMA MessageFacts ==
    ASSUME NEW m \in Message
    PROVE  /\ m.key \in Keys /\ m.act \in Actions /\ m.val \in Hashes /\ m.val \in Nat \ {0}
           /\ m.attempt \in 0..(MaxAttempts - 1) /\ m.attempt \in Nat
           /\ m.dedupeKey \in DedupeKeys /\ m.key.id \in Ids /\ m # Idle /\ Known(m)
<1>1. /\ m.key \in Keys /\ m.act \in Actions /\ m.val \in Hashes
      /\ m.attempt \in 0..(MaxAttempts - 1) /\ m.dedupeKey \in DedupeKeys
  BY DEF Message, DedupeKeys
<1>2. m.attempt \in Nat /\ m.val \in Nat \ {0}
  BY <1>1, ConstantFacts
<1>3. Idle.attempt = -1
  BY DEF Idle
<1> QED BY <1>1, <1>2, <1>3, ConstantFacts DEF Known

LEMMA TypeFacts ==
    ASSUME TypeOK
    PROVE  /\ connQ \in Seq(Message) /\ Items(connQ) \subseteq Message
           /\ \A w \in Workers : workerQ[w] \in Seq(Message) /\ Items(workerQ[w]) \subseteq Message
           /\ Hand \subseteq Message /\ Queues \subseteq Message /\ Flight \subseteq Message
           /\ Handled \subseteq Flight /\ Handled \subseteq Message
<1>1. \A q \in Seq(Message) : Items(q) \subseteq Message
  BY DEF Items
<1>2. connQ \in Seq(Message) /\ \A w \in Workers : workerQ[w] \in Seq(Message)
  BY DEF TypeOK
<1>3. Hand \subseteq Message /\ retrying \subseteq Message
  BY DEF TypeOK, Hand
<1>4. Queues \subseteq Message
  BY <1>1, <1>2 DEF Queues
<1> QED BY <1>1, <1>2, <1>3, <1>4 DEF Flight, Handled

LEMMA FirstKeyType == ASSUME NEW k \in Keys PROVE FirstKey(k) \in DedupeKeys
<1>1. k.id \in Ids
  BY ConstantFacts
<1>2. <<"risk", k.id>> \in DedupeKeys /\ NoKey \in DedupeKeys
  BY <1>1 DEF DedupeKeys, NoKey
<1> QED BY <1>2 DEF FirstKey

\* The message with the dedupe key that handleMessage and addMultiplexed give it.
Rekeyed(m) == [m EXCEPT !.dedupeKey = DedupeKeyOf(m)]

LEMMA DedupeKeyType == ASSUME NEW m \in Message PROVE DedupeKeyOf(m) \in DedupeKeys
<1> DEFINE dk == IF m.key.kind # "reprocess" /\ ShallDedupe(m) THEN <<m.key.id>> ELSE m.dedupeKey
<1>1. dk \in DedupeKeys
  <2>1. m.key.id \in Ids /\ m.dedupeKey \in DedupeKeys
    BY MessageFacts
  <2>2. <<m.key.id>> \in DedupeKeys
    BY <2>1 DEF DedupeKeys
  <2> QED BY <2>1, <2>2
<1>2. <<"NodeInventory">> \in DedupeKeys /\ <<"NodeIndex">> \in DedupeKeys
  BY DEF DedupeKeys
<1>3. DedupeKeyOf(m) \in {<<"NodeInventory">> \o dk, <<"NodeIndex">> \o dk, dk}
  BY DEF DedupeKeyOf
<1> HIDE DEF dk
<1>4. <<"NodeInventory">> \o dk \in DedupeKeys /\ <<"NodeIndex">> \o dk \in DedupeKeys
  BY <1>1, <1>2 DEF DedupeKeys
<1> QED BY <1>1, <1>3, <1>4

LEMMA RekeyedType ==
    ASSUME NEW m \in Message
    PROVE  /\ Rekeyed(m) \in Message /\ Rekeyed(m).key = m.key /\ Rekeyed(m).act = m.act
           /\ Rekeyed(m).val = m.val /\ Rekeyed(m).attempt = m.attempt
           /\ Rekeyed(m).dedupeKey = DedupeKeyOf(m)
<1>1. DedupeKeyOf(m) \in DedupeKeys
  BY DedupeKeyType
<1> QED BY <1>1 DEF Rekeyed, Message, DedupeKeys

LEMMA RekeyedKeyed ==
    ASSUME NEW m \in Message, Keyed(m) \/ m.dedupeKey = FirstKey(m.key)
    PROVE  Keyed(Rekeyed(m))
<1> DEFINE r == Rekeyed(m)
<1>1. /\ r.key = m.key /\ r.act = m.act /\ r.dedupeKey = DedupeKeyOf(m)
      /\ ShallDedupe(r) = ShallDedupe(m)
  BY RekeyedType DEF ShallDedupe
<1>2. CASE m.key.kind = "reprocess"
  BY <1>1, <1>2 DEF DedupeKeyOf, Keyed, FirstKey
<1>3. CASE m.key.kind \in {"inventory", "index"}
  <2> DEFINE dk == IF ShallDedupe(m) THEN <<m.key.id>> ELSE m.dedupeKey
  <2>1. DedupeKeyOf(m) = <<"NodeInventory">> \o dk \/ DedupeKeyOf(m) = <<"NodeIndex">> \o dk
    BY <1>3 DEF DedupeKeyOf
  <2>2. dk \in DedupeKeys
    <3>1. m.key.id \in Ids /\ m.dedupeKey \in DedupeKeys
      BY MessageFacts
    <3>2. <<m.key.id>> \in DedupeKeys
      BY <3>1 DEF DedupeKeys
    <3> QED BY <3>1, <3>2
  <2> HIDE DEF dk
  <2>3. ASSUME NEW s \in {"NodeInventory", "NodeIndex"}
        PROVE  (<<s>> \o dk)[1] = s /\ <<s>> \o dk # NoKey
    BY <2>2 DEF DedupeKeys, NoKey
  <2>4. r.dedupeKey # NoKey /\ r.dedupeKey[1] \in {"NodeInventory", "NodeIndex"}
    BY <1>1, <2>1, <2>3
  <2> QED BY <1>1, <1>3, <2>4, ConstantFacts DEF Keyed
<1>4. CASE m.key.kind \notin {"reprocess", "inventory", "index"}
  <2>1. DedupeKeyOf(m) = IF ShallDedupe(m) THEN <<m.key.id>> ELSE m.dedupeKey
    BY <1>4 DEF DedupeKeyOf
  <2>2. ~ ShallDedupe(m) => m.dedupeKey = NoKey
    BY <1>4 DEF Keyed, FirstKey
  <2> QED BY <1>1, <1>4, <2>1, <2>2 DEF Keyed
<1> QED BY <1>2, <1>3, <1>4

\* handleMessage: the head of the connection's queue goes to its worker, or is dropped.
LEMMA HandleFacts ==
    ASSUME TypeOK, HandleMessage
    PROVE  LET m == Rekeyed(Pulled(connQ))
           IN  /\ Pulled(connQ) \in Message /\ Pulled(connQ) = connQ[1] /\ m \in Message
               /\ connQ # <<>> /\ connQ' = AfterPull(connQ) /\ ded' = AfterShouldProcess(ded, m)
               /\ WorkerOf(m.key) \in Workers
               /\ \A w \in Workers : workerQ'[w] =
                     IF ShouldProcess(ded, m) /\ w = WorkerOf(m.key)
                     THEN Push(workerQ[w], m) ELSE workerQ[w]
               /\ workerQ' \in [Workers -> Seq(Message)]
<1> DEFINE m == Rekeyed(Pulled(connQ))
<1>1. connQ # <<>> /\ connQ' = AfterPull(connQ) /\ connQ \in Seq(Message)
  BY DEF HandleMessage, TypeOK
<1>2. Pulled(connQ) \in Message /\ Pulled(connQ) = connQ[1]
  BY <1>1, PullItems
<1>3. m \in Message /\ m.key \in Keys
  BY <1>2, RekeyedType, MessageFacts
<1>4. /\ ded' = AfterShouldProcess(ded, m)
      /\ workerQ' = IF ShouldProcess(ded, m)
                    THEN [workerQ EXCEPT ![WorkerOf(m.key)] = Push(@, m)] ELSE workerQ
  BY DEF HandleMessage, Rekeyed
<1> HIDE DEF m
<1>5. workerQ \in [Workers -> Seq(Message)] /\ WorkerOf(m.key) \in Workers
  BY <1>3, WorkerOfType DEF TypeOK
<1>6. Push(workerQ[WorkerOf(m.key)], m) \in Seq(Message)
  BY <1>3, <1>5, PushCases
<1> QED BY <1>1, <1>2, <1>3, <1>4, <1>5, <1>6 DEF m

LEMMA EventItem ==
    ASSUME TypeOK, NEW k \in Keys, NEW act \in ActionsOf(k.kind), Event(k, act)
    PROVE  LET x == [key |-> k, act |-> act, val |-> sent + 1, attempt |-> 0,
                     dedupeKey |-> FirstKey(k)]
           IN  /\ x \in Message /\ connQ' = Push(connQ, x) /\ connQ' \in Seq(Message)
               /\ sent + 1 \in 0..MaxEvents
<1> DEFINE x == [key |-> k, act |-> act, val |-> sent + 1, attempt |-> 0,
                 dedupeKey |-> FirstKey(k)]
<1>1. act \in Actions
  BY DEF ActionsOf, Actions
<1>2. sent + 1 \in Hashes /\ 0 \in 0..(MaxAttempts - 1) /\ sent + 1 \in 0..MaxEvents
  BY ConstantFacts DEF Event, TypeOK
<1>3. FirstKey(k) \in DedupeKeys
  BY FirstKeyType
<1>4. x \in Message
  BY <1>1, <1>2, <1>3 DEF Message, DedupeKeys
<1>5. connQ' = Push(connQ, x)
  BY DEF Event, FirstKey
<1> HIDE DEF x
<1>6. connQ' \in Seq(Message)
  BY <1>4, <1>5, PushCases DEF TypeOK
<1> QED BY <1>2, <1>4, <1>5, <1>6 DEF x

LEMMA NextAttemptType ==
    ASSUME NEW m \in Message
    PROVE  LET n == NextAttempt(m)
           IN  /\ n.key = m.key /\ n.act = m.act /\ n.val = m.val /\ n.dedupeKey = m.dedupeKey
               /\ n.attempt = m.attempt + 1 /\ (~ OutOfAttempts(n) => n \in Message)
<1>1. /\ NextAttempt(m).key = m.key /\ NextAttempt(m).act = m.act /\ NextAttempt(m).val = m.val
      /\ NextAttempt(m).dedupeKey = m.dedupeKey /\ NextAttempt(m).attempt = m.attempt + 1
  BY DEF NextAttempt, Message
<1>2. m.attempt \in 0..(MaxAttempts - 1)
  BY MessageFacts
<1>3. m.attempt + 1 # MaxAttempts => m.attempt + 1 \in 0..(MaxAttempts - 1)
  BY <1>2, ConstantFacts
<1> DEFINE a == m.attempt + 1
<1>4. NextAttempt(m) = [m EXCEPT !.attempt = a]
  BY DEF NextAttempt, Message
<1> HIDE DEF a
<1>5. a \in 0..(MaxAttempts - 1) => [m EXCEPT !.attempt = a] \in Message
  BY DEF Message
<1> QED BY <1>1, <1>3, <1>4, <1>5 DEF OutOfAttempts, a

\* A worker starts: the head of its queue is in its hands.
LEMMA StartFacts ==
    ASSUME TypeOK, NEW w \in Workers, StartWork(w)
    PROVE  /\ handling[w] = Idle /\ workerQ[w] # <<>> /\ handling'[w] = Pulled(workerQ[w])
           /\ handling'[w] \in Message /\ workerQ'[w] = AfterPull(workerQ[w])
           /\ \A v \in Workers : v # w => handling'[v] = handling[v] /\ workerQ'[v] = workerQ[v]
           /\ workerQ' \in [Workers -> Seq(Message)]
<1>1. /\ workerQ \in [Workers -> Seq(Message)] /\ workerQ[w] # <<>> /\ handling[w] = Idle
      /\ handling' = [handling EXCEPT ![w] = Pulled(workerQ[w])]
      /\ workerQ' = [workerQ EXCEPT ![w] = AfterPull(@)]
  BY DEF TypeOK, StartWork
<1>2. Pulled(workerQ[w]) \in Message /\ AfterPull(workerQ[w]) \in Seq(Message)
  BY <1>1, PullItems
<1>3. DOMAIN handling = Workers
  BY DEF TypeOK
<1> QED BY <1>1, <1>2, <1>3

\* A worker ends with what it is handling.
LEMMA FinishFacts ==
    ASSUME TypeOK, NEW w \in Workers, Finish(w)
    PROVE  /\ handling[w] \in Message /\ handling[w] # Idle /\ handling'[w] = Idle
           /\ \A v \in Workers : v # w => handling'[v] = handling[v]
           /\ handling' \in [Workers -> {Idle} \cup Message]
BY DEF TypeOK, Finish

LEMMA InitTypes == Init => TypeOK
<1> SUFFICES ASSUME Init PROVE TypeOK
  OBVIOUS
<1>1. [k \in Keys |-> NoHash] \in [Keys -> Hashes \cup {NoHash}]
  OBVIOUS
<1>2. ded \in Deduper
  BY <1>1, NewDeduperFacts DEF Init
<1>3. <<>> \in Seq(Message)
  OBVIOUS
<1>4. workerQ \in [Workers -> Seq(Message)] /\ connQ \in Seq(Message)
  BY <1>3 DEF Init
<1>5. handling \in [Workers -> {Idle} \cup Message]
  BY DEF Init
<1>6. 0 \in 0..MaxEvents /\ NoHash = 0
  BY ConstantFacts
<1>7. /\ newest \in [Keys -> 0..MaxEvents] /\ stored \in [Keys -> 0..MaxEvents]
      /\ sent \in 0..MaxEvents
  BY <1>6 DEF Init
<1>8. failures \in [Ids -> {"none", "one", "several"}]
  BY DEF Init
<1> QED BY <1>2, <1>4, <1>5, <1>7, <1>8 DEF Init, TypeOK

LEMMA NextTypes == TypeOK /\ [Next]_vars => TypeOK'
<1> SUFFICES ASSUME TypeOK, [Next]_vars PROVE TypeOK'
  OBVIOUS
<1>1. ASSUME NEW k \in Keys, NEW act \in ActionsOf(k.kind), Event(k, act) PROVE TypeOK'
  <2>1. connQ' \in Seq(Message) /\ sent + 1 \in 0..MaxEvents
    BY <1>1, EventItem
  <2>2. newest' \in [Keys -> 0..MaxEvents] /\ sent' \in 0..MaxEvents /\ removed' \subseteq Keys
    BY <1>1, <2>1 DEF Event, TypeOK
  <2>3. UNCHANGED <<workerQ, handling, retrying, ded, stored, lost, failures>>
    BY <1>1 DEF Event
  <2> QED BY <2>1, <2>2, <2>3 DEF TypeOK
<1>2. CASE HandleMessage
  <2> DEFINE m == Rekeyed(Pulled(connQ))
  <2>1. /\ m \in Message /\ connQ' = AfterPull(connQ) /\ connQ # <<>>
        /\ ded' = AfterShouldProcess(ded, m) /\ workerQ' \in [Workers -> Seq(Message)]
    BY <1>2, HandleFacts
  <2> HIDE DEF m
  <2>2. connQ' \in Seq(Message)
    BY <2>1, PullItems DEF TypeOK
  <2>3. ded' \in Deduper
    BY <2>1, MessageFacts, AcceptFacts DEF TypeOK
  <2>4. UNCHANGED <<handling, retrying, sent, newest, removed, stored, lost, failures>>
    BY <1>2 DEF HandleMessage
  <2> QED BY <2>1, <2>2, <2>3, <2>4 DEF TypeOK
<1>3. ASSUME NEW w \in Workers, StartWork(w) PROVE TypeOK'
  <2>1. workerQ' \in [Workers -> Seq(Message)] /\ handling'[w] \in Message
    BY <1>3, StartFacts
  <2>2. handling' \in [Workers -> {Idle} \cup Message]
    BY <1>3, <2>1 DEF StartWork, TypeOK
  <2>3. UNCHANGED <<connQ, retrying, ded, sent, newest, removed, stored, lost, failures>>
    BY <1>3 DEF StartWork
  <2> QED BY <2>1, <2>2, <2>3 DEF TypeOK
<1>4. ASSUME NEW w \in Workers, Succeed(w) PROVE TypeOK'
  <2>1. handling[w] \in Message /\ handling' \in [Workers -> {Idle} \cup Message]
    BY <1>4, FinishFacts DEF Succeed
  <2>2. PICK m \in Message : m = handling[w]
    BY <2>1
  <2>3. m.key \in Keys /\ m.val \in 0..MaxEvents /\ Known(m)
    BY MessageFacts, ConstantFacts
  <2>4. ded' \in Deduper
    BY <1>4, <2>2, <2>3, MarkFacts DEF TypeOK, Succeed
  <2>5. stored' \in [Keys -> 0..MaxEvents]
    BY <1>4, <2>2, <2>3 DEF TypeOK, Succeed
  <2>6. UNCHANGED <<connQ, workerQ, retrying, sent, newest, removed, lost, failures>>
    BY <1>4 DEF Succeed
  <2> QED BY <2>1, <2>4, <2>5, <2>6 DEF TypeOK
<1>5. ASSUME NEW m \in Message, Failed(m) PROVE failures' \in [Ids -> {"none", "one", "several"}]
  BY <1>5, MessageFacts DEF Failed, TypeOK
<1>6. ASSUME NEW w \in Workers, FailTransient(w) PROVE TypeOK'
  <2>1. handling[w] \in Message /\ handling' \in [Workers -> {Idle} \cup Message]
    BY <1>6, FinishFacts DEF FailTransient
  <2>2. PICK m \in Message : m = handling[w]
    BY <2>1
  <2> DEFINE n == NextAttempt(m)
  <2>3. n.key \in Keys /\ n.val \in Hashes /\ n.key = m.key /\ (~ OutOfAttempts(n) => n \in Message)
    BY MessageFacts, NextAttemptType
  <2>4. Failed(m)
    <3>1. Failed(n)
      BY <1>6, <2>2 DEF FailTransient
    <3> HIDE DEF n
    <3> QED BY <2>3, <3>1 DEF Failed
  <2>5. \/ lost' = lost \cup {<<n.key, n.val>>} /\ retrying' = retrying
        \/ ~ OutOfAttempts(n) /\ retrying' = retrying \cup {n} /\ lost' = lost
    BY <1>6, <2>2 DEF FailTransient
  <2> HIDE DEF n
  <2>6. retrying' \subseteq Message /\ lost' \subseteq Keys \X Hashes
    BY <2>3, <2>5 DEF TypeOK
  <2>7. UNCHANGED <<connQ, workerQ, ded, sent, newest, removed, stored>>
    BY <1>6 DEF FailTransient
  <2> QED BY <1>5, <2>1, <2>4, <2>6, <2>7 DEF TypeOK
<1>7. ASSUME NEW w \in Workers, FailUnretryable(w) PROVE TypeOK'
  <2>1. handling[w] \in Message /\ handling' \in [Workers -> {Idle} \cup Message]
    BY <1>7, FinishFacts DEF FailUnretryable
  <2>2. PICK m \in Message : m = handling[w]
    BY <2>1
  <2>3. m.key \in Keys /\ m.val \in Hashes /\ Known(m)
    BY MessageFacts
  <2>4. ded' \in Deduper /\ lost' \subseteq Keys \X Hashes
    BY <1>7, <2>2, <2>3, ForgetFacts DEF TypeOK, FailUnretryable
  <2>5. Failed(m) /\ UNCHANGED <<connQ, workerQ, retrying, sent, newest, removed, stored>>
    BY <1>7, <2>2 DEF FailUnretryable
  <2> QED BY <1>5, <2>1, <2>4, <2>5 DEF TypeOK
<1>8. ASSUME NEW m \in retrying, Retry(m) PROVE TypeOK'
  <2>1. m \in Message
    BY DEF TypeOK
  <2>2. connQ' \in Seq(Message)
    BY <1>8, <2>1, PushCases DEF Retry, TypeOK
  <2>3. retrying' \subseteq Message
    BY <1>8 DEF Retry, TypeOK
  <2> QED BY <1>8, <2>2, <2>3 DEF Retry, TypeOK
<1>9. CASE UNCHANGED vars
  BY <1>9 DEF vars, TypeOK
<1> QED BY <1>1, <1>2, <1>3, <1>4, <1>6, <1>7, <1>8, <1>9 DEF Next

\* EventQueues.TypeOK: the variables keep their types, for any keys and faults and any
\* number of events; no message in the queues has had maxHandlerAttempts attempts.
THEOREM TypeCorrect == Spec => []TypeOK
BY InitTypes, NextTypes, PTL DEF Spec

-----------------------------------------------------------------------------
\* Where messages are, and their dedupe keys.
LEMMA InitPlaces == Init => Placed /\ Tagged /\ QueuesUnique
<1> SUFFICES ASSUME Init PROVE Placed /\ Tagged /\ QueuesUnique
  OBVIOUS
<1>1. /\ connQ = <<>> /\ retrying = {} /\ Items(<<>>) = {}
      /\ \A w \in Workers : workerQ[w] = <<>> /\ handling[w] = Idle
  BY DEF Init, Items
<1>2. Handled = {}
  BY <1>1 DEF Handled, Queues, Hand
<1> QED BY <1>1, <1>2 DEF Placed, Tagged, QueuesUnique, KeysUnique

LEMMA PlacedStep == TypeOK /\ Placed /\ [Next]_vars => Placed'
<1> SUFFICES ASSUME TypeOK, Placed, [Next]_vars PROVE Placed'
  OBVIOUS
<1>1. CASE UNCHANGED <<workerQ, handling>>
  BY <1>1 DEF Placed
<1>2. CASE HandleMessage
  <2> DEFINE m == Rekeyed(Pulled(connQ))
  <2>1. /\ m \in Message
        /\ \A w \in Workers : workerQ'[w] = IF ShouldProcess(ded, m) /\ w = WorkerOf(m.key)
                                            THEN Push(workerQ[w], m) ELSE workerQ[w]
    BY <1>2, HandleFacts
  <2> HIDE DEF m
  <2>2. \A w \in Workers : Items(Push(workerQ[w], m)) \subseteq Items(workerQ[w]) \cup {m}
    BY <2>1, PushItems DEF TypeOK
  <2>3. handling' = handling
    BY <1>2 DEF HandleMessage
  <2> QED BY <2>1, <2>2, <2>3 DEF Placed
<1>3. ASSUME NEW w \in Workers, StartWork(w) PROVE Placed'
  <2>1. /\ workerQ[w] # <<>> /\ handling'[w] = Pulled(workerQ[w]) /\ workerQ[w] \in Seq(Message)
        /\ workerQ'[w] = AfterPull(workerQ[w])
        /\ \A v \in Workers : v # w => handling'[v] = handling[v] /\ workerQ'[v] = workerQ[v]
    BY <1>3, StartFacts DEF TypeOK
  <2>2. Items(workerQ[w]) = Items(workerQ'[w]) \cup {handling'[w]}
    BY <2>1, PullItems
  <2> QED BY <2>1, <2>2 DEF Placed
<1>4. ASSUME NEW w \in Workers, Finish(w), workerQ' = workerQ PROVE Placed'
  BY <1>4, FinishFacts DEF Placed
<1> QED BY <1>1, <1>2, <1>3, <1>4
        DEF Next, vars, Event, Retry, Succeed, FailTransient, FailUnretryable

LEMMA UniqueStep == TypeOK /\ QueuesUnique /\ [Next]_vars => QueuesUnique'
<1> SUFFICES ASSUME TypeOK, QueuesUnique, [Next]_vars PROVE QueuesUnique'
  OBVIOUS
<1>1. /\ connQ \in Seq(Message) /\ retrying \subseteq Message
      /\ \A w \in Workers : workerQ[w] \in Seq(Message)
  BY DEF TypeOK
<1>2. CASE UNCHANGED <<connQ, workerQ>>
  BY <1>2 DEF QueuesUnique
<1>3. ASSUME NEW x \in Message, connQ' = Push(connQ, x), workerQ' = workerQ PROVE QueuesUnique'
  BY <1>1, <1>3, PushUnique DEF QueuesUnique
<1>4. CASE HandleMessage
  <2> DEFINE m == Rekeyed(Pulled(connQ))
  <2>1. /\ m \in Message /\ connQ # <<>> /\ connQ' = AfterPull(connQ)
        /\ \A w \in Workers : workerQ'[w] = IF ShouldProcess(ded, m) /\ w = WorkerOf(m.key)
                                            THEN Push(workerQ[w], m) ELSE workerQ[w]
    BY <1>4, HandleFacts
  <2> HIDE DEF m
  <2>2. \A w \in Workers : KeysUnique(Push(workerQ[w], m))
    BY <1>1, <2>1, PushUnique DEF QueuesUnique
  <2> QED BY <1>1, <2>1, <2>2, PullUnique DEF QueuesUnique
<1>5. ASSUME NEW w \in Workers, StartWork(w) PROVE QueuesUnique'
  <2>1. /\ workerQ[w] # <<>> /\ workerQ'[w] = AfterPull(workerQ[w]) /\ connQ' = connQ
        /\ \A v \in Workers : v # w => workerQ'[v] = workerQ[v]
    BY <1>5, StartFacts DEF StartWork
  <2>2. KeysUnique(AfterPull(workerQ[w]))
    BY <1>1, <2>1, PullUnique DEF QueuesUnique
  <2> QED BY <2>1, <2>2 DEF QueuesUnique
<1>6. ASSUME NEW m \in retrying, Retry(m) PROVE QueuesUnique'
  BY <1>1, <1>3, <1>6 DEF Retry
<1>7. ASSUME NEW k \in Keys, NEW act \in ActionsOf(k.kind), Event(k, act) PROVE QueuesUnique'
  <2> DEFINE x == [key |-> k, act |-> act, val |-> sent + 1, attempt |-> 0,
                   dedupeKey |-> FirstKey(k)]
  <2>1. x \in Message /\ connQ' = Push(connQ, x) /\ workerQ' = workerQ
    BY <1>7, EventItem DEF Event
  <2> HIDE DEF x
  <2> QED BY <1>3, <2>1
<1> QED BY <1>2, <1>4, <1>5, <1>6, <1>7
        DEF Next, vars, Succeed, FailTransient, FailUnretryable

\* Only handleMessage and the workers add to the handled messages: a message that was
\* handled, or the next attempt of one.
LEMMA TaggedStep == TypeOK /\ Tagged /\ [Next]_vars => Tagged'
<1> SUFFICES ASSUME TypeOK, Tagged, [Next]_vars PROVE Tagged'
  OBVIOUS
<1>1. /\ connQ \in Seq(Message) /\ \A w \in Workers : workerQ[w] \in Seq(Message)
      /\ Handled \subseteq Message /\ retrying \subseteq Message
  BY TypeFacts DEF TypeOK
<1> DEFINE T(m) == Keyed(m) /\ (m.attempt > 0 => failures'[m.key.id] # "none")
<1>2. ASSUME \A i \in Ids : failures[i] # "none" => failures'[i] # "none",
             \A m \in Handled' : m \in Handled \/ T(m),
             \A m \in Items(connQ') : \/ m \in Items(connQ) \/ m.attempt > 0
                                      \/ m.dedupeKey = FirstKey(m.key),
             \A m \in retrying' : m \in retrying \/ m.attempt > 0
      PROVE  Tagged'
  <2>1. \A m \in Handled : T(m)
    BY <1>1, <1>2, MessageFacts DEF Tagged
  <2>2. \A m \in Handled' : Keyed(m) /\ (m.attempt > 0 => failures'[m.key.id] # "none")
    BY <1>2, <2>1
  <2>3. \A m \in Items(connQ') : m.attempt = 0 => m.dedupeKey = FirstKey(m.key)
    BY <1>2 DEF Tagged
  <2>4. \A m \in retrying' : m.attempt > 0
    BY <1>2 DEF Tagged
  <2> QED BY <2>2, <2>3, <2>4 DEF Tagged, Keyed, ShallDedupe
<1> HIDE DEF T
<1>3. ASSUME NEW x \in Message, connQ' = Push(connQ, x),
             UNCHANGED <<workerQ, handling, failures>>, retrying' \subseteq retrying,
             IF x.attempt = 0 THEN x.dedupeKey = FirstKey(x.key) ELSE x \in retrying
      PROVE  Tagged'
  <2>1. Items(connQ') \subseteq Items(connQ) \cup {x}
    BY <1>1, <1>3, PushItems
  <2>2. Handled' \subseteq Handled \cup {m \in {x} : m.attempt > 0}
    BY <1>3, <2>1 DEF Handled, Queues, Hand
  <2>3. x.attempt \in Nat
    BY <1>3, MessageFacts
  <2>4. x \in retrying => x \in Handled
    BY DEF Handled
  <2> QED BY <1>2, <1>3, <2>1, <2>2, <2>3, <2>4
<1>4. ASSUME NEW k \in Keys, NEW act \in ActionsOf(k.kind), Event(k, act) PROVE Tagged'
  <2> DEFINE x == [key |-> k, act |-> act, val |-> sent + 1, attempt |-> 0,
                   dedupeKey |-> FirstKey(k)]
  <2>1. x \in Message /\ connQ' = Push(connQ, x) /\ x.attempt = 0 /\ x.dedupeKey = FirstKey(x.key)
    BY <1>4, EventItem
  <2>2. UNCHANGED <<workerQ, handling, failures, retrying>>
    BY <1>4 DEF Event
  <2> HIDE DEF x
  <2> QED BY <1>3, <2>1, <2>2
<1>5. ASSUME NEW m \in retrying, Retry(m) PROVE Tagged'
  <2>1. m \in Message /\ connQ' = Push(connQ, m) /\ retrying' \subseteq retrying
    BY <1>1, <1>5 DEF Retry
  <2>2. UNCHANGED <<workerQ, handling, failures>>
    BY <1>5 DEF Retry
  <2>3. m.attempt > 0
    BY DEF Tagged
  <2> QED BY <1>3, <2>1, <2>2, <2>3
<1>6. CASE HandleMessage
  <2> DEFINE p == Pulled(connQ)
             m == Rekeyed(p)
  <2>1. /\ p \in Message /\ m \in Message /\ connQ # <<>> /\ connQ' = AfterPull(connQ)
        /\ \A w \in Workers : workerQ'[w] = IF ShouldProcess(ded, m) /\ w = WorkerOf(m.key)
                                            THEN Push(workerQ[w], m) ELSE workerQ[w]
    BY <1>6, HandleFacts
  <2>2. m.key = p.key /\ m.attempt = p.attempt
    BY <2>1, RekeyedType
  <2>3. Items(connQ') \subseteq Items(connQ) /\ p \in Items(connQ)
    BY <1>1, <2>1, PullItems
  <2>4. p.attempt = 0 \/ p.attempt > 0
    BY <2>1, MessageFacts
  <2>5. T(m)
    <3>1. Keyed(p) \/ p.dedupeKey = FirstKey(p.key)
      BY <2>3, <2>4 DEF Tagged, Handled
    <3>2. p.attempt > 0 => failures[p.key.id] # "none"
      BY <2>3 DEF Tagged, Handled
    <3>3. failures' = failures
      BY <1>6 DEF HandleMessage
    <3> QED BY <2>1, <2>2, <3>1, <3>2, <3>3, RekeyedKeyed DEF T
  <2> HIDE DEF m, p
  <2>6. \A w \in Workers : Items(Push(workerQ[w], m)) \subseteq Items(workerQ[w]) \cup {m}
    BY <1>1, <2>1, PushItems
  <2>7. Queues' \subseteq Queues \cup {m}
    BY <2>1, <2>6 DEF Queues
  <2>8. UNCHANGED <<handling, retrying, failures>>
    BY <1>6 DEF HandleMessage
  <2>9. Handled' \subseteq Handled \cup {m}
    BY <2>3, <2>7, <2>8 DEF Handled, Hand
  <2> QED BY <1>2, <2>3, <2>5, <2>8, <2>9
<1>7. ASSUME NEW w \in Workers, StartWork(w) PROVE Tagged'
  <2>1. /\ workerQ[w] # <<>> /\ handling'[w] = Pulled(workerQ[w])
        /\ workerQ'[w] = AfterPull(workerQ[w])
        /\ \A v \in Workers : v # w => handling'[v] = handling[v] /\ workerQ'[v] = workerQ[v]
    BY <1>7, StartFacts
  <2>2. Items(workerQ[w]) = Items(workerQ'[w]) \cup {handling'[w]}
    BY <1>1, <2>1, PullItems
  <2>3. Queues' \cup Hand' \subseteq Queues \cup Hand
    BY <2>1, <2>2 DEF Queues, Hand
  <2>4. UNCHANGED <<connQ, retrying, failures>>
    BY <1>7 DEF StartWork
  <2> QED BY <1>2, <2>3, <2>4 DEF Handled
<1>8. ASSUME NEW w \in Workers, Finish(w), workerQ' = workerQ, connQ' = connQ
      PROVE  /\ Hand' \subseteq Hand /\ handling[w] \in Hand /\ handling[w] \in Message
             /\ retrying' \subseteq retrying => Handled' \subseteq Handled
  <2>1. Hand' \subseteq Hand /\ handling[w] \in Hand /\ handling[w] \in Message
    BY <1>8, FinishFacts DEF Hand
  <2> QED BY <1>8, <2>1 DEF Handled, Queues
<1>9. ASSUME NEW m \in Message, Failed(m)
      PROVE  /\ \A i \in Ids : failures[i] # "none" => failures'[i] # "none"
             /\ failures'[m.key.id] # "none"
  BY <1>9, MessageFacts DEF Failed, TypeOK
<1>10. ASSUME NEW w \in Workers, Succeed(w) PROVE Tagged'
  <2>1. UNCHANGED <<connQ, retrying, failures>> /\ Handled' \subseteq Handled
    BY <1>8, <1>10 DEF Succeed
  <2> QED BY <1>2, <2>1
<1>11. ASSUME NEW w \in Workers, FailUnretryable(w) PROVE Tagged'
  <2>1. /\ UNCHANGED <<connQ, retrying>> /\ Handled' \subseteq Handled
        /\ handling[w] \in Message /\ Failed(handling[w])
    BY <1>8, <1>11 DEF FailUnretryable
  <2>2. PICK m \in Message : m = handling[w]
    BY <2>1
  <2> QED BY <1>2, <1>9, <2>1, <2>2
<1>12. ASSUME NEW w \in Workers, FailTransient(w) PROVE Tagged'
  <2>1. /\ UNCHANGED <<connQ, workerQ>> /\ Hand' \subseteq Hand
        /\ handling[w] \in Hand /\ handling[w] \in Message
    BY <1>8, <1>12 DEF FailTransient
  <2>2. PICK m \in Message : m = handling[w]
    BY <2>1
  <2> DEFINE n == NextAttempt(m)
  <2>3. /\ n.key = m.key /\ n.act = m.act /\ n.dedupeKey = m.dedupeKey /\ n.attempt = m.attempt + 1
        /\ m.attempt \in Nat
    BY NextAttemptType, MessageFacts
  <2>4. Failed(n) /\ retrying' \subseteq retrying \cup {n}
    BY <1>12, <2>2 DEF FailTransient
  <2> HIDE DEF n
  <2>5. Failed(m)
    BY <2>3, <2>4 DEF Failed
  <2>6. m \in Handled
    BY <2>1, <2>2 DEF Handled
  <2>7. T(n) /\ n.attempt > 0
    BY <1>9, <2>3, <2>5, <2>6 DEF T, Tagged, Keyed, ShallDedupe
  <2>8. Handled' \subseteq Handled \cup {n}
    BY <2>1, <2>4 DEF Handled, Queues
  <2> QED BY <1>2, <1>9, <2>1, <2>4, <2>5, <2>7, <2>8
<1>13. CASE UNCHANGED vars
  BY <1>13 DEF vars, Tagged, Handled, Queues, Hand
<1> QED BY <1>4, <1>5, <1>6, <1>7, <1>10, <1>11, <1>12, <1>13 DEF Next

THEOREM Invariance == Spec => []TInv
<1>1. Init => TInv
  BY InitTypes, InitPlaces DEF TInv
<1>2. TInv /\ [Next]_vars => TInv'
  BY NextTypes, PlacedStep, UniqueStep, TaggedStep DEF TInv
<1> QED BY <1>1, <1>2, PTL DEF Spec

\* EventQueues.SameResourceSerial: the events of one node, whatever their kind, and a
\* deployment and its reprocessing are never in the hands of two workers, since the
\* worker of a message is a function of its worker type and its id.
THEOREM SerialPerResource == Spec => []SameResourceSerial
<1>1. ASSUME TInv, NEW v \in Workers, NEW w \in Workers,
             v # w, handling[v] # Idle, handling[w] # Idle,
             handling[v].key.id = handling[w].key.id,
             NEW together \in {{"node", "inventory", "index"}, {"deployment", "reprocess"},
                              {handling[v].key.kind}},
             {handling[v].key.kind, handling[w].key.kind} \subseteq together
      PROVE  FALSE
  <2>1. WorkerOf(handling[v].key) = v /\ WorkerOf(handling[w].key) = w
    BY <1>1 DEF TInv, Placed
  <2>2. WorkerType(handling[v].key.kind) = WorkerType(handling[w].key.kind)
    BY <1>1 DEF WorkerType
  <2> QED BY <1>1, <2>1, <2>2 DEF WorkerOf
<1>2. TInv => SameResourceSerial
  BY <1>1 DEF SameResourceSerial
<1> QED BY <1>2, Invariance, PTL

-----------------------------------------------------------------------------
\* The messages of one deduped key: those of the connection's queue that handleMessage has
\* not seen, the retries among them, those the workers have, and those that wait for a retry.
Of(S, k) == {m \in S : m.key = k}
New(k) == {m \in Items(connQ) : m.key = k /\ m.attempt = 0}
Back(k) == {m \in Items(connQ) : m.key = k /\ m.attempt > 0}
Work(k) == Of(Queues, k) \cup Of(Hand, k)
Rest(k) == Of(retrying, k)
Acc(k) == Back(k) \cup Work(k) \cup Rest(k)
All(k) == New(k) \cup Acc(k)

\* The messages of a key are queued in the order Sensor sent them; first attempts are, in
\* the connection's queue, and no event is there twice.
Sorted(q, k) ==
    \A i, j \in 1..Len(q) : i < j /\ q[i].key = k /\ q[j].key = k => q[i].val < q[j].val
Lined(q, k) ==
    \A i, j \in 1..Len(q) : i < j /\ q[i].key = k /\ q[j].key = k =>
        /\ q[i].val # q[j].val
        /\ (q[i].attempt = 0 /\ q[j].attempt = 0 => q[i].val < q[j].val)

\* What is on its way is what Sensor sent: a REMOVE is the last event, a CREATE the first.
Bounds(k) ==
    /\ stored[k] <= newest[k] /\ newest[k] <= sent /\ ded.received[k].val <= newest[k]
    /\ \A m \in All(k) :
          /\ m.val <= newest[k]
          /\ m.act = "REMOVE" => k \in removed /\ m.val = newest[k]
          /\ m.act = "CREATE" => \A n \in All(k) : m.val <= n.val

\* The hash of the last success is that of no event on its way.
Marked(k) ==
    LET done == ded.successfullyProcessed[k].val
    IN  done <= newest[k] /\ \A m \in All(k) : m.val # done

\* What handleMessage has not seen is newer than everything it has seen.
Fresh(k) ==
    \A m \in New(k) : /\ \A n \in Acc(k) : n.val < m.val
                      /\ stored[k] < m.val /\ ded.received[k].val < m.val

\* The received hash is that of the newest event that the workers have or had; they have
\* nothing older than what is stored.
Ahead(k) ==
    LET r == ded.received[k]
    IN  /\ \A m \in Work(k) : stored[k] <= m.val
        /\ Present(r) => r.processed /\ stored[k] <= r.val /\ \A m \in Work(k) : m.val <= r.val

Ordered(k) ==
    /\ Sorted(workerQ[WorkerOf(k)], k) /\ Lined(connQ, k)
    /\ \A m \in Of(Hand, k), n \in Of(Queues, k) : m.val < n.val

\* An event is in one place only.
Apart(k) ==
    /\ \A m \in Back(k), n \in Work(k) \cup Rest(k) : m.val # n.val
    /\ \A m \in Work(k), n \in Rest(k) : m.val # n.val
    /\ \A m, n \in Rest(k) : m.val = n.val => m = n

KeyInv(k) == Bounds(k) /\ Marked(k) /\ Fresh(k) /\ Ahead(k) /\ Ordered(k) /\ Apart(k)

Deduped == Keys \ SkipKeys

LEMMA DedupedKinds ==
    ASSUME NEW k \in Deduped
    PROVE  /\ k \in Keys /\ k.id \in Ids /\ k.kind \in {"deployment", "alerts", "vm"}
           /\ FirstKey(k) = NoKey
BY EventsAssumption, ConstantFacts DEF Deduped, FirstKey, Kinds

\* The numbers of a key.
LEMMA KeyTypes ==
    ASSUME TypeOK, NEW k \in Keys
    PROVE  /\ newest[k] \in Nat /\ stored[k] \in Nat /\ sent \in Nat
           /\ ded.received[k].val \in Nat /\ ded.successfullyProcessed[k].val \in Nat
           /\ ded.received[k] \in Entry
           /\ New(k) \subseteq Message /\ Acc(k) \subseteq Message /\ All(k) \subseteq Message
           /\ All(k) = Of(Flight, k)
           /\ \A m \in All(k) : /\ m \in Message /\ m.key = k
                               /\ m.val \in Nat \ {0} /\ m.attempt \in Nat
<1>1. ded.received[k] \in Entry /\ ded.successfullyProcessed[k] \in Entry
  BY DEF TypeOK, Deduper, EntryMap
<1>2. \A e \in Entry : e.val \in Nat
  BY ConstantFacts DEF Entry
<1>3. newest[k] \in 0..MaxEvents /\ stored[k] \in 0..MaxEvents /\ sent \in 0..MaxEvents
  BY DEF TypeOK
<1>4. Flight \subseteq Message
  BY TypeFacts
<1>5. \A m \in Items(connQ) : m.attempt = 0 \/ m.attempt > 0
  BY <1>4, MessageFacts DEF Flight
<1>6. All(k) = Of(Flight, k)
  BY <1>5 DEF All, New, Acc, Back, Work, Rest, Of, Flight
<1>7. \A m \in All(k) : m \in Message /\ m.key = k /\ m.val \in Nat \ {0} /\ m.attempt \in Nat
  BY <1>4, <1>6, MessageFacts DEF Of
<1>8. newest[k] \in Nat /\ stored[k] \in Nat /\ sent \in Nat
  BY <1>3, ConstantFacts
<1> QED BY <1>1, <1>2, <1>6, <1>7, <1>8 DEF All

-----------------------------------------------------------------------------
\* The order in the queues.
LEMMA PullOrder ==
    ASSUME NEW q \in Seq(Message), q # <<>>, NEW k
    PROVE  /\ Sorted(q, k) => Sorted(AfterPull(q), k)
           /\ Sorted(q, k) /\ Pulled(q).key = k =>
                 \A n \in Items(AfterPull(q)) : n.key = k => Pulled(q).val < n.val
           /\ Lined(q, k) => Lined(AfterPull(q), k)
           /\ Lined(q, k) /\ Pulled(q).key = k =>
                 \A n \in Items(AfterPull(q)) : n.key = k =>
                     /\ n.val # Pulled(q).val
                     /\ (n.attempt = 0 /\ Pulled(q).attempt = 0 => Pulled(q).val < n.val)
<1> DEFINE t == AfterPull(q)
<1>1. /\ Pulled(q) = q[1] /\ Len(q) \in Nat \ {0} /\ Len(t) = Len(q) - 1
      /\ \A i \in 1..(Len(q) - 1) : t[i] = q[i + 1]
  BY PullItems
<1> HIDE DEF t
<1>2. \A i \in 1..Len(t) : i + 1 \in 1..Len(q) /\ 1 \in 1..Len(q) /\ 1 < i + 1 /\ t[i] = q[i + 1]
  BY <1>1
<1>3. \A i, j \in 1..Len(t) : i < j => i + 1 < j + 1
  BY <1>1
<1>4. Sorted(q, k) => Sorted(t, k)
  BY <1>2, <1>3 DEF Sorted
<1>5. Lined(q, k) => Lined(t, k)
  BY <1>2, <1>3 DEF Lined
<1>6. Sorted(q, k) /\ q[1].key = k => \A n \in Items(t) : n.key = k => q[1].val < n.val
  BY <1>2 DEF Sorted, Items
<1>7. Lined(q, k) /\ q[1].key = k =>
         \A n \in Items(t) : n.key = k =>
             /\ n.val # q[1].val
             /\ (n.attempt = 0 /\ q[1].attempt = 0 => q[1].val < n.val)
  BY <1>2 DEF Lined, Items
<1> QED BY <1>1, <1>4, <1>5, <1>6, <1>7 DEF t

\* An item of another key changes nothing; one of this key is the newest and may only take
\* the place of the last item of the key.
LEMMA PushSorted ==
    ASSUME NEW q \in Seq(Message), NEW x \in Message, NEW k, Sorted(q, k), KeysUnique(q),
           x.key = k => /\ \A n \in Items(q) : n.key = k => n.val < x.val
                        /\ \A i, j \in 1..Len(q) : (i < j /\ Replaces(q, i, x)) => q[j].key # k
    PROVE  Sorted(Push(q, x), k)
<1> DEFINE p == Push(q, x)
<1>0. Len(q) \in Nat
  OBVIOUS
<1>1. \/ /\ Len(p) = Len(q) + 1 /\ p[Len(q) + 1] = x
         /\ \A i \in 1..Len(q) : p[i] = q[i] /\ ~ Replaces(q, i, x)
      \/ /\ Len(p) = Len(q) /\ \E i \in 1..Len(q) : Replaces(q, i, x)
         /\ \A i \in 1..Len(q) : p[i] = IF Replaces(q, i, x) THEN x ELSE q[i]
  BY PushCases
<1> HIDE DEF p
<1>2. x.key = k => \A i \in 1..Len(q) : q[i].key = k => q[i].val < x.val
  BY DEF Items
<1>3. \A i, j \in 1..Len(q) : i < j /\ q[i].key = k /\ q[j].key = k => q[i].val < q[j].val
  BY DEF Sorted
<1>4. \A i, j \in 1..Len(q) : Replaces(q, i, x) /\ Replaces(q, j, x) => i = j
  BY DEF KeysUnique, Replaces
<1>5. SUFFICES ASSUME NEW i \in 1..Len(p), NEW j \in 1..Len(p), i < j, p[i].key = k, p[j].key = k
               PROVE  p[i].val < p[j].val
  BY DEF Sorted, p
<1>6. CASE Len(p) = Len(q) + 1 /\ p[Len(q) + 1] = x /\ \A h \in 1..Len(q) : p[h] = q[h]
  <2>1. i \in 1..Len(q) /\ (j \in 1..Len(q) \/ j = Len(q) + 1)
    BY <1>0, <1>5, <1>6
  <2> QED BY <1>2, <1>3, <1>5, <1>6, <2>1
<1>7. CASE Len(p) = Len(q) /\ \A h \in 1..Len(q) : p[h] = IF Replaces(q, h, x) THEN x ELSE q[h]
  <2>1. i \in 1..Len(q) /\ j \in 1..Len(q) /\ i # j
    BY <1>0, <1>5, <1>7
  <2>2. ~ (Replaces(q, i, x) /\ Replaces(q, j, x))
    BY <1>4, <2>1
  <2>3. CASE Replaces(q, i, x)
    <3>1. p[i] = x /\ p[j] = q[j]
      BY <1>7, <2>1, <2>2, <2>3
    <3> QED BY <1>5, <2>1, <2>3, <3>1
  <2>4. CASE ~ Replaces(q, i, x)
    BY <1>2, <1>3, <1>5, <1>7, <2>1, <2>4
  <2> QED BY <2>3, <2>4
<1> QED BY <1>1, <1>6, <1>7

\* A first attempt goes to the back as the newest event; a retry is in the queue only once.
LEMMA PushLined ==
    ASSUME NEW q \in Seq(Message), NEW x \in Message, NEW k, Lined(q, k), KeysUnique(q),
           x.key = k => /\ \A n \in Items(q) : n.key = k => n.val # x.val
                        /\ \/ x.attempt # 0
                           \/ x.dedupeKey = NoKey /\ \A n \in Items(q) : n.key = k => n.val < x.val
    PROVE  Lined(Push(q, x), k)
<1> DEFINE p == Push(q, x)
<1>0. Len(q) \in Nat
  OBVIOUS
<1>1. \/ /\ Len(p) = Len(q) + 1 /\ p[Len(q) + 1] = x
         /\ \A i \in 1..Len(q) : p[i] = q[i] /\ ~ Replaces(q, i, x)
      \/ /\ Len(p) = Len(q) /\ \E i \in 1..Len(q) : Replaces(q, i, x)
         /\ \A i \in 1..Len(q) : p[i] = IF Replaces(q, i, x) THEN x ELSE q[i]
  BY PushCases
<1> HIDE DEF p
<1>2. x.key = k => \A i \in 1..Len(q) : q[i].key = k => 
          q[i].val # x.val /\ (x.attempt # 0 \/ (x.dedupeKey = NoKey /\ q[i].val < x.val))
  BY DEF Items
<1>3. \A i, j \in 1..Len(q) : i < j /\ q[i].key = k /\ q[j].key = k =>
          q[i].val # q[j].val /\ (q[i].attempt = 0 /\ q[j].attempt = 0 => q[i].val < q[j].val)
  BY DEF Lined
<1>4. \A i, j \in 1..Len(q) : Replaces(q, i, x) /\ Replaces(q, j, x) => i = j
  BY DEF KeysUnique, Replaces
<1>5. SUFFICES ASSUME NEW i \in 1..Len(p), NEW j \in 1..Len(p), i < j, p[i].key = k, p[j].key = k
               PROVE  /\ p[i].val # p[j].val
                      /\ (p[i].attempt = 0 /\ p[j].attempt = 0 => p[i].val < p[j].val)
  BY DEF Lined, p
<1>6. CASE Len(p) = Len(q) + 1 /\ p[Len(q) + 1] = x /\ \A h \in 1..Len(q) : p[h] = q[h]
  <2>1. i \in 1..Len(q) /\ (j \in 1..Len(q) \/ j = Len(q) + 1)
    BY <1>0, <1>5, <1>6
  <2> QED BY <1>2, <1>3, <1>5, <1>6, <2>1
<1>7. CASE Len(p) = Len(q) /\ \A h \in 1..Len(q) : p[h] = IF Replaces(q, h, x) THEN x ELSE q[h]
  <2>1. i \in 1..Len(q) /\ j \in 1..Len(q) /\ i # j
    BY <1>0, <1>5, <1>7
  <2>2. ~ (Replaces(q, i, x) /\ Replaces(q, j, x))
    BY <1>4, <2>1
  <2>3. CASE Replaces(q, i, x)
    <3>1. p[i] = x /\ p[j] = q[j] /\ x.dedupeKey # NoKey
      BY <1>7, <2>1, <2>2, <2>3 DEF Replaces
    <3> QED BY <1>2, <1>5, <2>1, <3>1
  <2>4. CASE Replaces(q, j, x)
    <3>1. p[j] = x /\ p[i] = q[i] /\ x.dedupeKey # NoKey
      BY <1>7, <2>1, <2>2, <2>4 DEF Replaces
    <3> QED BY <1>2, <1>5, <2>1, <3>1
  <2>5. CASE ~ Replaces(q, i, x) /\ ~ Replaces(q, j, x)
    BY <1>3, <1>5, <1>7, <2>1, <2>5
  <2> QED BY <2>3, <2>4, <2>5
<1> QED BY <1>1, <1>6, <1>7

-----------------------------------------------------------------------------
\* Where the messages of a deduped key move.

\* Handled messages with one dedupe key have one id, and in one worker one key; what Sensor
\* or the reprocessor sends never takes their place.
LEMMA SameKey ==
    ASSUME NEW k \in Deduped, NEW n \in Message, n.key = k, Keyed(n), n.dedupeKey # NoKey
    PROVE  /\ \A m \in Message : Keyed(m) /\ m.dedupeKey = n.dedupeKey =>
                 /\ m.key.id = k.id
                 /\ (WorkerOf(m.key) = WorkerOf(k) => m.key = k)
           /\ \A l \in Keys : FirstKey(l) # n.dedupeKey
<1>1. k \in Keys /\ k.id \in Ids /\ k.kind \in {"deployment", "alerts", "vm"}
  BY DedupedKinds
<1>2. n.dedupeKey = <<k.id>>
  BY <1>1 DEF Keyed
<1>3. \A x : <<"risk", x>> # <<k.id>> /\ <<k.id>>[1] = k.id
  OBVIOUS
<1>4. ASSUME NEW m \in Message, Keyed(m), m.dedupeKey = n.dedupeKey
      PROVE  m.key.id = k.id /\ (WorkerOf(m.key) = WorkerOf(k) => m.key = k)
  <2>1. m.key \in Keys /\ m.key.kind \in Kinds
    BY MessageFacts, ConstantFacts
  <2>2. m.key.kind \notin {"reprocess", "inventory", "index"}
    BY <1>1, <1>2, <1>3, <1>4 DEF Keyed
  <2>3. m.key.id = k.id
    <3>1. m.dedupeKey = <<m.key.id>>
      BY <1>4, <2>2 DEF Keyed
    <3>2. <<m.key.id>>[1] = m.key.id
      OBVIOUS
    <3> QED BY <1>2, <1>3, <1>4, <3>1, <3>2
  <2>4. WorkerOf(m.key) = WorkerOf(k) => m.key.kind = k.kind
    <3>1. WorkerType(m.key.kind) = m.key.kind /\ WorkerType(k.kind) = k.kind
      BY <1>1, <2>1, <2>2 DEF WorkerType
    <3> QED BY <3>1 DEF WorkerOf
  <2> QED BY <1>1, <2>1, <2>3, <2>4, ConstantFacts
<1>5. \A l \in Keys : FirstKey(l) # n.dedupeKey
  BY <1>2, <1>3 DEF FirstKey
<1> QED BY <1>4, <1>5

LEMMA EventMoves ==
    ASSUME TInv, NEW k \in Deduped, NEW l \in Keys, NEW act \in ActionsOf(l.kind), Event(l, act)
    PROVE  LET x == [key |-> l, act |-> act, val |-> sent + 1, attempt |-> 0,
                     dedupeKey |-> FirstKey(l)]
           IN  /\ New(k)' = IF l = k THEN New(k) \cup {x} ELSE New(k)
               /\ Back(k)' = Back(k) /\ Work(k)' = Work(k) /\ Rest(k)' = Rest(k)
<1> DEFINE x == [key |-> l, act |-> act, val |-> sent + 1, attempt |-> 0,
                 dedupeKey |-> FirstKey(l)]
<1>1. x \in Message /\ connQ' = Push(connQ, x) /\ x.key = l /\ x.attempt = 0
      /\ x.dedupeKey = FirstKey(l)
  BY EventItem DEF TInv
<1> HIDE DEF x
<1>2. /\ connQ \in Seq(Message) /\ Items(connQ) \subseteq Message
      /\ FirstKey(k) = NoKey
  BY TypeFacts, DedupedKinds DEF TInv
<1>3. /\ x \in Items(connQ') /\ Items(connQ') \subseteq Items(connQ) \cup {x}
      /\ \A m \in Items(connQ) : \/ m \in Items(connQ')
                                 \/ FirstKey(l) # NoKey /\ m.dedupeKey = FirstKey(l)
  BY <1>1, <1>2, PushItems
<1>4. ASSUME NEW m \in Items(connQ), m.key = k PROVE m \in Items(connQ')
  <2>1. m \in Message /\ (m.attempt = 0 \/ m.attempt > 0)
    BY <1>2, MessageFacts
  <2>2. CASE m.attempt = 0
    BY <1>2, <1>3, <1>4, <2>2 DEF TInv, Tagged
  <2>3. CASE m.attempt > 0
    <3>1. Keyed(m)
      BY <2>3 DEF TInv, Tagged, Handled
    <3> QED BY <1>3, <1>4, <2>1, <3>1, SameKey
  <2> QED BY <2>1, <2>2, <2>3
<1>5. New(k)' = (IF l = k THEN New(k) \cup {x} ELSE New(k)) /\ Back(k)' = Back(k)
  BY <1>1, <1>3, <1>4 DEF New, Back
<1>6. Work(k)' = Work(k) /\ Rest(k)' = Rest(k)
  BY DEF Event, Work, Rest, Of, Queues, Hand
<1> QED BY <1>5, <1>6 DEF x

LEMMA HandleMoves ==
    ASSUME TInv, NEW k \in Deduped, HandleMessage
    PROVE  LET p == Pulled(connQ)
               m == Rekeyed(p)
           IN  /\ p.key # k => New(k)' = New(k) /\ Back(k)' = Back(k) /\ Work(k)' = Work(k)
               /\ p.key = k =>
                     /\ p \in New(k) \cup Back(k)
                     /\ New(k)' \subseteq New(k) /\ New(k) \subseteq New(k)' \cup {p}
                     /\ Back(k)' \subseteq Back(k) /\ Back(k) \subseteq Back(k)' \cup {p}
                     /\ ~ ShouldProcess(ded, m) => Work(k)' = Work(k)
                     /\ ShouldProcess(ded, m) =>
                           /\ m \in Work(k)' /\ Of(Queues, k)' \subseteq Of(Queues, k) \cup {m}
                           /\ \A n \in Work(k) : \/ n \in Work(k)'
                                                 \/ n.dedupeKey = m.dedupeKey /\ n.dedupeKey # NoKey
               /\ Rest(k)' = Rest(k) /\ Of(Hand, k)' = Of(Hand, k)
<1> DEFINE p == Pulled(connQ)
           m == Rekeyed(p)
           W == WorkerOf(m.key)
<1>1. /\ p \in Message /\ m \in Message /\ connQ # <<>> /\ connQ' = AfterPull(connQ)
      /\ W \in Workers
      /\ \A w \in Workers : workerQ'[w] = IF ShouldProcess(ded, m) /\ w = W
                                          THEN Push(workerQ[w], m) ELSE workerQ[w]
  BY HandleFacts DEF TInv
<1>2. m.key = p.key /\ m.attempt = p.attempt /\ (p.attempt = 0 \/ p.attempt > 0)
  BY <1>1, RekeyedType, MessageFacts
<1>3. /\ connQ \in Seq(Message) /\ Items(connQ) \subseteq Message
      /\ \A w \in Workers : workerQ[w] \in Seq(Message)
      /\ \A w \in Workers : Items(workerQ[w]) \subseteq Message
  BY TypeFacts DEF TInv
<1>4. Items(connQ) = Items(connQ') \cup {p}
  BY <1>1, <1>3, PullItems
<1>5. UNCHANGED <<handling, retrying>>
  BY DEF HandleMessage
<1>6. Keyed(m)
  <2>1. Keyed(p) \/ p.dedupeKey = FirstKey(p.key)
    BY <1>2, <1>4 DEF TInv, Tagged, Handled
  <2> QED BY <1>1, <2>1, RekeyedKeyed
<1> HIDE DEF m, p, W
<1>7. /\ m \in Items(Push(workerQ[W], m))
      /\ Items(Push(workerQ[W], m)) \subseteq Items(workerQ[W]) \cup {m}
      /\ \A n \in Items(workerQ[W]) : \/ n \in Items(Push(workerQ[W], m))
                                      \/ m.dedupeKey # NoKey /\ n.dedupeKey = m.dedupeKey
  BY <1>1, <1>3, PushItems
<1>8. ~ ShouldProcess(ded, m) => Queues' = Queues
  BY <1>1 DEF Queues
<1>9. ShouldProcess(ded, m) =>
         /\ m \in Queues' /\ Queues' \subseteq Queues \cup {m}
         /\ \A n \in Queues : \/ n \in Queues'
                              \/ /\ n \in Items(workerQ[W])
                                 /\ m.dedupeKey # NoKey /\ n.dedupeKey = m.dedupeKey
  BY <1>1, <1>7 DEF Queues
<1>10. Of(Hand, k)' = Of(Hand, k) /\ Rest(k)' = Rest(k)
  BY <1>5 DEF Hand, Rest, Of
<1>11. p.key # k => New(k)' = New(k) /\ Back(k)' = Back(k)
  BY <1>4 DEF New, Back
<1>12. p.key = k => /\ p \in New(k) \cup Back(k)
                    /\ New(k)' \subseteq New(k) /\ New(k) \subseteq New(k)' \cup {p}
                    /\ Back(k)' \subseteq Back(k) /\ Back(k) \subseteq Back(k)' \cup {p}
  BY <1>2, <1>4 DEF New, Back
<1>13. ASSUME p.key # k PROVE Work(k)' = Work(k)
  <2>1. ASSUME NEW n \in Queues, n.key = k, ShouldProcess(ded, m) PROVE n \in Queues'
    <3>1. SUFFICES ASSUME n \in Items(workerQ[W]), m.dedupeKey # NoKey, n.dedupeKey = m.dedupeKey
                   PROVE  FALSE
      BY <1>9, <2>1
    <3>2. n \in Message /\ Keyed(n) /\ WorkerOf(k) = W
      BY <1>1, <1>3, <2>1, <3>1 DEF TInv, Tagged, Handled, Placed
    <3>3. m.key = k
      BY <1>1, <1>6, <2>1, <3>1, <3>2, SameKey DEF W
    <3> QED BY <1>2, <1>13, <3>3
  <2>2. Of(Queues, k)' = Of(Queues, k)
    BY <1>2, <1>8, <1>9, <1>13, <2>1 DEF Of
  <2> QED BY <1>10, <2>2 DEF Work
<1>14. ~ ShouldProcess(ded, m) => Work(k)' = Work(k)
  BY <1>8, <1>10 DEF Work, Of
<1>15. ASSUME p.key = k, ShouldProcess(ded, m)
       PROVE  /\ m \in Work(k)' /\ Of(Queues, k)' \subseteq Of(Queues, k) \cup {m}
              /\ \A n \in Work(k) : \/ n \in Work(k)'
                                    \/ n.dedupeKey = m.dedupeKey /\ n.dedupeKey # NoKey
  <2>1. /\ m \in Of(Queues, k)' /\ Of(Queues, k)' \subseteq Of(Queues, k) \cup {m}
        /\ \A n \in Of(Queues, k) : \/ n \in Of(Queues, k)'
                                    \/ n.dedupeKey = m.dedupeKey /\ n.dedupeKey # NoKey
    BY <1>2, <1>9, <1>15 DEF Of
  <2> QED BY <1>10, <2>1 DEF Work
<1> QED BY <1>10, <1>11, <1>12, <1>13, <1>14, <1>15 DEF m, p

\* A worker starts with the oldest message of the key, as the only one.
LEMMA StartMoves ==
    ASSUME TInv, NEW k \in Deduped, NEW w \in Workers, StartWork(w)
    PROVE  LET m == handling'[w]
           IN  /\ New(k)' = New(k) /\ Back(k)' = Back(k) /\ Work(k)' = Work(k) /\ Rest(k)' = Rest(k)
               /\ WorkerOf(m.key) = w /\ m = Pulled(workerQ[w])
               /\ w # WorkerOf(k) => /\ Of(Hand, k)' = Of(Hand, k) /\ Of(Queues, k)' = Of(Queues, k)
               /\ w = WorkerOf(k) => /\ Of(Hand, k)' \subseteq {m}
                                     /\ Of(Queues, k)' \subseteq Of(Items(workerQ'[w]), k)
<1>1. /\ workerQ[w] # <<>> /\ handling'[w] = Pulled(workerQ[w]) /\ workerQ[w] \in Seq(Message)
      /\ handling[w] = Idle /\ handling'[w] # Idle /\ workerQ'[w] = AfterPull(workerQ[w])
      /\ \A v \in Workers : v # w => handling'[v] = handling[v] /\ workerQ'[v] = workerQ[v]
  BY StartFacts, MessageFacts DEF TInv, TypeOK
<1>2. PICK m \in Message : m = handling'[w]
  BY StartFacts DEF TInv
<1>3. Items(workerQ[w]) = Items(workerQ'[w]) \cup {m}
  BY <1>1, <1>2, PullItems
<1>4. WorkerOf(m.key) = w
  BY <1>3 DEF TInv, Placed
<1>5. Hand' = Hand \cup {m}
  BY <1>1, <1>2 DEF Hand
<1>6. Queues = Queues' \cup {m}
  BY <1>1, <1>3 DEF Queues
<1>7. New(k)' = New(k) /\ Back(k)' = Back(k) /\ Rest(k)' = Rest(k)
  BY DEF StartWork, New, Back, Rest, Of
<1>8. Work(k)' = Work(k)
  BY <1>5, <1>6 DEF Work, Of
<1>9. w # WorkerOf(k) => Of(Hand, k)' = Of(Hand, k) /\ Of(Queues, k)' = Of(Queues, k)
  BY <1>4, <1>5, <1>6 DEF Of
<1>10. ASSUME w = WorkerOf(k)
       PROVE  /\ Of(Hand, k)' \subseteq {m} /\ Of(Queues, k)' \subseteq Of(Items(workerQ'[w]), k)
  <2>1. \A n \in Hand : n.key # k
    BY <1>1, <1>10 DEF TInv, Placed, Hand
  <2>2. Placed'
    BY PlacedStep DEF TInv, Next
  <2>3. \A n \in Queues' : n.key = k => n \in Items(workerQ'[w])
    BY <1>10, <2>2 DEF Placed, Queues
  <2> QED BY <1>5, <2>1, <2>3 DEF Of
<1> QED BY <1>1, <1>2, <1>4, <1>7, <1>8, <1>9, <1>10

LEMMA FinishMoves ==
    ASSUME TInv, NEW k \in Deduped, NEW w \in Workers, Finish(w), UNCHANGED <<connQ, workerQ>>
    PROVE  LET m == handling[w]
           IN  /\ m \in Message /\ m \in Hand /\ New(k)' = New(k) /\ Back(k)' = Back(k)
               /\ Of(Queues, k)' = Of(Queues, k)
               /\ m.key # k => Of(Hand, k)' = Of(Hand, k) /\ Work(k)' = Work(k)
               /\ m.key = k => /\ Of(Hand, k) = {m} /\ Of(Hand, k)' = {}
                               /\ m \in Work(k) /\ Work(k)' = Of(Queues, k)
<1>1. /\ handling[w] \in Message /\ handling[w] # Idle /\ handling'[w] = Idle
      /\ \A v \in Workers : v # w => handling'[v] = handling[v]
  BY FinishFacts DEF TInv
<1>2. PICK m \in Message : m = handling[w]
  BY <1>1
<1>3. New(k)' = New(k) /\ Back(k)' = Back(k) /\ Of(Queues, k)' = Of(Queues, k)
  BY DEF New, Back, Of, Queues
<1>4. m \in Hand /\ Hand' \subseteq Hand /\ Hand \subseteq Hand' \cup {m}
  BY <1>1, <1>2 DEF Hand
<1>5. m.key # k => Of(Hand, k)' = Of(Hand, k) /\ Work(k)' = Work(k)
  BY <1>3, <1>4 DEF Of, Work
<1>6. ASSUME m.key = k
      PROVE  Of(Hand, k) = {m} /\ Of(Hand, k)' = {} /\ m \in Work(k) /\ Work(k)' = Of(Queues, k)
  <2>1. \A v \in Workers : v # w /\ handling[v] # Idle => handling[v].key # k
    BY <1>1, <1>2, <1>6 DEF TInv, Placed
  <2>2. \A n \in Hand : n.key = k => n = m
    BY <1>2, <2>1 DEF Hand
  <2>3. \A n \in Hand' : n.key # k
    BY <1>1, <2>1 DEF Hand
  <2> QED BY <1>3, <1>4, <1>6, <2>2, <2>3 DEF Of, Work
<1> QED BY <1>2, <1>3, <1>4, <1>5, <1>6

LEMMA RetryMoves ==
    ASSUME TInv, NEW k \in Deduped, NEW m \in retrying, Retry(m)
    PROVE  /\ m \in Message /\ m.attempt > 0 /\ Keyed(m) /\ connQ' = Push(connQ, m)
           /\ New(k)' = New(k) /\ Work(k)' = Work(k) /\ Rest(k)' = Rest(k) \ {m}
           /\ Of(Queues, k)' = Of(Queues, k) /\ Of(Hand, k)' = Of(Hand, k)
           /\ m.key # k => Back(k)' \subseteq Back(k)
           /\ m.key = k => m \in Rest(k) /\ m \in Back(k)' /\ Back(k)' \subseteq Back(k) \cup {m}
           /\ \A n \in Back(k) : n \in Back(k)' \/ m.key.id = k.id
<1>1. /\ m \in Message /\ connQ \in Seq(Message) /\ Items(connQ) \subseteq Message
      /\ connQ' = Push(connQ, m) /\ retrying' = retrying \ {m} /\ FirstKey(k) = NoKey
  BY TypeFacts, DedupedKinds DEF TInv, TypeOK, Retry
<1>2. /\ m \in Items(connQ') /\ Items(connQ') \subseteq Items(connQ) \cup {m}
      /\ \A n \in Items(connQ) : \/ n \in Items(connQ')
                                 \/ m.dedupeKey # NoKey /\ n.dedupeKey = m.dedupeKey
  BY <1>1, PushItems
<1>3. Keyed(m) /\ m.attempt > 0
  BY DEF TInv, Tagged, Handled
<1>4. \A n \in Items(connQ) : n.key = k /\ n.attempt = 0 => n.dedupeKey = NoKey
  BY <1>1 DEF TInv, Tagged
<1>5. m.attempt # 0
  BY <1>1, <1>3, MessageFacts
<1>6. New(k)' = New(k)
  BY <1>2, <1>4, <1>5 DEF New
<1>7. Work(k)' = Work(k) /\ Of(Queues, k)' = Of(Queues, k) /\ Of(Hand, k)' = Of(Hand, k)
  BY DEF Retry, Work, Of, Queues, Hand
<1>8. Rest(k)' = Rest(k) \ {m}
  BY <1>1 DEF Rest, Of
<1>9. m.key # k => Back(k)' \subseteq Back(k)
  BY <1>2 DEF Back
<1>10. m.key = k => m \in Rest(k) /\ m \in Back(k)' /\ Back(k)' \subseteq Back(k) \cup {m}
  BY <1>2, <1>3 DEF Back, Rest, Of
<1>11. ASSUME NEW n \in Back(k), n \notin Back(k)' PROVE m.key.id = k.id
  <2>1. n \in Items(connQ) /\ n.key = k /\ n.attempt > 0 /\ n \notin Items(connQ')
    BY <1>11 DEF Back
  <2>2. n \in Message /\ Keyed(n) /\ n.dedupeKey # NoKey /\ m.dedupeKey = n.dedupeKey
    BY <1>1, <1>2, <2>1 DEF TInv, Tagged, Handled
  <2> QED BY <1>1, <1>3, <2>1, <2>2, SameKey
<1> QED BY <1>1, <1>3, <1>6, <1>7, <1>8, <1>9, <1>10, <1>11

-----------------------------------------------------------------------------
\* The invariant of a deduped key.
LEMMA KeyInit == ASSUME NEW k \in Deduped, Init PROVE KeyInv(k)
<1>1. k \in Keys /\ NoHash = 0
  BY ConstantFacts DEF Deduped
<1>2. /\ connQ = <<>> /\ retrying = {} /\ Items(<<>>) = {} /\ Len(<<>>) = 0
      /\ \A w \in Workers : workerQ[w] = <<>> /\ handling[w] = Idle
      /\ workerQ[WorkerOf(k)] = <<>>
  BY <1>1, WorkerOfType DEF Init, Items
<1>3. New(k) = {} /\ Back(k) = {} /\ Of(Queues, k) = {} /\ Of(Hand, k) = {} /\ Rest(k) = {}
  BY <1>2 DEF New, Back, Of, Queues, Hand, Rest
<1>4. All(k) = {} /\ Acc(k) = {} /\ Work(k) = {}
  BY <1>3 DEF All, Acc, Work
<1>5. ded.received[k] = NoEntry /\ ded.successfullyProcessed[k].val = 0
  <2>1. [h \in Keys |-> NoHash] \in [Keys -> Hashes \cup {NoHash}]
    OBVIOUS
  <2>2. ded = NewDeduper([h \in Keys |-> NoHash])
    BY DEF Init
  <2> QED BY <1>1, <2>1, <2>2, NewDeduperFacts
<1>6. stored[k] = 0 /\ newest[k] = 0 /\ sent = 0
  BY <1>1 DEF Init
<1>7. Bounds(k) /\ Marked(k) /\ Fresh(k) /\ Ahead(k) /\ Apart(k)
  BY <1>1, <1>3, <1>4, <1>5, <1>6 DEF Bounds, Marked, Fresh, Ahead, Apart, NoEntry, Present
<1>8. Ordered(k)
  BY <1>2, <1>3 DEF Ordered, Sorted, Lined
<1> QED BY <1>7, <1>8 DEF KeyInv

\* Messages that only disappear, or move within the handled ones.
LEMMA Carried ==
    ASSUME TypeOK, sent' \in Nat, NEW k \in Deduped, Bounds(k), Marked(k), Fresh(k),
           New(k)' \subseteq New(k),
           \A n \in Acc(k)' : \E m \in Acc(k) : n.val = m.val /\ n.act = m.act,
           newest'[k] = newest[k], stored'[k] = stored[k], sent <= sent',
           removed \subseteq removed',
           ded'.received[k] \in {ded.received[k], NoEntry},
           ded'.successfullyProcessed[k].val \in {ded.successfullyProcessed[k].val, NoHash}
    PROVE  Bounds(k)' /\ Marked(k)' /\ Fresh(k)'
<1>1. k \in Keys /\ NoEntry.val = 0 /\ NoHash = 0
  BY ConstantFacts DEF Deduped, NoEntry
<1>2. /\ newest[k] \in Nat /\ stored[k] \in Nat /\ sent \in Nat
      /\ ded.received[k].val \in Nat
      /\ \A m \in All(k) : m.val \in Nat \ {0}
  BY <1>1, KeyTypes
<1>3. \A n \in All(k)' : \E m \in All(k) : n.val = m.val /\ n.act = m.act
  BY DEF All
<1>4. Bounds(k)'
  BY <1>1, <1>2, <1>3 DEF Bounds
<1>5. Marked(k)'
  BY <1>1, <1>2, <1>3 DEF Marked
<1>6. Fresh(k)'
  <2>1. \A m \in New(k) : m.val \in Nat \ {0}
    BY <1>2 DEF All
  <2> QED BY <1>1, <2>1 DEF Fresh
<1> QED BY <1>4, <1>5, <1>6

LEMMA CarriedAhead ==
    ASSUME NEW k \in Deduped, Ahead(k), Work(k)' \subseteq Work(k), stored'[k] = stored[k],
           ded'.received[k] \in {ded.received[k], NoEntry}
    PROVE  Ahead(k)'
<1>1. ~ Present(NoEntry)
  BY DEF Present, NoEntry
<1> QED BY <1>1 DEF Ahead, Present

LEMMA EventKeeps ==
    ASSUME TInv, NEW k \in Deduped, KeyInv(k),
           NEW l \in Keys, NEW act \in ActionsOf(l.kind), Event(l, act)
    PROVE  KeyInv(k)'
<1> DEFINE x == [key |-> l, act |-> act, val |-> sent + 1, attempt |-> 0,
                 dedupeKey |-> FirstKey(l)]
<1>1. /\ x \in Message /\ connQ' = Push(connQ, x) /\ x.key = l /\ x.val = sent + 1 /\ x.act = act
      /\ x.attempt = 0 /\ x.dedupeKey = FirstKey(l)
  BY EventItem DEF TInv
<1>2. /\ New(k)' = IF l = k THEN New(k) \cup {x} ELSE New(k)
      /\ Back(k)' = Back(k) /\ Work(k)' = Work(k) /\ Rest(k)' = Rest(k)
  BY EventMoves
<1> HIDE DEF x
<1>3. /\ UNCHANGED <<workerQ, handling, retrying, ded, stored, lost, failures>>
      /\ sent' = sent + 1 /\ newest' = [newest EXCEPT ![l] = sent + 1]
      /\ removed' = IF act = "REMOVE" THEN removed \cup {l} ELSE removed
      /\ l \notin removed /\ (act = "CREATE" => newest[l] = NoHash)
  BY DEF Event
<1>4. /\ k \in Keys /\ FirstKey(k) = NoKey /\ NoHash = 0
      /\ newest[k] \in Nat /\ stored[k] \in Nat /\ sent \in Nat
      /\ ded.received[k].val \in Nat /\ ded.successfullyProcessed[k].val \in Nat
      /\ \A m \in All(k) : m.val \in Nat \ {0}
  BY KeyTypes, DedupedKinds, ConstantFacts DEF TInv
<1>5. newest'[k] = IF l = k THEN sent + 1 ELSE newest[k]
  BY <1>3, <1>4 DEF TInv, TypeOK
<1>6. Acc(k)' = Acc(k)
  BY <1>2 DEF Acc
<1>7. Ahead(k)' /\ Apart(k)'
  BY <1>2, <1>3 DEF KeyInv, Ahead, Apart
<1>8. Bounds(k)' /\ Marked(k)' /\ Fresh(k)'
  <2>1. CASE l # k
    <3>1. /\ New(k)' \subseteq New(k) /\ sent' \in Nat /\ sent <= sent'
          /\ removed \subseteq removed' /\ newest'[k] = newest[k]
      BY <1>2, <1>3, <1>4, <1>5, <2>1
    <3>2. \A n \in Acc(k)' : \E m \in Acc(k) : n.val = m.val /\ n.act = m.act
      BY <1>6
    <3>3. Bounds(k) /\ Marked(k) /\ Fresh(k) /\ TypeOK
      BY DEF KeyInv, TInv
    <3> QED BY <1>3, <3>1, <3>2, <3>3, Carried
  <2>2. CASE l = k
    <3>1. All(k)' = All(k) \cup {x}
      BY <1>2, <1>6, <2>2 DEF All
    <3>2. \A m \in All(k) : m.val <= sent /\ m.val < x.val /\ m.act # "REMOVE"
      BY <1>1, <1>3, <1>4, <2>2 DEF KeyInv, Bounds
    <3>3. x.act = "CREATE" => All(k) = {}
      <4>1. \A m \in All(k) : m.val <= newest[k]
        BY DEF KeyInv, Bounds
      <4> QED BY <1>1, <1>3, <1>4, <2>2, <4>1
    <3>4. Bounds(k)'
      <4>1. stored'[k] <= newest'[k] /\ newest'[k] <= sent' /\ ded'.received[k].val <= newest'[k]
        BY <1>3, <1>4, <1>5, <2>2 DEF KeyInv, Bounds
      <4>2. \A m \in All(k)' : m.val <= newest'[k]
        BY <1>1, <1>4, <1>5, <2>2, <3>1, <3>2
      <4>3. \A m \in All(k)' : m.act = "REMOVE" => k \in removed' /\ m.val = newest'[k]
        BY <1>1, <1>3, <1>5, <2>2, <3>1, <3>2
      <4>4. \A m \in All(k)' : m.act = "CREATE" => \A n \in All(k)' : m.val <= n.val
        BY <1>1, <1>4, <3>1, <3>2, <3>3 DEF KeyInv, Bounds
      <4> QED BY <4>1, <4>2, <4>3, <4>4 DEF Bounds
    <3>5. Marked(k)'
      BY <1>1, <1>3, <1>4, <1>5, <2>2, <3>1 DEF KeyInv, Marked, Bounds
    <3>6. Fresh(k)'
      <4>1. \A n \in Acc(k) : n.val < x.val
        BY <3>2 DEF All
      <4>2. stored'[k] < x.val /\ ded'.received[k].val < x.val
        BY <1>1, <1>3, <1>4, <2>2 DEF KeyInv, Bounds
      <4> QED BY <1>2, <1>3, <1>6, <2>2, <4>1, <4>2 DEF KeyInv, Fresh
    <3> QED BY <3>4, <3>5, <3>6
  <2> QED BY <2>1, <2>2
<1>9. Ordered(k)'
  <2>1. Lined(connQ, k) /\ KeysUnique(connQ) /\ connQ \in Seq(Message)
    BY DEF KeyInv, Ordered, TInv, QueuesUnique, TypeOK
  <2>2. l = k => \A n \in Items(connQ) : n.key = k => n.val < x.val /\ n.val # x.val
    <3>1. \A n \in Items(connQ) : n.key = k => n \in All(k)
      BY KeyTypes DEF TInv, Of, Flight, Deduped
    <3>2. l = k => \A n \in All(k) : n.val < x.val /\ n.val # x.val
      BY <1>1, <1>4 DEF KeyInv, Bounds
    <3> QED BY <3>1, <3>2
  <2>3. Lined(Push(connQ, x), k)
    BY <1>1, <1>4, <2>1, <2>2, PushLined
  <2>4. /\ Sorted(workerQ[WorkerOf(k)], k)'
        /\ Of(Hand, k)' = Of(Hand, k) /\ Of(Queues, k)' = Of(Queues, k)
    BY <1>3 DEF KeyInv, Ordered, Sorted, Of, Hand, Queues
  <2>5. Lined(connQ, k)'
    BY <1>1, <2>3 DEF Lined
  <2> QED BY <2>4, <2>5 DEF KeyInv, Ordered
<1> QED BY <1>7, <1>8, <1>9 DEF KeyInv

\* handleMessage and an event of another key, or one that the deduper rejects.
LEMMA HandleOtherKeeps ==
    ASSUME TInv, NEW k \in Deduped, KeyInv(k), HandleMessage,
           \/ Pulled(connQ).key # k
           \/ ~ ShouldProcess(ded, Rekeyed(Pulled(connQ)))
    PROVE  KeyInv(k)'
<1> DEFINE p == Pulled(connQ)
           m == Rekeyed(p)
           W == WorkerOf(m.key)
<1>1. /\ p \in Message /\ m \in Message /\ connQ # <<>> /\ connQ' = AfterPull(connQ)
      /\ W \in Workers /\ ded' = AfterShouldProcess(ded, m) /\ m.key = p.key
      /\ \A w \in Workers : workerQ'[w] = IF ShouldProcess(ded, m) /\ w = W
                                          THEN Push(workerQ[w], m) ELSE workerQ[w]
  BY HandleFacts, RekeyedType DEF TInv
<1>2. /\ New(k)' \subseteq New(k) /\ Back(k)' \subseteq Back(k)
      /\ Work(k)' = Work(k) /\ Rest(k)' = Rest(k)
      /\ Of(Hand, k)' = Of(Hand, k)
  BY HandleMoves
<1>3. /\ UNCHANGED <<handling, retrying, sent, newest, removed, stored, lost, failures>>
      /\ sent \in Nat /\ k \in Keys /\ k \notin SkipKeys /\ ded \in Deduper
      /\ connQ \in Seq(Message) /\ \A w \in Workers : workerQ[w] \in Seq(Message)
      /\ WorkerOf(k) \in Workers
  BY KeyTypes, WorkerOfType DEF HandleMessage, TInv, TypeOK, Deduped
<1>4. m.key # k \/ ~ ShouldProcess(ded, m)
  BY <1>1
<1> HIDE DEF m, p, W
<1>5. ded'.received[k] = ded.received[k]
      /\ ded'.successfullyProcessed[k].val = ded.successfullyProcessed[k].val
  <2>1. Known(m)
    BY <1>1, MessageFacts
  <2>2. CASE m.key # k
    <3>1. ded' = AfterShouldProcess(ded, m)
      BY <1>1
    <3>2. \A h \in Keys : h # m.key =>
             /\ AfterShouldProcess(ded, m).received[h] = ded.received[h]
             /\ AfterShouldProcess(ded, m).successfullyProcessed[h] = ded.successfullyProcessed[h]
      BY <1>3, <2>1, AcceptFacts
    <3> QED BY <1>3, <2>2, <3>1, <3>2
  <2>3. CASE m.key = k /\ ~ ShouldProcess(ded, m)
    <3>1. m.act # "REMOVE" /\ ~ (m.attempt = 0 /\ GetValue(ded, m.key) # m.val)
      BY <2>3 DEF ShouldProcess
    <3> QED BY <1>1, <1>3, <2>1, <2>3, <3>1, AcceptFacts
  <2> QED BY <1>4, <2>2, <2>3
<1>6. Bounds(k)' /\ Marked(k)' /\ Fresh(k)'
  <2>1. \A n \in Acc(k)' : \E h \in Acc(k) : n.val = h.val /\ n.act = h.act
    BY <1>2 DEF Acc
  <2>2. TypeOK /\ Bounds(k) /\ Marked(k) /\ Fresh(k)
    BY DEF TInv, KeyInv
  <2>3. sent' \in Nat /\ sent <= sent' /\ newest'[k] = newest[k] /\ stored'[k] = stored[k]
        /\ removed \subseteq removed'
    BY <1>3
  <2> QED BY <1>2, <1>5, <2>1, <2>2, <2>3, Carried
<1>7. Ahead(k)'
  BY <1>2, <1>3, <1>5, CarriedAhead DEF KeyInv
<1>8. Apart(k)'
  BY <1>2 DEF KeyInv, Apart
<1>9. Ordered(k)'
  <2>1. Lined(connQ, k)'
    <3>1. Lined(AfterPull(connQ), k)
      BY <1>1, <1>3, PullOrder DEF KeyInv, Ordered
    <3> QED BY <1>1, <3>1 DEF Lined
  <2>2. Sorted(workerQ'[WorkerOf(k)], k)
    <3>1. Sorted(workerQ[WorkerOf(k)], k) /\ KeysUnique(workerQ[WorkerOf(k)])
      BY <1>3 DEF KeyInv, Ordered, TInv, QueuesUnique
    <3>2. CASE workerQ'[WorkerOf(k)] = workerQ[WorkerOf(k)]
      BY <3>1, <3>2
    <3>3. CASE workerQ'[WorkerOf(k)] = Push(workerQ[WorkerOf(k)], m) /\ m.key # k
      BY <1>1, <1>3, <3>1, <3>3, PushSorted
    <3> QED BY <1>1, <1>3, <1>4, <3>2, <3>3
  <2>3. Sorted(workerQ[WorkerOf(k)], k)'
    BY <2>2 DEF Sorted
  <2>4. \A i \in Of(Hand, k)', n \in Of(Queues, k)' : i.val < n.val
    <3>1. ASSUME NEW i \in Of(Hand, k), NEW n \in Of(Queues, k)' PROVE i.val < n.val
      <4>1. n \in Work(k)
        BY <1>2, <3>1 DEF Work
      <4>2. CASE n \in Of(Queues, k)
        BY <3>1, <4>2 DEF KeyInv, Ordered
      <4>3. CASE ~ ShouldProcess(ded, m)
        BY <1>1, <3>1, <4>3 DEF KeyInv, Ordered, Of, Queues
      <4>4. CASE m.key # k /\ n \notin Of(Queues, k)
        <5>1. n \in Queues' /\ n.key = k /\ n # m
          BY <3>1, <4>4 DEF Of
        <5>2. \A w \in Workers : Items(workerQ'[w]) \subseteq Items(workerQ[w]) \cup {m}
          BY <1>1, <1>3, PushItems
        <5> QED BY <4>4, <5>1, <5>2 DEF Of, Queues
      <4> QED BY <1>4, <4>2, <4>3, <4>4
    <3> QED BY <1>2, <3>1
  <2> QED BY <2>1, <2>3, <2>4 DEF Ordered
<1> QED BY <1>6, <1>7, <1>8, <1>9 DEF KeyInv

\* An accepted event is newer than all that the workers have, and not older than what is
\* stored.
LEMMA AcceptedIsNewer ==
    ASSUME TInv, NEW k \in Deduped, KeyInv(k), HandleMessage, Pulled(connQ).key = k,
           ShouldProcess(ded, Rekeyed(Pulled(connQ)))
    PROVE  LET p == Pulled(connQ)
           IN  /\ stored[k] <= p.val /\ \A n \in Work(k) : n.val < p.val
               /\ \A n \in Rest(k) : n.val # p.val
               /\ \A n \in Back(k)' : n.val # p.val
               /\ \A n \in New(k)' : p.val < n.val
               /\ p.attempt > 0 /\ p.act # "REMOVE" =>
                     ded.received[k].val = p.val /\ ded.received[k].processed
<1> DEFINE p == Pulled(connQ)
           m == Rekeyed(p)
<1>1. /\ p \in Message /\ connQ # <<>> /\ connQ' = AfterPull(connQ) /\ connQ \in Seq(Message)
      /\ k \in Keys /\ k \notin SkipKeys
  BY HandleFacts DEF TInv, TypeOK, Deduped
<1>2. /\ m.key = p.key /\ m.val = p.val /\ m.act = p.act /\ m.attempt = p.attempt
      /\ (p.attempt = 0 \/ p.attempt > 0) /\ p.key = k
      /\ ShouldProcess(ded, m)
  BY <1>1, RekeyedType, MessageFacts
<1>3. p \in New(k) \cup Back(k) /\ New(k)' \subseteq New(k) /\ Back(k)' \subseteq Back(k)
  BY HandleMoves
<1>4. \A n \in Items(connQ') : n.key = k =>
          n.val # p.val /\ (n.attempt = 0 /\ p.attempt = 0 => p.val < n.val)
  BY <1>1, <1>2, PullOrder DEF KeyInv, Ordered
<1> HIDE DEF m, p
<1>5. \A n \in Back(k)' : n.val # p.val
  BY <1>4 DEF Back
<1>6. /\ newest[k] \in Nat /\ stored[k] \in Nat /\ p.val \in Nat \ {0} /\ p \in All(k)
      /\ \A n \in All(k) : n.val \in Nat \ {0}
      /\ Work(k) \subseteq All(k) /\ New(k) \subseteq All(k)
  BY <1>1, <1>3, KeyTypes, MessageFacts DEF TInv, All, Acc
<1>7. CASE p.attempt = 0
  <2>1. p \in New(k)
    BY <1>3, <1>7 DEF Back
  <2>2. /\ stored[k] < p.val /\ \A n \in Acc(k) : n.val < p.val
    BY <2>1 DEF KeyInv, Fresh
  <2>3. \A n \in New(k)' : p.val < n.val
    BY <1>4, <1>7 DEF New
  <2>4. \A n \in Work(k) \cup Rest(k) : n.val < p.val /\ n.val \in Nat
    BY <1>6, <2>2 DEF Acc, All
  <2>5. stored[k] <= p.val /\ \A n \in Rest(k) : n.val # p.val
    BY <1>6, <2>2, <2>4
  <2> QED BY <1>5, <1>7, <2>3, <2>4, <2>5 DEF p
<1>8. CASE p.attempt > 0
  <2>1. p \in Back(k) /\ p \in Acc(k)
    BY <1>3, <1>6, <1>8 DEF New, Acc
  <2>2. \A n \in New(k)' : p.val < n.val
    BY <1>3, <2>1 DEF KeyInv, Fresh
  <2>3. \A n \in Work(k) \cup Rest(k) : n.val # p.val
    BY <2>1 DEF KeyInv, Apart
  <2>4. CASE p.act = "REMOVE"
    <3>1. p.val = newest[k] /\ stored[k] <= newest[k] /\ \A n \in All(k) : n.val <= newest[k]
      BY <1>6, <2>4 DEF KeyInv, Bounds
    <3>2. \A n \in Work(k) : n.val < p.val
      BY <1>6, <2>3, <3>1
    <3> QED BY <1>5, <2>2, <2>3, <2>4, <3>1, <3>2 DEF p
  <2>5. CASE p.act # "REMOVE"
    <3>1. GetValue(ded, k) = p.val
      BY <1>1, <1>2, <1>6, <1>8, <2>5 DEF ShouldProcess, ShouldReprocess, SkipDedupe
    <3>2. ded.successfullyProcessed[k].val # p.val
      BY <1>6 DEF KeyInv, Marked
    <3>3. Present(ded.received[k]) /\ ded.received[k].processed /\ ded.received[k].val = p.val
      BY <3>1, <3>2 DEF GetValue
    <3>4. stored[k] <= p.val /\ \A n \in Work(k) : n.val <= p.val
      BY <3>3 DEF KeyInv, Ahead
    <3>5. \A n \in Work(k) : n.val < p.val
      BY <1>6, <2>3, <3>4
    <3> QED BY <1>5, <2>2, <2>3, <3>3, <3>4, <3>5 DEF p
  <2> QED BY <2>4, <2>5
<1> QED BY <1>2, <1>7, <1>8

\* handleMessage and an event of this key that the deduper accepts.
LEMMA HandleAcceptedKeeps ==
    ASSUME TInv, NEW k \in Deduped, KeyInv(k), HandleMessage, Pulled(connQ).key = k,
           ShouldProcess(ded, Rekeyed(Pulled(connQ)))
    PROVE  KeyInv(k)'
<1> DEFINE p == Pulled(connQ)
           m == Rekeyed(p)
           W == WorkerOf(k)
           q == workerQ[W]
<1>1. /\ p \in Message /\ m \in Message /\ connQ # <<>> /\ connQ' = AfterPull(connQ)
      /\ p.key = k /\ m.key = k /\ m.val = p.val /\ m.act = p.act /\ m.attempt = p.attempt
      /\ ShouldProcess(ded, m) /\ Known(m)
      /\ W \in Workers /\ workerQ'[W] = Push(q, m)
  BY HandleFacts, RekeyedType, MessageFacts DEF TInv
<1>2. ded' = AfterShouldProcess(ded, m)
  BY HandleFacts DEF TInv
<1>3. /\ p \in New(k) \cup Back(k) /\ New(k)' \subseteq New(k) /\ Back(k)' \subseteq Back(k)
      /\ m \in Work(k)' /\ Of(Queues, k)' \subseteq Of(Queues, k) \cup {m}
      /\ Rest(k)' = Rest(k) /\ Of(Hand, k)' = Of(Hand, k)
  BY <1>1, HandleMoves
<1>4. /\ stored[k] <= p.val /\ \A n \in Work(k) : n.val < p.val
      /\ \A n \in Rest(k) : n.val # p.val
      /\ \A n \in Back(k)' : n.val # p.val
      /\ \A n \in New(k)' : p.val < n.val
      /\ (p.attempt > 0 /\ p.act # "REMOVE" =>
             ded.received[k].val = p.val /\ ded.received[k].processed)
  BY AcceptedIsNewer
<1>5. /\ UNCHANGED <<handling, retrying, sent, newest, removed, stored, lost, failures>>
      /\ k \in Keys /\ k \notin SkipKeys /\ ded \in Deduper /\ NoHash = 0
      /\ connQ \in Seq(Message) /\ q \in Seq(Message)
  BY <1>1, ConstantFacts DEF HandleMessage, TInv, TypeOK, Deduped
<1>6. Keyed(m)
  <2>1. p \in Items(connQ)
    BY <1>1, <1>5, PullItems
  <2>2. p.attempt = 0 \/ p.attempt > 0
    BY <1>1, MessageFacts
  <2>3. Keyed(p) \/ p.dedupeKey = FirstKey(p.key)
    BY <2>1, <2>2 DEF TInv, Tagged, Handled
  <2> QED BY <1>1, <2>3, RekeyedKeyed
<1> HIDE DEF m, p, q
<1>7. /\ newest[k] \in Nat /\ stored[k] \in Nat /\ sent \in Nat /\ p.val \in Nat \ {0}
      /\ p.attempt \in Nat /\ p \in All(k)
      /\ ded.received[k].val \in Nat /\ ded.successfullyProcessed[k].val \in Nat
      /\ \A n \in All(k) : n.val \in Nat \ {0}
  BY <1>1, <1>3, <1>5, KeyTypes, MessageFacts DEF TInv, All, Acc
<1>8. ded'.successfullyProcessed[k].val \in {ded.successfullyProcessed[k].val, 0}
  <2> DEFINE e == AfterShouldProcess(ded, m)
  <2>1. /\ m.act = "REMOVE" => e.successfullyProcessed[m.key] = NoEntry
        /\ m.act # "REMOVE" =>
              e.successfullyProcessed[m.key].val = ded.successfullyProcessed[m.key].val
    BY <1>1, <1>5, AcceptFacts
  <2>2. ded' = e /\ m.key = k /\ NoEntry.val = 0
    BY <1>1, <1>2, <1>5 DEF NoEntry
  <2> HIDE DEF e
  <2> QED BY <2>1, <2>2
<1>9. ded'.received[k] = IF m.act = "REMOVE" THEN NoEntry
                         ELSE IF m.attempt = 0 THEN [val |-> m.val, processed |-> TRUE]
                         ELSE ded.received[k]
  <2>1. m.act # "REMOVE" /\ m.attempt = 0 => GetValue(ded, m.key) # m.val
    BY <1>1, <1>5 DEF ShouldProcess, SkipDedupe
  <2> QED BY <1>1, <1>2, <1>5, <2>1, AcceptFacts
<1>10. /\ ded'.received[k].val \in {0, p.val}
       /\ Present(ded'.received[k]) => ded'.received[k].processed /\ ded'.received[k].val = p.val
  <2>1. CASE m.act = "REMOVE"
    BY <1>5, <1>9, <2>1 DEF NoEntry, Present
  <2>2. CASE m.act # "REMOVE" /\ m.attempt = 0
    BY <1>1, <1>9, <2>2
  <2>3. CASE m.act # "REMOVE" /\ m.attempt # 0
    BY <1>1, <1>4, <1>7, <1>9, <2>3
  <2> QED BY <2>1, <2>2, <2>3
<1>11. /\ Work(k)' \subseteq Work(k) \cup {m} /\ Acc(k)' \subseteq Acc(k) \cup {m}
       /\ All(k)' \subseteq All(k) \cup {m} /\ Work(k) \subseteq All(k)
  BY <1>3 DEF Work, Acc, All
<1>12. Bounds(k)'
  <2>1. \A n \in All(k)' : \E h \in All(k) : n.val = h.val /\ n.act = h.act
    BY <1>1, <1>7, <1>11
  <2>2. p.val <= newest[k]
    BY <1>7 DEF KeyInv, Bounds
  <2>3. newest' = newest /\ stored' = stored /\ sent' = sent /\ removed' = removed
    BY <1>5
  <2>4. stored'[k] <= newest'[k] /\ newest'[k] <= sent' /\ ded'.received[k].val <= newest'[k]
    BY <1>7, <1>10, <2>2, <2>3 DEF KeyInv, Bounds
  <2>5. \A n \in All(k)' : /\ n.val <= newest'[k]
                           /\ (n.act = "REMOVE" => k \in removed' /\ n.val = newest'[k])
                           /\ (n.act = "CREATE" => \A h \in All(k)' : n.val <= h.val)
    BY <2>1, <2>3 DEF KeyInv, Bounds
  <2> QED BY <2>4, <2>5 DEF Bounds
<1>13. Marked(k)'
  <2>1. \A n \in All(k)' : \E h \in All(k) : n.val = h.val
    BY <1>1, <1>7, <1>11
  <2>2. \A n \in All(k)' : n.val # 0 /\ n.val # ded.successfullyProcessed[k].val
    BY <1>7, <2>1 DEF KeyInv, Marked
  <2> QED BY <1>5, <1>7, <1>8, <2>2 DEF KeyInv, Marked
<1>14. Fresh(k)'
  <2>1. ASSUME NEW h \in New(k)' PROVE /\ \A n \in Acc(k)' : n.val < h.val
                                       /\ stored[k] < h.val /\ ded'.received[k].val < h.val
    <3>1. h \in New(k) /\ p.val < h.val
      BY <1>3, <1>4, <2>1
    <3>2. h \in All(k) /\ h.val \in Nat \ {0}
      BY <1>7, <3>1 DEF All
    <3>3. stored[k] < h.val /\ \A n \in Acc(k) : n.val < h.val
      BY <3>1 DEF KeyInv, Fresh
    <3>4. ded'.received[k].val < h.val
      BY <1>7, <1>10, <3>1, <3>2
    <3> QED BY <1>1, <1>11, <3>1, <3>3, <3>4
  <2> QED BY <1>5, <2>1 DEF Fresh
<1>15. Ahead(k)'
  <2>1. \A n \in Work(k)' : stored[k] <= n.val /\ n.val <= p.val
    BY <1>1, <1>4, <1>7, <1>11 DEF KeyInv, Ahead
  <2> QED BY <1>4, <1>5, <1>10, <2>1 DEF Ahead
<1>16. Apart(k)'
  <2>1. \A h \in Back(k)', n \in Work(k)' \cup Rest(k)' : h.val # n.val
    BY <1>1, <1>3, <1>4, <1>11 DEF KeyInv, Apart
  <2>2. \A h \in Work(k)', n \in Rest(k)' : h.val # n.val
    BY <1>1, <1>3, <1>4, <1>11 DEF KeyInv, Apart
  <2> QED BY <1>3, <2>1, <2>2 DEF KeyInv, Apart
<1>17. Ordered(k)'
  <2>1. Lined(connQ, k)'
    <3>1. Lined(AfterPull(connQ), k)
      BY <1>1, <1>5, PullOrder DEF KeyInv, Ordered
    <3> QED BY <1>1, <3>1 DEF Lined
  <2>2. \A n \in Of(Hand, k)', h \in Of(Queues, k)' : n.val < h.val
    <3>1. \A n \in Of(Hand, k) : n.val < p.val
      BY <1>4 DEF Work
    <3> QED BY <1>1, <1>3, <3>1 DEF KeyInv, Ordered
  <2>3. \A n \in Items(q) : n.key = k => n \in Work(k) /\ n \in All(k) /\ n \in Message /\ Keyed(n)
    <3>1. \A n \in Items(q) : n \in Queues /\ n \in Message
      BY <1>1, TypeFacts DEF TInv, Queues, q
    <3> QED BY <1>11, <3>1 DEF Work, Of, TInv, Tagged, Handled
  <2>4. ASSUME NEW i \in 1..Len(q), NEW j \in 1..Len(q), i < j, Replaces(q, i, m), q[j].key = k
        PROVE  FALSE
    <3> DEFINE y == q[i]
               n == q[j]
    <3>1. y \in Items(q) /\ n \in Items(q) /\ y.dedupeKey = m.dedupeKey /\ m.dedupeKey # NoKey
      BY <2>4 DEF Items, Replaces
    <3>2. n \in Message /\ n \in All(k) /\ Keyed(n) /\ n.key = k
      BY <2>3, <2>4, <3>1
    <3>3. y \in Message /\ y.key = k /\ Keyed(y) /\ y \in All(k)
      <4>1. y \in Message /\ Keyed(y) /\ WorkerOf(y.key) = W
        <5>1. y \in Queues /\ y \in Message
          BY <1>1, <3>1, TypeFacts DEF TInv, Queues, q
        <5> QED BY <1>1, <3>1, <5>1 DEF TInv, Tagged, Handled, Placed, q
      <4>2. y.key = k
        BY <1>1, <1>6, <3>1, <4>1, SameKey DEF W
      <4> QED BY <2>3, <3>1, <4>1, <4>2
    <3>4. y.val < n.val /\ y.val \in Nat /\ n.val \in Nat
      BY <1>7, <2>4, <3>2, <3>3 DEF KeyInv, Ordered, Sorted, q
    <3>5. n.dedupeKey # y.dedupeKey
      <4>1. KeysUnique(q) /\ i # j
        BY <1>1, <2>4 DEF TInv, QueuesUnique, q
      <4> QED BY <2>4, <3>1, <4>1 DEF KeysUnique
    <3> HIDE DEF y, n
    <3>6. ShallDedupe(y) /\ ~ ShallDedupe(n)
      BY <3>1, <3>2, <3>3, <3>5, DedupedKinds DEF Keyed
    <3>7. CASE n.act = "CREATE"
      BY <3>2, <3>3, <3>4, <3>7 DEF KeyInv, Bounds
    <3>8. CASE n.act # "CREATE"
      <4>1. y.act = "REMOVE"
        BY <3>2, <3>3, <3>6, <3>8 DEF ShallDedupe
      <4>2. y.val = newest[k] /\ n.val <= newest[k]
        BY <3>2, <3>3, <4>1 DEF KeyInv, Bounds
      <4> QED BY <1>7, <3>4, <4>2
    <3> QED BY <3>7, <3>8
  <2>5. \A n \in Items(q) : n.key = k => n.val < m.val
    BY <1>1, <1>4, <2>3
  <2>6. Sorted(q, k) /\ KeysUnique(q)
    BY <1>1 DEF KeyInv, Ordered, TInv, QueuesUnique, q
  <2>7. Sorted(Push(q, m), k)
    BY <1>1, <1>5, <2>4, <2>5, <2>6, PushSorted
  <2>8. Sorted(workerQ[WorkerOf(k)], k)'
    BY <1>1, <2>7 DEF Sorted, W
  <2> QED BY <2>1, <2>2, <2>8 DEF Ordered
<1> QED BY <1>12, <1>13, <1>14, <1>15, <1>16, <1>17 DEF KeyInv

LEMMA StartKeeps ==
    ASSUME TInv, NEW k \in Deduped, KeyInv(k), NEW w \in Workers, StartWork(w)
    PROVE  KeyInv(k)'
<1>1. /\ New(k)' = New(k) /\ Back(k)' = Back(k) /\ Work(k)' = Work(k) /\ Rest(k)' = Rest(k)
      /\ Acc(k)' = Acc(k) /\ All(k)' = All(k)
  BY StartMoves DEF Acc, All
<1>2. UNCHANGED <<connQ, retrying, ded, sent, newest, removed, stored, lost, failures>>
  BY DEF StartWork
<1>3. Bounds(k)' /\ Marked(k)' /\ Fresh(k)' /\ Ahead(k)' /\ Apart(k)'
  BY <1>1, <1>2 DEF KeyInv, Bounds, Marked, Fresh, Ahead, Apart
<1>4. Lined(connQ, k)'
  BY <1>2 DEF KeyInv, Ordered, Lined
<1>5. /\ workerQ[w] # <<>> /\ workerQ'[w] = AfterPull(workerQ[w]) /\ workerQ[w] \in Seq(Message)
      /\ \A v \in Workers : v # w => workerQ'[v] = workerQ[v]
      /\ WorkerOf(k) \in Workers
  BY StartFacts, WorkerOfType DEF TInv, TypeOK, Deduped
<1>6. Sorted(workerQ'[WorkerOf(k)], k)
  <2>1. w = WorkerOf(k) => Sorted(AfterPull(workerQ[w]), k)
    BY <1>5, PullOrder DEF KeyInv, Ordered
  <2> QED BY <1>5, <2>1 DEF KeyInv, Ordered
<1>7. Sorted(workerQ[WorkerOf(k)], k)'
  BY <1>6 DEF Sorted
<1>8. \A m \in Of(Hand, k)', n \in Of(Queues, k)' : m.val < n.val
  <2>1. CASE w # WorkerOf(k)
    <3>1. Of(Hand, k)' = Of(Hand, k) /\ Of(Queues, k)' = Of(Queues, k)
      BY <2>1, StartMoves
    <3> QED BY <3>1 DEF KeyInv, Ordered
  <2>2. CASE w = WorkerOf(k)
    <3>1. /\ Of(Hand, k)' \subseteq {Pulled(workerQ[w])}
          /\ Of(Queues, k)' \subseteq Of(Items(AfterPull(workerQ[w])), k)
      BY <1>5, <2>2, StartMoves
    <3>2. ASSUME NEW m \in Of(Hand, k)', NEW n \in Of(Queues, k)' PROVE m.val < n.val
      <4>1. m = Pulled(workerQ[w]) /\ m.key = k
        BY <3>1, <3>2 DEF Of
      <4>2. n \in Items(AfterPull(workerQ[w])) /\ n.key = k
        BY <3>1, <3>2 DEF Of
      <4>3. Sorted(workerQ[w], k)
        BY <2>2 DEF KeyInv, Ordered
      <4> QED BY <1>5, <4>1, <4>2, <4>3, PullOrder
    <3> QED BY <3>2
  <2> QED BY <2>1, <2>2
<1> QED BY <1>3, <1>4, <1>7, <1>8 DEF KeyInv, Ordered

\* A worker is done with a message of this key: what it still has is newer, and whatever is
\* elsewhere is another event.
LEMMA DoneWith ==
    ASSUME TInv, NEW k \in Deduped, KeyInv(k), NEW w \in Workers, Finish(w),
           UNCHANGED <<connQ, workerQ>>, handling[w].key = k
    PROVE  LET m == handling[w]
           IN  /\ m \in Acc(k) /\ m \in Work(k) /\ m \in All(k) /\ m.val \in Nat \ {0}
               /\ Work(k)' \subseteq Work(k) /\ \A n \in Work(k)' : m.val < n.val
               /\ \A n \in Back(k) \cup Rest(k) : n.val # m.val
               /\ New(k)' = New(k) /\ Back(k)' = Back(k)
               /\ Of(Hand, k)' = {} /\ Of(Queues, k)' = Of(Queues, k)
<1>1. PICK m \in Message : m = handling[w]
  BY FinishFacts DEF TInv
<1>2. /\ New(k)' = New(k) /\ Back(k)' = Back(k) /\ Of(Hand, k) = {m} /\ Of(Hand, k)' = {}
      /\ Of(Queues, k)' = Of(Queues, k) /\ m \in Work(k) /\ Work(k)' = Of(Queues, k)
  BY <1>1, FinishMoves
<1>3. \A n \in Of(Queues, k) : m.val < n.val
  BY <1>2 DEF KeyInv, Ordered
<1>4. \A n \in Back(k) \cup Rest(k) : n.val # m.val
  BY <1>2 DEF KeyInv, Apart
<1>5. m \in Acc(k) /\ m \in All(k) /\ Of(Queues, k) \subseteq Work(k) /\ m.val \in Nat \ {0}
  BY <1>1, <1>2, MessageFacts DEF Acc, All, Work
<1> QED BY <1>1, <1>2, <1>3, <1>4, <1>5

\* The order of the queues when a worker is done.
LEMMA FinishOrder ==
    ASSUME TInv, NEW k \in Deduped, KeyInv(k), NEW w \in Workers, Finish(w),
           UNCHANGED <<connQ, workerQ>>
    PROVE  Ordered(k)'
<1>1. Of(Queues, k)' = Of(Queues, k) /\ Of(Hand, k)' \subseteq Of(Hand, k)
  BY FinishMoves
<1>2. Lined(connQ, k)' /\ Sorted(workerQ[WorkerOf(k)], k)'
  BY DEF KeyInv, Ordered, Lined, Sorted
<1> QED BY <1>1, <1>2 DEF KeyInv, Ordered

LEMMA SucceedKeeps ==
    ASSUME TInv, NEW k \in Deduped, KeyInv(k), NEW w \in Workers, Succeed(w)
    PROVE  KeyInv(k)' /\ stored[k] <= stored'[k]
<1>1. PICK m \in Message : m = handling[w]
  BY FinishFacts DEF TInv, Succeed
<1>2. /\ Finish(w) /\ UNCHANGED <<connQ, workerQ, retrying, sent, newest, removed, lost, failures>>
      /\ ded' = MarkSuccessful(ded, m) /\ stored' = [stored EXCEPT ![m.key] = m.val]
      /\ Known(m) /\ ded \in Deduper /\ k \in Keys /\ k \notin SkipKeys /\ m.key \in Keys
      /\ Rest(k)' = Rest(k) /\ NoHash = 0
  BY <1>1, MessageFacts, ConstantFacts DEF Succeed, TInv, TypeOK, Deduped, Rest, Of
<1>3. /\ newest[k] \in Nat /\ stored[k] \in Nat /\ sent \in Nat
      /\ ded.received[k].val \in Nat /\ ded.successfullyProcessed[k].val \in Nat
      /\ \A n \in All(k) : n.val \in Nat \ {0}
  BY <1>2, KeyTypes DEF TInv
<1>4. Ordered(k)'
  BY <1>2, FinishOrder
<1> DEFINE e == MarkSuccessful(ded, m)
<1>5. /\ k # m.key => /\ e.received[k] = ded.received[k]
                      /\ e.successfullyProcessed[k] = ded.successfullyProcessed[k]
      /\ m.key = k /\ m.act = "REMOVE" =>
            /\ e.received[k] = ded.received[k] /\ e.successfullyProcessed[k] = NoEntry
      /\ m.key = k /\ m.act # "REMOVE" =>
            /\ e.received[k] = IF ded.received[k].val = m.val THEN NoEntry ELSE ded.received[k]
            /\ e.successfullyProcessed[k] = [val |-> m.val, processed |-> TRUE]
  BY <1>2, MarkFacts
<1>6. ded' = e
  BY <1>2
<1> HIDE DEF e
<1>7. CASE m.key # k
  <2>1. /\ New(k)' = New(k) /\ Back(k)' = Back(k) /\ Work(k)' = Work(k)
        /\ Acc(k)' = Acc(k) /\ All(k)' = All(k)
    BY <1>1, <1>2, <1>7, FinishMoves DEF Acc, All
  <2>2. ded'.received[k] = ded.received[k]
        /\ ded'.successfullyProcessed[k] = ded.successfullyProcessed[k]
    BY <1>7, <1>5, <1>6
  <2>3. stored'[k] = stored[k]
    BY <1>2, <1>7 DEF TInv, TypeOK
  <2>4. Bounds(k)' /\ Marked(k)' /\ Fresh(k)' /\ Ahead(k)' /\ Apart(k)'
    BY <1>2, <2>1, <2>2, <2>3 DEF KeyInv, Bounds, Marked, Fresh, Ahead, Apart
  <2> QED BY <1>3, <1>4, <2>3, <2>4 DEF KeyInv
<1>8. CASE m.key = k
  <2>1. /\ m \in Acc(k) /\ m \in Work(k) /\ m \in All(k) /\ m.val \in Nat \ {0}
        /\ Work(k)' \subseteq Work(k) /\ \A n \in Work(k)' : m.val < n.val
        /\ \A n \in Back(k) \cup Rest(k) : n.val # m.val
        /\ New(k)' = New(k) /\ Back(k)' = Back(k)
    BY <1>1, <1>2, <1>8, DoneWith
  <2>2. Acc(k)' \subseteq Acc(k) /\ All(k)' \subseteq All(k)
    BY <1>2, <2>1 DEF Acc, All
  <2>3. stored'[k] = m.val /\ stored[k] <= m.val /\ m.val <= newest[k]
    BY <1>2, <1>8, <2>1 DEF TInv, TypeOK, KeyInv, Ahead, Bounds
  <2>4. ded'.received[k] = IF m.act # "REMOVE" /\ ded.received[k].val = m.val
                           THEN NoEntry ELSE ded.received[k]
    BY <1>8, <1>5, <1>6
  <2>5. ded'.successfullyProcessed[k].val \in {0, m.val}
    <3>1. CASE m.act = "REMOVE"
      <4>1. ded'.successfullyProcessed[k] = NoEntry
        BY <1>8, <1>5, <1>6, <3>1
      <4> QED BY <1>2, <4>1 DEF NoEntry
    <3>2. CASE m.act # "REMOVE"
      <4>1. ded'.successfullyProcessed[k] = [val |-> m.val, processed |-> TRUE]
        BY <1>8, <1>5, <1>6, <3>2
      <4> QED BY <4>1
    <3> QED BY <3>1, <3>2
  <2>6. ded'.received[k].val \in {0, ded.received[k].val}
    BY <1>2, <2>4 DEF NoEntry
  <2>7. Bounds(k)'
    <3>1. stored'[k] <= newest'[k] /\ newest'[k] <= sent' /\ ded'.received[k].val <= newest'[k]
      BY <1>2, <1>3, <2>3, <2>6 DEF KeyInv, Bounds
    <3>2. \A n \in All(k)' : /\ n.val <= newest'[k]
                             /\ (n.act = "REMOVE" => k \in removed' /\ n.val = newest'[k])
                             /\ (n.act = "CREATE" => \A h \in All(k)' : n.val <= h.val)
      BY <1>2, <2>2 DEF KeyInv, Bounds
    <3> QED BY <3>1, <3>2 DEF Bounds
  <2>8. Marked(k)'
    <3>1. \A n \in New(k) : m.val < n.val
      BY <2>1 DEF KeyInv, Fresh
    <3>2. \A n \in All(k)' : n.val # m.val /\ n.val # 0
      <4>1. \A n \in All(k)' : n.val \in Nat \ {0}
        BY <1>3, <2>2
      <4>2. \A n \in New(k)' \cup Work(k)' : m.val < n.val
        BY <2>1, <3>1
      <4>3. \A n \in All(k)' : m.val < n.val \/ n.val # m.val
        BY <1>2, <2>1, <4>2 DEF All, Acc
      <4> QED BY <2>1, <4>1, <4>3
    <3> QED BY <1>2, <1>3, <2>3, <2>5, <3>2 DEF Marked
  <2>9. Fresh(k)'
    <3>1. ASSUME NEW h \in New(k)' PROVE /\ \A n \in Acc(k)' : n.val < h.val
                                         /\ stored'[k] < h.val /\ ded'.received[k].val < h.val
      <4>1. h \in New(k) /\ h \in All(k) /\ h.val \in Nat \ {0}
        BY <1>3, <2>1, <3>1 DEF All
      <4>2. ded.received[k].val < h.val /\ \A n \in Acc(k) : n.val < h.val
        BY <4>1 DEF KeyInv, Fresh
      <4> QED BY <1>3, <2>1, <2>2, <2>3, <2>6, <4>1, <4>2
    <3> QED BY <3>1 DEF Fresh
  <2>10. Ahead(k)'
    <3>1. \A n \in Work(k)' : stored'[k] <= n.val
      <4>1. \A n \in Work(k)' : n.val \in Nat
        BY <1>3, <2>2 DEF All, Acc
      <4> QED BY <2>1, <2>3, <4>1
    <3>2. ASSUME Present(ded'.received[k])
          PROVE  /\ ded'.received[k].processed /\ stored'[k] <= ded'.received[k].val
                 /\ \A n \in Work(k)' : n.val <= ded'.received[k].val
      <4>1. ded'.received[k] = ded.received[k]
        BY <2>4, <3>2 DEF Present, NoEntry
      <4>2. Present(ded.received[k])
        BY <3>2, <4>1
      <4>3. ded.received[k].processed /\ \A n \in Work(k) : n.val <= ded.received[k].val
        BY <4>2 DEF KeyInv, Ahead
      <4> QED BY <2>1, <2>3, <4>1, <4>3
    <3> QED BY <3>1, <3>2 DEF Ahead
  <2>11. Apart(k)'
    BY <1>2, <2>1 DEF KeyInv, Apart
  <2> QED BY <1>4, <2>3, <2>7, <2>8, <2>9, <2>10, <2>11 DEF KeyInv
<1> QED BY <1>7, <1>8

LEMMA FailTransientKeeps ==
    ASSUME TInv, NEW k \in Deduped, KeyInv(k), NEW w \in Workers, FailTransient(w)
    PROVE  KeyInv(k)'
<1>1. PICK m \in Message : m = handling[w]
  BY FinishFacts DEF TInv, FailTransient
<1> DEFINE x == NextAttempt(m)
<1>2. /\ Finish(w) /\ UNCHANGED <<connQ, workerQ, ded, sent, newest, removed, stored>>
      /\ (retrying' = retrying \/ retrying' = retrying \cup {x})
  BY <1>1 DEF FailTransient
<1>3. x.key = m.key /\ x.act = m.act /\ x.val = m.val
  BY NextAttemptType
<1> HIDE DEF x
<1>4. Ordered(k)'
  BY <1>2, FinishOrder
<1>5. sent \in Nat /\ TypeOK
  BY DEF TInv, TypeOK
<1>6. CASE m.key # k
  <2>1. /\ New(k)' = New(k) /\ Back(k)' = Back(k) /\ Work(k)' = Work(k)
    BY <1>1, <1>2, <1>6, FinishMoves
  <2>2. Rest(k)' = Rest(k)
    BY <1>2, <1>3, <1>6 DEF Rest, Of
  <2>3. Acc(k)' = Acc(k) /\ All(k)' = All(k)
    BY <2>1, <2>2 DEF Acc, All
  <2>4. Bounds(k)' /\ Marked(k)' /\ Fresh(k)' /\ Ahead(k)' /\ Apart(k)'
    BY <1>2, <2>1, <2>2, <2>3 DEF KeyInv, Bounds, Marked, Fresh, Ahead, Apart
  <2> QED BY <1>4, <2>4 DEF KeyInv
<1>7. CASE m.key = k
  <2>1. /\ m \in Acc(k) /\ m \in Work(k) /\ Work(k)' \subseteq Work(k)
        /\ \A n \in Work(k)' : m.val < n.val
        /\ \A n \in Back(k) \cup Rest(k) : n.val # m.val
        /\ New(k)' = New(k) /\ Back(k)' = Back(k) /\ m.val \in Nat
    BY <1>1, <1>2, <1>7, DoneWith
  <2>2. Rest(k)' \subseteq Rest(k) \cup {x}
    BY <1>2 DEF Rest, Of
  <2>3. \A n \in Acc(k)' : \E h \in Acc(k) : n.val = h.val /\ n.act = h.act
    BY <1>3, <2>1, <2>2 DEF Acc
  <2>4. Bounds(k)' /\ Marked(k)' /\ Fresh(k)'
    <3>1. /\ New(k)' \subseteq New(k) /\ newest'[k] = newest[k] /\ stored'[k] = stored[k]
          /\ sent' \in Nat /\ sent <= sent' /\ removed \subseteq removed'
          /\ ded'.received[k] = ded.received[k]
          /\ ded'.successfullyProcessed[k].val = ded.successfullyProcessed[k].val
      BY <1>2, <1>5, <2>1
    <3> QED BY <1>5, <2>3, <3>1, Carried DEF KeyInv
  <2>5. Ahead(k)'
    BY <1>2, <2>1, CarriedAhead DEF KeyInv
  <2>6. Apart(k)'
    <3>1. \A h \in Back(k)', n \in Work(k)' \cup Rest(k)' : h.val # n.val
      BY <1>3, <2>1, <2>2 DEF KeyInv, Apart
    <3>2. \A n \in Work(k)' : n.val # m.val
      <4>1. \A n \in Work(k) : n.val \in Nat
        BY KeyTypes DEF TInv, Deduped, All, Acc
      <4> QED BY <2>1, <4>1
    <3>3. \A h \in Work(k)', n \in Rest(k)' : h.val # n.val
      BY <1>3, <2>1, <2>2, <3>2 DEF KeyInv, Apart
    <3>4. \A h, n \in Rest(k)' : h.val = n.val => h = n
      BY <1>3, <2>1, <2>2 DEF KeyInv, Apart
    <3> QED BY <3>1, <3>3, <3>4 DEF Apart
  <2> QED BY <1>4, <2>4, <2>5, <2>6 DEF KeyInv
<1> QED BY <1>6, <1>7

LEMMA FailUnretryableKeeps ==
    ASSUME TInv, NEW k \in Deduped, KeyInv(k), NEW w \in Workers, FailUnretryable(w)
    PROVE  KeyInv(k)'
<1>1. PICK m \in Message : m = handling[w]
  BY FinishFacts DEF TInv, FailUnretryable
<1> DEFINE e == RemoveMessage(ded, m)
<1>2. /\ Finish(w) /\ UNCHANGED <<connQ, workerQ, retrying, sent, newest, removed, stored>>
      /\ ded' = e /\ Known(m) /\ ded \in Deduper /\ k \in Keys /\ k \notin SkipKeys
      /\ Rest(k)' = Rest(k)
  BY <1>1, MessageFacts DEF FailUnretryable, TInv, TypeOK, Deduped, Rest, Of
<1>3. e.successfullyProcessed = ded.successfullyProcessed
      /\ (k # m.key => e.received[k] = ded.received[k])
      /\ (m.key = k => e.received[k] = NoEntry)
  BY <1>2, ForgetFacts
<1> HIDE DEF e
<1>4. ded'.received[k] \in {ded.received[k], NoEntry}
      /\ ded'.successfullyProcessed[k].val = ded.successfullyProcessed[k].val
  BY <1>2, <1>3
<1>5. New(k)' = New(k) /\ Back(k)' = Back(k) /\ Work(k)' \subseteq Work(k)
  BY <1>1, <1>2, FinishMoves DEF Work
<1>6. Acc(k)' \subseteq Acc(k)
  BY <1>2, <1>5 DEF Acc
<1>7. Bounds(k)' /\ Marked(k)' /\ Fresh(k)'
  <2>1. /\ New(k)' \subseteq New(k) /\ newest'[k] = newest[k] /\ stored'[k] = stored[k]
        /\ sent' \in Nat /\ sent <= sent' /\ removed \subseteq removed'
        /\ TypeOK /\ Bounds(k) /\ Marked(k) /\ Fresh(k)
    BY <1>2, <1>5 DEF TInv, TypeOK, KeyInv
  <2>2. \A n \in Acc(k)' : \E h \in Acc(k) : n.val = h.val /\ n.act = h.act
    BY <1>6
  <2> QED BY <1>4, <2>1, <2>2, Carried
<1>8. Ahead(k)'
  BY <1>2, <1>4, <1>5, CarriedAhead DEF KeyInv
<1>9. Apart(k)'
  BY <1>2, <1>5 DEF KeyInv, Apart
<1> QED BY <1>2, <1>7, <1>8, <1>9, FinishOrder DEF KeyInv

LEMMA RetryKeeps ==
    ASSUME TInv, NEW k \in Deduped, KeyInv(k), NEW m \in retrying, Retry(m)
    PROVE  KeyInv(k)'
<1>1. /\ m \in Message /\ m.attempt > 0 /\ connQ' = Push(connQ, m)
      /\ New(k)' = New(k) /\ Work(k)' = Work(k) /\ Rest(k)' = Rest(k) \ {m}
      /\ Of(Queues, k)' = Of(Queues, k) /\ Of(Hand, k)' = Of(Hand, k)
      /\ m.key # k => Back(k)' \subseteq Back(k)
      /\ m.key = k => m \in Rest(k) /\ Back(k)' \subseteq Back(k) \cup {m}
  BY RetryMoves
<1>2. /\ UNCHANGED <<workerQ, handling, ded, sent, newest, removed, stored, lost, failures>>
      /\ sent \in Nat /\ TypeOK /\ connQ \in Seq(Message) /\ m.attempt # 0
  BY <1>1, MessageFacts DEF Retry, TInv, TypeOK
<1>3. Acc(k)' \subseteq Acc(k)
  BY <1>1 DEF Acc
<1>4. Bounds(k)' /\ Marked(k)' /\ Fresh(k)'
  <2>1. /\ New(k)' \subseteq New(k) /\ newest'[k] = newest[k] /\ stored'[k] = stored[k]
        /\ sent' \in Nat /\ sent <= sent' /\ removed \subseteq removed'
        /\ ded'.received[k] = ded.received[k]
        /\ ded'.successfullyProcessed[k].val = ded.successfullyProcessed[k].val
    BY <1>1, <1>2
  <2>2. \A n \in Acc(k)' : \E h \in Acc(k) : n.val = h.val /\ n.act = h.act
    BY <1>3
  <2> QED BY <1>2, <2>1, <2>2, Carried DEF KeyInv
<1>5. Ahead(k)'
  BY <1>1, <1>2, CarriedAhead DEF KeyInv
<1>6. Apart(k)'
  <2>1. \A h \in Back(k)', n \in Work(k)' \cup Rest(k)' : h.val # n.val
    BY <1>1 DEF KeyInv, Apart
  <2> QED BY <1>1, <2>1 DEF KeyInv, Apart
<1>7. Ordered(k)'
  <2>1. m.key = k => \A n \in Items(connQ) : n.key = k => n.val # m.val
    <3>1. ASSUME m.key = k, NEW n \in Items(connQ), n.key = k PROVE n.val # m.val
      <4>1. m \in Rest(k) /\ m \in Acc(k)
        BY <1>1, <3>1 DEF Acc
      <4>2. n \in Message /\ (n.attempt = 0 \/ n.attempt > 0)
        BY TypeFacts, MessageFacts DEF TInv
      <4>3. CASE n.attempt = 0
        BY <1>1, <3>1, <4>1, <4>2, <4>3, MessageFacts DEF KeyInv, Fresh, New
      <4>4. CASE n.attempt > 0
        BY <3>1, <4>1, <4>4 DEF KeyInv, Apart, Back
      <4> QED BY <4>2, <4>3, <4>4
    <3> QED BY <3>1
  <2>2. Lined(Push(connQ, m), k)
    BY <1>1, <1>2, <2>1, PushLined DEF KeyInv, Ordered, TInv, QueuesUnique
  <2>3. Lined(connQ, k)' /\ Sorted(workerQ[WorkerOf(k)], k)'
    BY <1>1, <1>2, <2>2 DEF KeyInv, Ordered, Lined, Sorted
  <2> QED BY <1>1, <2>3 DEF KeyInv, Ordered
<1> QED BY <1>4, <1>5, <1>6, <1>7 DEF KeyInv

LEMMA KeyStep ==
    ASSUME TInv, NEW k \in Deduped, KeyInv(k), [Next]_vars
    PROVE  KeyInv(k)' /\ stored[k] <= stored'[k]
<1>1. k \in Keys /\ stored[k] \in Nat
  BY KeyTypes DEF TInv, Deduped
<1>2. CASE UNCHANGED vars
  <2>1. Bounds(k)' /\ Marked(k)' /\ Fresh(k)' /\ Ahead(k)' /\ Apart(k)'
    BY <1>2 DEF vars, KeyInv, Bounds, Marked, Fresh, Ahead, Apart, All, Acc, New, Back, Work, Rest,
                Of, Queues, Hand
  <2>2. Ordered(k)'
    BY <1>2 DEF vars, KeyInv, Ordered, Sorted, Lined, Of, Queues, Hand
  <2> QED BY <1>1, <1>2, <2>1, <2>2 DEF vars, KeyInv
<1>3. ASSUME NEW l \in Keys, NEW act \in ActionsOf(l.kind), Event(l, act)
      PROVE  KeyInv(k)' /\ stored' = stored
  BY <1>3, EventKeeps DEF Event
<1>4. CASE HandleMessage
  BY <1>1, <1>4, HandleOtherKeeps, HandleAcceptedKeeps DEF HandleMessage
<1>5. ASSUME NEW w \in Workers, StartWork(w) PROVE KeyInv(k)' /\ stored' = stored
  BY <1>5, StartKeeps DEF StartWork
<1>6. ASSUME NEW w \in Workers, Succeed(w) PROVE KeyInv(k)' /\ stored[k] <= stored'[k]
  BY <1>6, SucceedKeeps
<1>7. ASSUME NEW w \in Workers, FailTransient(w) PROVE KeyInv(k)' /\ stored' = stored
  BY <1>7, FailTransientKeeps DEF FailTransient
<1>8. ASSUME NEW w \in Workers, FailUnretryable(w) PROVE KeyInv(k)' /\ stored' = stored
  BY <1>8, FailUnretryableKeeps DEF FailUnretryable
<1>9. ASSUME NEW m \in retrying, Retry(m) PROVE KeyInv(k)' /\ stored' = stored
  BY <1>9, RetryKeeps DEF Retry
<1> QED BY <1>1, <1>2, <1>3, <1>4, <1>5, <1>6, <1>7, <1>8, <1>9 DEF Next

KeysInv == \A k \in Deduped : KeyInv(k)

THEOREM KeysInvariance == Spec => [](TInv /\ KeysInv)
<1>1. Init => KeysInv
  BY KeyInit DEF KeysInv
<1>2. TInv /\ KeysInv /\ [Next]_vars => KeysInv'
  BY KeyStep DEF KeysInv
<1> QED BY <1>1, <1>2, Invariance, PTL DEF Spec

\* EventQueues.StoredNeverOlder: whatever is deduped, replaced, retried or lost, the pipeline
\* never stores an event of a resource after a newer one.  A retry is only accepted while
\* its hash is the received one, and that is the hash of the newest event that the workers
\* have or had.
THEOREM StoredGrows == Spec => StoredNeverOlder
<1>1. TInv /\ KeysInv /\ [Next]_vars => [\A k \in Keys \ SkipKeys : stored'[k] >= stored[k]]_vars
  <2>1. SUFFICES ASSUME TInv, KeysInv, [Next]_vars, NEW k \in Deduped PROVE stored'[k] >= stored[k]
    BY DEF Deduped
  <2>2. stored[k] <= stored'[k]
    BY <2>1, KeyStep DEF KeysInv
  <2>3. TypeOK /\ TypeOK'
    BY <2>1, NextTypes DEF TInv
  <2>4. stored[k] \in 0..MaxEvents /\ stored'[k] \in 0..MaxEvents
    BY <2>3 DEF TypeOK, Deduped
  <2> QED BY <2>2, <2>4, ConstantFacts
<1> QED BY <1>1, KeysInvariance, PTL DEF Spec, StoredNeverOlder

-----------------------------------------------------------------------------
\* One failure is healed.

\* While an id has failed only once, one event with this id is in its second attempts.
OneRetry(k) ==
    \A m, n \in Flight :
        m.attempt > 0 /\ n.attempt > 0 /\ m.key = k /\ n.key.id = k.id =>
            failures[k.id] = "several" \/ (n.key = k /\ n.val = m.val)

\* The newest event is the received one as long as nothing has failed, or only itself.
Held(k) ==
    \A m \in Acc(k) :
        /\ m.val = newest[k] /\ m.act # "REMOVE"
        /\ failures[k.id] = "none" \/ (failures[k.id] = "one" /\ m.attempt > 0)
        => ded.received[k] = [val |-> m.val, processed |-> TRUE]

\* The newest event is stored or on its way, or it is lost for a reason.
Reached(k) ==
    \/ newest[k] = stored[k] \/ <<k, newest[k]>> \in lost \/ failures[k.id] = "several"
    \/ \E m \in All(k) : m.val = newest[k]

HealInv(k) == OneRetry(k) /\ Held(k) /\ Reached(k)

\* Failures of an id are counted up to "several".
LEMMA FailedFacts ==
    ASSUME TypeOK, NEW m \in Message, Failed(m)
    PROVE  \A i \in Ids : IF i = m.key.id
                          THEN failures'[i] = IF failures[i] = "none" THEN "one" ELSE "several"
                          ELSE failures'[i] = failures[i]
BY MessageFacts DEF Failed, TypeOK

\* The failure that a worker counts is that of its message.
LEMMA TransientFacts ==
    ASSUME TInv, NEW w \in Workers, FailTransient(w), NEW m \in Message, m = handling[w]
    PROVE  LET x == NextAttempt(m)
           IN  /\ Failed(m) /\ x.key = m.key /\ x.val = m.val /\ x.act = m.act
               /\ \/ retrying' = retrying /\ lost' = lost \cup {<<m.key, m.val>>}
                  \/ retrying' = retrying \cup {x} /\ lost' = lost
<1> DEFINE x == NextAttempt(m)
<1>1. x.key = m.key /\ x.val = m.val /\ x.act = m.act
  BY NextAttemptType
<1>2. /\ Failed(x)
      /\ \/ retrying' = retrying /\ lost' = lost \cup {<<x.key, x.val>>}
         \/ retrying' = retrying \cup {x} /\ lost' = lost
  BY DEF FailTransient
<1> HIDE DEF x
<1>3. Failed(m)
  BY <1>1, <1>2 DEF Failed
<1> QED BY <1>1, <1>2, <1>3 DEF x

\* A retry in flight is an old one, or the next attempt of a message that fails now.
LEMMA RetriesMove ==
    ASSUME TInv, [Next]_vars, NEW n \in Flight', n.attempt > 0
    PROVE  \/ \E h \in Flight : h.attempt > 0 /\ h.key = n.key /\ h.val = n.val
           \/ \E w \in Workers : FailTransient(w) /\ n = NextAttempt(handling[w])
<1>1. /\ connQ \in Seq(Message) /\ Items(connQ) \subseteq Message
      /\ \A w \in Workers : workerQ[w] \in Seq(Message)
      /\ retrying \subseteq Message /\ \A h \in Flight : h \in Message
  BY TypeFacts DEF TInv, TypeOK
<1>2. SUFFICES ASSUME n \notin Flight
               PROVE  \/ \E h \in Flight : h.attempt > 0 /\ h.key = n.key /\ h.val = n.val
                      \/ \E w \in Workers : FailTransient(w) /\ n = NextAttempt(handling[w])
  OBVIOUS
<1>3. CASE UNCHANGED vars
  BY <1>2, <1>3 DEF vars, Flight, Queues, Hand
<1>4. ASSUME NEW l \in Keys, NEW act \in ActionsOf(l.kind), Event(l, act) PROVE FALSE
  <2> DEFINE x == [key |-> l, act |-> act, val |-> sent + 1, attempt |-> 0,
                   dedupeKey |-> FirstKey(l)]
  <2>1. x \in Message /\ connQ' = Push(connQ, x) /\ x.attempt = 0
    BY <1>4, EventItem DEF TInv
  <2> HIDE DEF x
  <2>2. Items(connQ') \subseteq Items(connQ) \cup {x}
    BY <1>1, <2>1, PushItems
  <2>3. Flight' \subseteq Flight \cup {x}
    BY <1>4, <2>2 DEF Event, Flight, Queues, Hand
  <2> QED BY <1>2, <2>1, <2>3
<1>5. ASSUME HandleMessage PROVE \E h \in Flight : h.attempt > 0 /\ h.key = n.key /\ h.val = n.val
  <2> DEFINE p == Pulled(connQ)
             m == Rekeyed(p)
  <2>1. /\ p \in Message /\ m \in Message /\ connQ # <<>> /\ connQ' = AfterPull(connQ)
        /\ \A w \in Workers : workerQ'[w] = IF ShouldProcess(ded, m) /\ w = WorkerOf(m.key)
                                            THEN Push(workerQ[w], m) ELSE workerQ[w]
    BY <1>5, HandleFacts DEF TInv
  <2>2. m.key = p.key /\ m.attempt = p.attempt /\ m.val = p.val
    BY <2>1, RekeyedType
  <2>3. Items(connQ) = Items(connQ') \cup {p}
    BY <1>1, <2>1, PullItems
  <2> HIDE DEF m, p
  <2>4. \A w \in Workers : Items(Push(workerQ[w], m)) \subseteq Items(workerQ[w]) \cup {m}
    BY <1>1, <2>1, PushItems
  <2>5. Queues' \subseteq Queues \cup {m}
    BY <2>1, <2>4 DEF Queues
  <2>6. Flight' \subseteq Flight \cup {m} /\ p \in Flight
    BY <1>5, <2>3, <2>5 DEF HandleMessage, Flight, Hand
  <2> QED BY <1>2, <2>2, <2>6
<1>6. ASSUME NEW w \in Workers, StartWork(w) PROVE FALSE
  <2>1. /\ workerQ[w] # <<>> /\ handling'[w] = Pulled(workerQ[w])
        /\ workerQ'[w] = AfterPull(workerQ[w])
        /\ \A v \in Workers : v # w => handling'[v] = handling[v] /\ workerQ'[v] = workerQ[v]
    BY <1>6, StartFacts DEF TInv
  <2>2. Items(workerQ[w]) = Items(workerQ'[w]) \cup {handling'[w]}
    BY <1>1, <2>1, PullItems
  <2>3. Queues' \cup Hand' \subseteq Queues \cup Hand
    BY <2>1, <2>2 DEF Queues, Hand
  <2> QED BY <1>2, <1>6, <2>3 DEF StartWork, Flight
<1>7. ASSUME NEW w \in Workers, Finish(w) PROVE Hand' \subseteq Hand
  BY <1>7, FinishFacts DEF TInv, Hand
<1>8. ASSUME NEW w \in Workers, Succeed(w) \/ FailUnretryable(w) PROVE FALSE
  <2>1. UNCHANGED <<connQ, workerQ, retrying>> /\ Hand' \subseteq Hand
    BY <1>7, <1>8 DEF Succeed, FailUnretryable
  <2> QED BY <1>2, <2>1 DEF Flight, Queues
<1>9. ASSUME NEW w \in Workers, FailTransient(w) PROVE n = NextAttempt(handling[w])
  <2>1. /\ UNCHANGED <<connQ, workerQ>> /\ Hand' \subseteq Hand
        /\ retrying' \subseteq retrying \cup {NextAttempt(handling[w])}
    BY <1>7, <1>9 DEF FailTransient
  <2> QED BY <1>2, <2>1 DEF Flight, Queues
<1>10. ASSUME NEW m \in retrying, Retry(m) PROVE FALSE
  <2>1. connQ' = Push(connQ, m) /\ retrying' \subseteq retrying /\ UNCHANGED <<workerQ, handling>>
    BY <1>10 DEF Retry
  <2>2. Items(connQ') \subseteq Items(connQ) \cup {m}
    BY <1>1, <2>1, PushItems
  <2> QED BY <1>2, <2>1, <2>2 DEF Flight, Queues, Hand
<1> QED BY <1>3, <1>4, <1>5, <1>6, <1>8, <1>9, <1>10 DEF Next

\* A retry means that its id has failed.
LEMMA RetriesFailed ==
    ASSUME TInv, NEW m \in Flight, m.attempt > 0
    PROVE  m.key.id \in Ids /\ failures[m.key.id] # "none"
BY TypeFacts, MessageFacts DEF TInv, Tagged, Handled, Flight

LEMMA OneRetryStep ==
    ASSUME TInv, NEW k \in Deduped, OneRetry(k), [Next]_vars
    PROVE  OneRetry(k)'
<1>1. k.id \in Ids /\ TypeOK
  BY DedupedKinds DEF TInv
<1>2. SUFFICES ASSUME NEW m \in Flight', NEW n \in Flight', m.attempt > 0, n.attempt > 0,
                      m.key = k, n.key.id = k.id
               PROVE  failures'[k.id] = "several" \/ (n.key = k /\ n.val = m.val)
  BY DEF OneRetry
<1> DEFINE Old(x) == \E h \in Flight : h.attempt > 0 /\ h.key = x.key /\ h.val = x.val
<1>3. CASE \E w \in Workers : FailTransient(w)
  <2>1. PICK w \in Workers : FailTransient(w)
    BY <1>3
  <2>2. PICK c \in Message : c = handling[w]
    BY <1>1, <2>1, FinishFacts DEF FailTransient
  <2>3. handling[w] # Idle
    BY <2>1 DEF FailTransient, Finish
  <2>4. \A v \in Workers : FailTransient(v) => handling[v] = c
    <3>1. ASSUME NEW v \in Workers, FailTransient(v), v # w PROVE FALSE
      <4>1. handling'[v] = Idle /\ handling'[v] = handling[v] /\ handling[v] # Idle
        BY <1>1, <2>1, <3>1, FinishFacts DEF FailTransient
      <4> QED BY <4>1
    <3> QED BY <2>2, <3>1
  <2> DEFINE x == NextAttempt(c)
  <2>5. Failed(c) /\ x.key = c.key /\ x.val = c.val
    BY <2>1, <2>2, TransientFacts
  <2>6. (Old(m) \/ m = x) /\ (Old(n) \/ n = x)
    BY <1>2, <2>4, RetriesMove
  <2> HIDE DEF x
  <2>7. failures'[k.id] = IF k.id = c.key.id
                          THEN IF failures[k.id] = "none" THEN "one" ELSE "several"
                          ELSE failures[k.id]
    BY <1>1, <2>5, FailedFacts
  <2>8. CASE Old(m) /\ Old(n)
    <3>1. failures[k.id] = "several" \/ (n.key = k /\ n.val = m.val)
      BY <1>2, <2>8 DEF OneRetry
    <3> QED BY <2>7, <3>1
  <2>9. CASE (Old(m) /\ n = x) \/ (m = x /\ Old(n))
    <3>1. failures[k.id] # "none"
      BY <1>2, <2>9, RetriesFailed
    <3>2. c.key.id = k.id
      BY <1>2, <2>5, <2>9
    <3> QED BY <2>7, <3>1, <3>2
  <2> QED BY <1>2, <2>6, <2>8, <2>9
<1>4. CASE ~ \E w \in Workers : FailTransient(w)
  <2>1. Old(m) /\ Old(n)
    BY <1>2, <1>4, RetriesMove
  <2>2. failures[k.id] = "several" \/ (n.key = k /\ n.val = m.val)
    BY <1>2, <2>1 DEF OneRetry
  <2>3. failures[k.id] = "several" => failures'[k.id] = "several"
    <3>1. ASSUME NEW w \in Workers, FailUnretryable(w)
          PROVE  failures[k.id] = "several" => failures'[k.id] = "several"
      <4>1. PICK c \in Message : c = handling[w]
        BY <1>1, <3>1, FinishFacts DEF FailUnretryable
      <4>2. Failed(c)
        BY <3>1, <4>1 DEF FailUnretryable
      <4> QED BY <1>1, <4>2, FailedFacts
    <3>2. CASE UNCHANGED failures
      BY <3>2
    <3> QED BY <1>4, <3>1, <3>2 DEF Next, vars, Event, HandleMessage, StartWork, Succeed, Retry
  <2> QED BY <2>2, <2>3
<1> QED BY <1>3, <1>4

LEMMA EventHeals ==
    ASSUME TInv, NEW k \in Deduped, KeyInv(k), HealInv(k),
           NEW l \in Keys, NEW act \in ActionsOf(l.kind), Event(l, act)
    PROVE  Held(k)' /\ Reached(k)'
<1> DEFINE x == [key |-> l, act |-> act, val |-> sent + 1, attempt |-> 0,
                 dedupeKey |-> FirstKey(l)]
<1>1. /\ New(k)' = IF l = k THEN New(k) \cup {x} ELSE New(k)
      /\ Back(k)' = Back(k) /\ Work(k)' = Work(k) /\ Rest(k)' = Rest(k) /\ x.val = sent + 1
  BY EventMoves
<1> HIDE DEF x
<1>2. Acc(k)' = Acc(k) /\ All(k)' = IF l = k THEN All(k) \cup {x} ELSE All(k)
  BY <1>1 DEF Acc, All
<1>3. /\ UNCHANGED <<ded, stored, lost, failures>> /\ k \in Keys /\ sent \in Nat
      /\ newest'[k] = IF l = k THEN sent + 1 ELSE newest[k]
  BY DEF Event, TInv, TypeOK, Deduped
<1>4. \A m \in All(k) : m.val <= sent /\ m.val \in Nat
  BY <1>3, KeyTypes DEF TInv, KeyInv, Bounds
<1>5. l = k => \A m \in Acc(k) : m.val # newest'[k]
  BY <1>3, <1>4 DEF All
<1>6. Held(k)'
  BY <1>2, <1>3, <1>5 DEF HealInv, Held
<1>7. Reached(k)'
  BY <1>1, <1>2, <1>3 DEF HealInv, Reached
<1> QED BY <1>6, <1>7

LEMMA HandleHeals ==
    ASSUME TInv, NEW k \in Deduped, KeyInv(k), HealInv(k), HandleMessage
    PROVE  Held(k)' /\ Reached(k)'
<1> DEFINE p == Pulled(connQ)
           m == Rekeyed(p)
           ok == ShouldProcess(ded, m)
<1>1. /\ p \in Message /\ m \in Message /\ m.key = p.key /\ m.val = p.val /\ m.act = p.act
      /\ m.attempt = p.attempt /\ Known(m) /\ p.attempt \in Nat
      /\ ded' = AfterShouldProcess(ded, m)
  BY HandleFacts, RekeyedType, MessageFacts DEF TInv
<1>2. /\ p.key # k => New(k)' = New(k) /\ Back(k)' = Back(k) /\ Work(k)' = Work(k)
      /\ p.key = k =>
            /\ p \in New(k) \cup Back(k)
            /\ New(k)' \subseteq New(k) /\ New(k) \subseteq New(k)' \cup {p}
            /\ Back(k)' \subseteq Back(k) /\ Back(k) \subseteq Back(k)' \cup {p}
            /\ ~ ok => Work(k)' = Work(k)
            /\ ok => /\ m \in Work(k)' /\ Of(Queues, k)' \subseteq Of(Queues, k) \cup {m}
                     /\ \A n \in Work(k) : \/ n \in Work(k)'
                                           \/ n.dedupeKey = m.dedupeKey /\ n.dedupeKey # NoKey
      /\ Rest(k)' = Rest(k) /\ Of(Hand, k)' = Of(Hand, k)
  BY HandleMoves
<1>3. p.key = k /\ ok =>
          /\ \A n \in Work(k) : n.val < p.val
          /\ \A n \in Rest(k) \cup Back(k)' : n.val # p.val
          /\ (p.attempt > 0 /\ p.act # "REMOVE" =>
                 ded.received[k].val = p.val /\ ded.received[k].processed)
  BY AcceptedIsNewer
<1>4. /\ UNCHANGED <<handling, retrying, sent, newest, removed, stored, lost, failures>>
      /\ k \in Keys /\ k \notin SkipKeys /\ ded \in Deduper /\ k.id \in Ids
  BY DedupedKinds DEF HandleMessage, TInv, TypeOK, Deduped
<1> DEFINE e == AfterShouldProcess(ded, m)
<1>5. /\ m.key # k => e.received[k] = ded.received[k]
      /\ m.key = k /\ m.act = "REMOVE" => e.received[k] = NoEntry
      /\ m.key = k /\ m.act # "REMOVE" =>
            e.received[k] = IF m.attempt = 0 /\ GetValue(ded, k) # m.val
                            THEN [val |-> m.val, processed |-> TRUE] ELSE ded.received[k]
  BY <1>1, <1>4, AcceptFacts
<1>6. ded' = e
  BY <1>1
<1>7. /\ newest[k] \in Nat /\ ded.received[k] \in Entry /\ ded.received[k].val \in Nat
      /\ (p.key = k => p \in All(k) /\ p.val \in Nat \ {0} /\ p.val <= newest[k])
      /\ \A n \in All(k) : n.val \in Nat \ {0} /\ n.val <= newest[k]
  BY <1>2, <1>4, KeyTypes DEF TInv, KeyInv, Bounds, All, Acc
<1> HIDE DEF e, ok, m, p
<1>8. CASE p.key # k
  <2>1. Acc(k)' = Acc(k) /\ All(k)' = All(k)
    BY <1>2, <1>8 DEF Acc, All
  <2>2. ded'.received[k] = ded.received[k]
    BY <1>1, <1>5, <1>6, <1>8
  <2> QED BY <1>4, <2>1, <2>2 DEF HealInv, Held, Reached
<1>9. CASE p.key = k /\ ~ ok
  <2>1. m.act # "REMOVE" /\ ~ (m.attempt = 0 /\ GetValue(ded, k) # m.val)
        /\ ~ (m.attempt > 0 /\ GetValue(ded, k) = m.val)
    BY <1>1, <1>9 DEF ok, ShouldProcess, ShouldReprocess
  <2>2. ded'.received[k] = ded.received[k]
    BY <1>1, <1>5, <1>6, <1>9, <2>1
  <2>3. Acc(k)' \subseteq Acc(k)
    BY <1>2, <1>9 DEF Acc
  <2>4. Held(k)'
    BY <1>4, <2>2, <2>3 DEF HealInv, Held
  <2>5. \A n \in All(k) : n \in All(k)' \/ n = p
    BY <1>2, <1>9 DEF All, Acc
  <2>6. p.val = newest[k] => failures[k.id] = "several"
    <3>1. CASE p.attempt = 0
      <4>1. p \in New(k)
        BY <1>2, <1>9, <3>1 DEF Back
      <4>2. GetValue(ded, k) = p.val
        BY <1>1, <2>1, <3>1
      <4>3. ded.received[k].val < p.val /\ ded.successfullyProcessed[k].val # p.val
        BY <1>7, <1>9, <4>1 DEF KeyInv, Fresh, Marked
      <4> QED BY <1>7, <1>9, <4>2, <4>3 DEF GetValue
    <3>2. CASE p.attempt > 0
      <4>1. p \in Back(k) /\ p \in Acc(k) /\ p \in Flight
        BY <1>2, <1>9, <3>2 DEF New, Acc, Back, Flight
      <4>2. failures[k.id] \in {"one", "several"}
        BY <1>4, <1>9, <3>2, <4>1, RetriesFailed DEF TInv, TypeOK
      <4>3. ded.received[k] # [val |-> p.val, processed |-> TRUE]
        <5>1. GetValue(ded, k) # p.val /\ p.val # NoHash
          BY <1>1, <1>7, <1>9, <2>1, <3>2, ConstantFacts
        <5> QED BY <5>1 DEF GetValue, Present
      <4>4. p.act # "REMOVE"
        BY <1>1, <2>1
      <4> QED BY <3>2, <4>1, <4>2, <4>3, <4>4 DEF HealInv, Held
    <3> QED BY <1>1, <3>1, <3>2
  <2>7. Reached(k)'
    BY <1>4, <2>5, <2>6 DEF HealInv, Reached
  <2> QED BY <2>4, <2>7
<1>10. CASE p.key = k /\ ok
  <2>1. /\ m \in Work(k)' /\ Acc(k)' \subseteq Acc(k) \cup {m}
        /\ Work(k)' \subseteq Work(k) \cup {m}
    BY <1>2, <1>10 DEF Work, Acc
  <2>2. ASSUME NEW n \in Acc(k)', n.val = newest[k], n.act # "REMOVE",
               failures[k.id] = "none" \/ (failures[k.id] = "one" /\ n.attempt > 0)
        PROVE  ded'.received[k] = [val |-> n.val, processed |-> TRUE]
    <3>1. CASE n = m
      <4>1. CASE m.attempt = 0
        <5>1. GetValue(ded, k) # m.val
          BY <1>1, <1>4, <1>10, <2>2, <3>1, <4>1 DEF ok, ShouldProcess, SkipDedupe
        <5> QED BY <1>1, <1>5, <1>6, <1>10, <2>2, <3>1, <4>1, <5>1
      <4>2. CASE m.attempt > 0
        <5>1. ded.received[k].val = m.val /\ ded.received[k].processed /\ m.attempt # 0
          BY <1>1, <1>3, <1>10, <2>2, <3>1, <4>2
        <5>2. ded.received[k] = [val |-> m.val, processed |-> TRUE]
          BY <1>7, <5>1 DEF Entry
        <5> QED BY <1>1, <1>5, <1>6, <1>10, <2>2, <3>1, <5>1, <5>2
      <4> QED BY <1>1, <4>1, <4>2
    <3>2. CASE n # m
      <4>1. n \in Acc(k) /\ n \in All(k)
        BY <2>1, <2>2, <3>2 DEF All
      <4>2. n.val # p.val
        <5>1. n \in Work(k) \/ n \in Rest(k) \cup Back(k)'
          BY <1>2, <2>1, <2>2, <3>2 DEF Acc
        <5>2. n.val \in Nat
          BY <1>7, <4>1
        <5> QED BY <1>3, <1>7, <1>10, <5>1, <5>2
      <4>3. CASE p.attempt = 0
        <5>1. p \in New(k)
          BY <1>2, <1>10, <4>3 DEF Back
        <5>2. n.val < p.val
          BY <4>1, <5>1 DEF KeyInv, Fresh
        <5> QED BY <1>7, <1>10, <2>2, <5>2
      <4>4. CASE p.attempt > 0 /\ p.act = "REMOVE"
        <5>1. p.val = newest[k]
          BY <1>7, <1>10, <4>4 DEF KeyInv, Bounds
        <5> QED BY <2>2, <4>2, <5>1
      <4>5. CASE p.attempt > 0 /\ p.act # "REMOVE"
        <5>1. m.attempt # 0 /\ m.act # "REMOVE" /\ m.key = k
          BY <1>1, <1>10, <4>5
        <5>2. ded'.received[k] = ded.received[k]
          BY <1>5, <1>6, <5>1
        <5>3. ded.received[k] = [val |-> n.val, processed |-> TRUE]
          BY <2>2, <4>1 DEF HealInv, Held
        <5> QED BY <5>2, <5>3
      <4> QED BY <1>1, <4>3, <4>4, <4>5
    <3> QED BY <3>1, <3>2
  <2>3. Held(k)'
    BY <1>4, <2>2 DEF Held
  <2>4. \A n \in All(k) : n \in All(k)' \/ n = p \/ n \in Work(k)
    BY <1>2, <1>10 DEF All, Acc
  <2>5. \A n \in Work(k) : n.val # newest[k]
    <3>1. \A n \in Work(k) : n.val < p.val /\ n.val \in Nat
      BY <1>3, <1>7, <1>10 DEF All, Acc
    <3> QED BY <1>7, <1>10, <3>1
  <2>6. m \in All(k)' /\ m.val = p.val
    BY <1>1, <2>1 DEF All, Acc
  <2>7. Reached(k)'
    BY <1>4, <2>4, <2>5, <2>6 DEF HealInv, Reached
  <2> QED BY <2>3, <2>7
<1> QED BY <1>8, <1>9, <1>10

LEMMA StartHeals ==
    ASSUME TInv, NEW k \in Deduped, HealInv(k), NEW w \in Workers, StartWork(w)
    PROVE  Held(k)' /\ Reached(k)'
<1>1. Acc(k)' = Acc(k) /\ All(k)' = All(k)
  BY StartMoves DEF Acc, All
<1>2. UNCHANGED <<ded, newest, stored, lost, failures>>
  BY DEF StartWork
<1> QED BY <1>1, <1>2 DEF HealInv, Held, Reached

LEMMA RetryHeals ==
    ASSUME TInv, NEW k \in Deduped, KeyInv(k), HealInv(k), NEW m \in retrying, Retry(m)
    PROVE  Held(k)' /\ Reached(k)'
<1>1. /\ m \in Message /\ m.attempt > 0
      /\ New(k)' = New(k) /\ Work(k)' = Work(k) /\ Rest(k)' = Rest(k) \ {m}
      /\ m.key # k => Back(k)' \subseteq Back(k)
      /\ m.key = k => m \in Rest(k) /\ m \in Back(k)' /\ Back(k)' \subseteq Back(k) \cup {m}
      /\ \A n \in Back(k) : n \in Back(k)' \/ m.key.id = k.id
  BY RetryMoves
<1>2. UNCHANGED <<ded, newest, stored, lost, failures>>
  BY DEF Retry
<1>3. Acc(k)' \subseteq Acc(k)
  BY <1>1 DEF Acc
<1>4. Held(k)'
  BY <1>2, <1>3 DEF HealInv, Held
<1>5. ASSUME NEW n \in All(k), n \notin All(k)' PROVE failures[k.id] = "several"
  <2>1. n # m
    <3>1. n = m => m.key = k
      BY KeyTypes DEF TInv, Deduped
    <3> QED BY <1>1, <1>5, <3>1 DEF All, Acc
  <2>2. n \in Back(k) /\ m.key.id = k.id
    BY <1>1, <1>5, <2>1 DEF All, Acc
  <2>3. n \in Flight /\ m \in Flight /\ n.attempt > 0 /\ n.key = k
    BY <2>2 DEF Back, Flight
  <2>4. failures[k.id] = "several" \/ (m.key = k /\ m.val = n.val)
    BY <1>1, <2>2, <2>3 DEF HealInv, OneRetry
  <2>5. m.key = k => n.val # m.val
    BY <1>1, <2>2 DEF KeyInv, Apart
  <2> QED BY <2>4, <2>5
<1>6. Reached(k)'
  BY <1>2, <1>5 DEF HealInv, Reached
<1> QED BY <1>4, <1>6

LEMMA SucceedHeals ==
    ASSUME TInv, NEW k \in Deduped, KeyInv(k), HealInv(k), NEW w \in Workers, Succeed(w)
    PROVE  Held(k)' /\ Reached(k)'
<1>1. PICK m \in Message : m = handling[w]
  BY FinishFacts DEF TInv, Succeed
<1>2. /\ Finish(w) /\ UNCHANGED <<connQ, workerQ, retrying, sent, newest, removed, lost, failures>>
      /\ ded' = MarkSuccessful(ded, m) /\ stored' = [stored EXCEPT ![m.key] = m.val]
      /\ Known(m) /\ ded \in Deduper /\ k \in Keys /\ k \notin SkipKeys /\ m.key \in Keys
      /\ Rest(k)' = Rest(k)
  BY <1>1, MessageFacts DEF Succeed, TInv, TypeOK, Deduped, Rest, Of
<1> DEFINE e == MarkSuccessful(ded, m)
<1>3. /\ k # m.key => /\ e.received[k] = ded.received[k]
                      /\ e.successfullyProcessed[k] = ded.successfullyProcessed[k]
      /\ m.key = k /\ m.act = "REMOVE" =>
            /\ e.received[k] = ded.received[k] /\ e.successfullyProcessed[k] = NoEntry
      /\ m.key = k /\ m.act # "REMOVE" =>
            /\ e.received[k] = IF ded.received[k].val = m.val THEN NoEntry ELSE ded.received[k]
            /\ e.successfullyProcessed[k] = [val |-> m.val, processed |-> TRUE]
  BY <1>2, MarkFacts
<1>4. ded' = e
  BY <1>2
<1> HIDE DEF e
<1>5. CASE m.key # k
  <2>1. Acc(k)' = Acc(k) /\ All(k)' = All(k)
    BY <1>1, <1>2, <1>5, FinishMoves DEF Acc, All
  <2>2. ded'.received[k] = ded.received[k] /\ stored'[k] = stored[k]
    BY <1>2, <1>3, <1>4, <1>5 DEF TInv, TypeOK
  <2> QED BY <1>2, <2>1, <2>2 DEF HealInv, Held, Reached
<1>6. CASE m.key = k
  <2>1. /\ m \in Acc(k) /\ m \in All(k) /\ m \in Work(k) /\ m.val \in Nat
        /\ Work(k)' \subseteq Work(k) /\ \A n \in Work(k)' : m.val < n.val
        /\ \A n \in Back(k) \cup Rest(k) : n.val # m.val
        /\ New(k)' = New(k) /\ Back(k)' = Back(k)
    BY <1>1, <1>2, <1>6, DoneWith
  <2>2. /\ newest[k] \in Nat /\ stored[k] \in Nat
        /\ \A n \in All(k) : n.val \in Nat
    BY <1>2, KeyTypes DEF TInv
  <2>3. ASSUME NEW n \in Acc(k)', n.val = newest[k], n.act # "REMOVE",
               failures[k.id] = "none" \/ (failures[k.id] = "one" /\ n.attempt > 0)
        PROVE  ded'.received[k] = [val |-> n.val, processed |-> TRUE]
    <3>1. n \in Acc(k) /\ n \in All(k)
      BY <1>2, <2>1, <2>3 DEF Acc, All
    <3>2. n.val # m.val
      <4>1. n \in Work(k)' \/ n \in Back(k) \cup Rest(k)
        BY <1>2, <2>1, <2>3 DEF Acc
      <4>2. n \in Work(k)' => m.val < n.val
        BY <2>1
      <4> QED BY <2>1, <2>2, <3>1, <4>1, <4>2
    <3>3. ded.received[k] = [val |-> n.val, processed |-> TRUE]
      BY <2>3, <3>1 DEF HealInv, Held
    <3>4. ded.received[k].val # m.val
      BY <3>2, <3>3
    <3> QED BY <1>3, <1>4, <1>6, <3>3, <3>4
  <2>4. Held(k)'
    BY <1>2, <2>3 DEF Held
  <2>5. stored'[k] = m.val /\ stored[k] <= m.val /\ m.val <= newest[k]
    BY <1>2, <1>6, <2>1 DEF TInv, TypeOK, KeyInv, Ahead, Bounds
  <2>6. ASSUME NEW n \in All(k), n.val = newest[k] PROVE n \in All(k)' \/ m.val = newest[k]
    <3>1. ASSUME n \in Work(k) PROVE n \in Work(k)' \/ n = m
      <4>1. Of(Hand, k) = {m} /\ Work(k)' = Of(Queues, k)
        BY <1>1, <1>2, <1>6, FinishMoves
      <4> QED BY <3>1, <4>1 DEF Work
    <3> QED BY <1>2, <2>1, <2>6, <3>1 DEF All, Acc
  <2>7. stored[k] = newest[k] => m.val = newest[k]
    BY <2>1, <2>2, <2>5
  <2>8. Reached(k)'
    BY <1>2, <2>5, <2>6, <2>7 DEF HealInv, Reached
  <2> QED BY <2>4, <2>8
<1> QED BY <1>5, <1>6

LEMMA FailTransientHeals ==
    ASSUME TInv, NEW k \in Deduped, KeyInv(k), HealInv(k), NEW w \in Workers, FailTransient(w)
    PROVE  Held(k)' /\ Reached(k)'
<1>1. PICK m \in Message : m = handling[w]
  BY FinishFacts DEF TInv, FailTransient
<1> DEFINE x == NextAttempt(m)
<1>2. /\ Failed(m) /\ x.key = m.key /\ x.val = m.val /\ x.act = m.act
      /\ \/ retrying' = retrying /\ lost' = lost \cup {<<m.key, m.val>>}
         \/ retrying' = retrying \cup {x} /\ lost' = lost
  BY <1>1, TransientFacts
<1>3. /\ Finish(w) /\ UNCHANGED <<connQ, workerQ, ded, sent, newest, removed, stored>>
      /\ TypeOK /\ k.id \in Ids
  BY DedupedKinds DEF FailTransient, TInv
<1> HIDE DEF x
<1>4. failures'[k.id] = IF k.id = m.key.id
                        THEN IF failures[k.id] = "none" THEN "one" ELSE "several"
                        ELSE failures[k.id]
  BY <1>2, <1>3, FailedFacts
<1>5. /\ New(k)' = New(k) /\ Back(k)' = Back(k) /\ m \in Hand
      /\ m.key # k => Work(k)' = Work(k)
      /\ m.key = k => Of(Hand, k) = {m} /\ m \in Work(k) /\ Work(k)' = Of(Queues, k)
  BY <1>1, <1>3, FinishMoves
<1>6. /\ m.key # k => Rest(k)' = Rest(k)
      /\ m.key = k => Rest(k) \subseteq Rest(k)' /\ Rest(k)' \subseteq Rest(k) \cup {x}
  BY <1>2 DEF Rest, Of
<1>7. ASSUME NEW n \in Acc(k)', n.val = newest[k], n.act # "REMOVE",
             failures'[k.id] = "none" \/ (failures'[k.id] = "one" /\ n.attempt > 0)
      PROVE  ded.received[k] = [val |-> n.val, processed |-> TRUE]
  <2>1. n \in Acc(k) \/ (m.key = k /\ n = x)
    BY <1>5, <1>6 DEF Acc, Work
  <2>2. CASE k.id # m.key.id
    BY <1>4, <1>7, <2>1, <2>2 DEF HealInv, Held
  <2>3. CASE k.id = m.key.id
    <3>1. failures[k.id] = "none" /\ n.attempt > 0
      BY <1>4, <1>7, <2>3
    <3>2. n \notin Acc(k)
      <4>1. n \in Acc(k) => n \in Flight /\ n.key = k
        BY KeyTypes DEF TInv, Deduped, All, Of
      <4> QED BY <3>1, <4>1, RetriesFailed
    <3>3. m.key = k /\ n = x
      BY <2>1, <3>2
    <3>4. m \in Acc(k) /\ m.val = newest[k] /\ m.act # "REMOVE"
      BY <1>2, <1>5, <1>7, <3>3 DEF Acc
    <3> QED BY <1>2, <3>1, <3>3, <3>4 DEF HealInv, Held
  <2> QED BY <2>2, <2>3
<1>8. Held(k)'
  BY <1>3, <1>7 DEF Held
<1>9. ASSUME NEW n \in All(k), n.val = newest[k]
      PROVE  \/ \E h \in All(k)' : h.val = newest[k]
             \/ <<k, newest[k]>> \in lost'
  <2>1. CASE m.key # k
    <3>1. All(k)' = All(k)
      BY <1>5, <1>6, <2>1 DEF All, Acc
    <3> QED BY <1>9, <3>1
  <2>2. CASE m.key = k /\ n # m
    <3>1. n \in All(k)'
      BY <1>5, <1>6, <1>9, <2>2 DEF All, Acc, Work
    <3> QED BY <1>9, <3>1
  <2>3. CASE m.key = k /\ n = m
    <3>1. CASE retrying' = retrying \cup {x}
      <4>1. x \in All(k)'
        BY <1>2, <2>3, <3>1 DEF All, Acc, Rest, Of
      <4> QED BY <1>2, <1>9, <2>3, <4>1
    <3>2. CASE lost' = lost \cup {<<m.key, m.val>>}
      BY <1>9, <2>3, <3>2
    <3> QED BY <1>2, <3>1, <3>2
  <2> QED BY <2>1, <2>2, <2>3
<1>10. Reached(k)'
  BY <1>2, <1>3, <1>4, <1>9 DEF HealInv, Reached
<1> QED BY <1>8, <1>10

LEMMA FailUnretryableHeals ==
    ASSUME TInv, NEW k \in Deduped, KeyInv(k), HealInv(k), NEW w \in Workers, FailUnretryable(w)
    PROVE  Held(k)' /\ Reached(k)'
<1>1. PICK m \in Message : m = handling[w]
  BY FinishFacts DEF TInv, FailUnretryable
<1>2. /\ Finish(w) /\ UNCHANGED <<connQ, workerQ, retrying, sent, newest, removed, stored>>
      /\ Failed(m) /\ lost' = lost \cup {<<m.key, m.val>>} /\ Known(m)
      /\ TypeOK /\ k.id \in Ids /\ k \in Keys /\ ded \in Deduper /\ Rest(k)' = Rest(k)
  BY <1>1, DedupedKinds, MessageFacts DEF FailUnretryable, TInv, TypeOK, Rest, Of
<1>3. failures'[k.id] = IF k.id = m.key.id
                        THEN IF failures[k.id] = "none" THEN "one" ELSE "several"
                        ELSE failures[k.id]
  BY <1>2, FailedFacts
<1>4. /\ New(k)' = New(k) /\ Back(k)' = Back(k)
      /\ m.key # k => Work(k)' = Work(k)
      /\ m.key = k => Of(Hand, k) = {m} /\ Work(k)' = Of(Queues, k)
  BY <1>1, <1>2, FinishMoves
<1>5. Acc(k)' \subseteq Acc(k) /\ \A n \in All(k) : n \in All(k)' \/ (m.key = k /\ n = m)
  BY <1>2, <1>4 DEF All, Acc, Work
<1>6. k # m.key => ded'.received[k] = ded.received[k]
  <2>1. k # m.key => RemoveMessage(ded, m).received[k] = ded.received[k]
    BY <1>2, ForgetFacts
  <2>2. ded' = RemoveMessage(ded, m)
    BY <1>1 DEF FailUnretryable
  <2> QED BY <2>1, <2>2
<1>7. ASSUME NEW n \in Acc(k)', n.val = newest[k], n.act # "REMOVE",
             failures'[k.id] = "none" \/ (failures'[k.id] = "one" /\ n.attempt > 0)
      PROVE  ded'.received[k] = [val |-> n.val, processed |-> TRUE]
  <2>1. n \in Acc(k) /\ n \in Flight /\ n.key = k
    BY <1>5, KeyTypes DEF TInv, Deduped, All, Of
  <2>2. CASE k.id # m.key.id
    BY <1>3, <1>6, <1>7, <2>1, <2>2 DEF HealInv, Held
  <2>3. CASE k.id = m.key.id
    BY <1>3, <1>7, <2>1, <2>3, RetriesFailed
  <2> QED BY <2>2, <2>3
<1>8. Held(k)'
  BY <1>2, <1>7 DEF Held
<1>9. Reached(k)'
  BY <1>2, <1>3, <1>5 DEF HealInv, Reached
<1> QED BY <1>8, <1>9

LEMMA HealInit == ASSUME NEW k \in Deduped, Init PROVE HealInv(k)
<1>1. /\ connQ = <<>> /\ retrying = {} /\ Items(<<>>) = {} /\ k \in Keys
      /\ \A w \in Workers : workerQ[w] = <<>> /\ handling[w] = Idle
      /\ newest[k] = NoHash /\ stored[k] = NoHash
  BY DEF Init, Items, Deduped
<1>2. Flight = {} /\ Acc(k) = {}
  BY <1>1 DEF Flight, Queues, Hand, Acc, Back, Work, Rest, Of
<1> QED BY <1>1, <1>2 DEF HealInv, OneRetry, Held, Reached

LEMMA HealStep ==
    ASSUME TInv, NEW k \in Deduped, KeyInv(k), HealInv(k), [Next]_vars
    PROVE  HealInv(k)'
<1>1. OneRetry(k)'
  BY OneRetryStep DEF HealInv
<1>2. Held(k)' /\ Reached(k)'
  <2>1. CASE UNCHANGED vars
    <3>1. Acc(k)' = Acc(k) /\ All(k)' = All(k)
      BY <2>1 DEF vars, All, Acc, New, Back, Work, Rest, Of, Queues, Hand
    <3> QED BY <2>1, <3>1 DEF vars, HealInv, Held, Reached
  <2> QED BY <2>1, EventHeals, HandleHeals, StartHeals, SucceedHeals, FailTransientHeals,
             FailUnretryableHeals, RetryHeals DEF Next
<1> QED BY <1>1, <1>2 DEF HealInv

HealsInv == \A k \in Deduped : HealInv(k)

\* EventQueues.OneFailureHeals: when all is quiet, the newest event of a deduped resource is
\* stored, or it is lost for good, or several failures hit its id.  The newest event, as
\* long as it is not stored, is never rejected before something else has failed, and never
\* pushed out of a queue but by another retry with its id.
THEOREM OneFailureIsHealed == Spec => []OneFailureHeals
<1>1. Init => HealsInv
  BY HealInit DEF HealsInv
<1>2. TInv /\ KeysInv /\ HealsInv /\ [Next]_vars => HealsInv'
  BY HealStep DEF KeysInv, HealsInv
<1>3. HealsInv => OneFailureHeals
  <2> SUFFICES ASSUME HealsInv, Quiet, NEW k \in Deduped
               PROVE  \/ stored[k] = newest[k] \/ <<k, newest[k]>> \in lost
                      \/ failures[k.id] = "several"
    BY DEF OneFailureHeals, Deduped
  <2>1. connQ = <<>> /\ retrying = {} /\ \A w \in Workers : workerQ[w] = <<>> /\ handling[w] = Idle
    BY DEF Quiet
  <2>2. Items(<<>>) = {}
    BY DEF Items
  <2>3. All(k) = {}
    BY <2>1, <2>2 DEF All, Acc, New, Back, Work, Rest, Of, Queues, Hand
  <2> QED BY <2>3 DEF HealsInv, HealInv, Reached
<1> QED BY <1>1, <1>2, <1>3, KeysInvariance, PTL DEF Spec
=============================================================================
