----------------------------- MODULE EventQueues -----------------------------
(***************************************************************************)
(* The queues of one Sensor connection in Central: the connection's queue of *)
(* sensor events, the handler that sets dedupe keys and asks the deduper,    *)
(* and the sharded worker queues with their workers, failures and retries.   *)
(*                                                                          *)
(* Every event has a content of its own: its number in the order Sensor      *)
(* sends them, which is also its hash.                                      *)
(***************************************************************************)
EXTENDS DeduperOps, DedupingQueue

CONSTANTS
    ShardOf,       \* indexFromKey: the shard of a resource id
    MaxAttempts,   \* maxHandlerAttempts
    MaxEvents,     \* bound on the events that Sensor sends
    Faults         \* the errors the pipeline returns, a subset of {"transient", "unretryable"}

Kinds == {"deployment", "alerts", "node", "inventory", "index", "vm", "reprocess"}

ASSUME EventsAssumption ==
    /\ MaxAttempts \in Nat \ {0} /\ MaxEvents \in Nat
    /\ \A k \in Keys : k.kind \in Kinds /\ k.id \notin {"risk", "NodeInventory", "NodeIndex"}
    /\ \A k, l \in Keys : k.kind = l.kind /\ k.id = l.id => k = l
    /\ Hashes = 1..MaxEvents /\ NoHash = 0
    /\ SkipKeys = {k \in Keys : k.kind \in {"node", "inventory", "index", "reprocess"}}
    /\ Faults \subseteq {"transient", "unretryable"}

Ids == {k.id : k \in Keys}

\* Mutant: every kind has workers of its own.
WorkerTypePerKind(kind) == kind

\* addMultiplexed: which worker queue handles a kind of event.
WorkerType(kind) ==
    CASE kind = "reprocess" -> "deployment"
      [] kind \in {"inventory", "index"} -> "node"
      [] OTHER -> kind

WorkerOf(k) == <<WorkerType(k.kind), ShardOf[k.id]>>
Workers == {<<kind, ShardOf[i]>> : kind \in Kinds, i \in Ids}

Idle == [attempt |-> -1]

VARIABLES
    connQ,       \* the connection's queue of events
    workerQ,     \* the queue of each worker
    handling,    \* what each worker is handling, or Idle
    retrying,    \* messages waiting for their retry timer
    ded,         \* the deduper
    sent,        \* ghost: the number of events Sensor has sent
    newest,      \* ghost: the last event of each key, NoHash if none
    removed,     \* ghost: the keys whose REMOVE Sensor has sent
    stored,      \* ghost: the last event of each key that the pipeline stored
    lost,        \* ghost: <<key, val>> that failed for good
    failures     \* ghost: has an event of this id failed, once or several times

vars == <<connQ, workerQ, handling, retrying, ded, sent, newest, removed,
          stored, lost, failures>>

Init ==
    /\ connQ = <<>>
    /\ workerQ = [w \in Workers |-> <<>>]
    /\ handling = [w \in Workers |-> Idle]
    /\ retrying = {}
    /\ ded = NewDeduper([k \in Keys |-> NoHash])
    /\ sent = 0
    /\ newest = [k \in Keys |-> NoHash]
    /\ removed = {}
    /\ stored = [k \in Keys |-> NoHash]
    /\ lost = {}
    /\ failures = [i \in Ids |-> "none"]

-----------------------------------------------------------------------------
ActionsOf(kind) == IF kind \in {"inventory", "index", "reprocess"}
                   THEN {"UPDATE"} ELSE {"CREATE", "UPDATE", "REMOVE"}

\* runRecv and multiplexedPush, or for "reprocess" the reprocessor loop of Central:
\* only the latter sets a dedupe key.  Only the first event of a resource is a CREATE,
\* and nothing follows its REMOVE.  (A SYNC is queued and deduped like an UPDATE.)
Event(k, act) ==
    /\ sent < MaxEvents /\ k \notin removed
    /\ act = "CREATE" => newest[k] = NoHash
    /\ sent' = sent + 1
    /\ connQ' = Push(connQ, [key |-> k, act |-> act, val |-> sent + 1, attempt |-> 0,
                             dedupeKey |-> IF k.kind = "reprocess" THEN <<"risk", k.id>>
                                                                   ELSE NoKey])
    /\ newest' = [newest EXCEPT ![k] = sent + 1]
    /\ removed' = IF act = "REMOVE" THEN removed \cup {k} ELSE removed
    /\ UNCHANGED <<workerQ, handling, retrying, ded, stored, lost, failures>>

ShallDedupe(m) ==
    /\ m.act = "REMOVE" \/ m.key.kind \notin {"inventory", "index", "vm"}
    /\ m.act # "CREATE"

\* handleMessage, then the prefix that addMultiplexed adds.
DedupeKeyOf(m) ==
    LET dk == IF m.key.kind # "reprocess" /\ ShallDedupe(m) THEN <<m.key.id>>
                                                            ELSE m.dedupeKey
    IN  CASE m.key.kind = "inventory" -> <<"NodeInventory">> \o dk
          [] m.key.kind = "index" -> <<"NodeIndex">> \o dk
          [] OTHER -> dk

\* handleMessages, handleMessage and addMultiplexed.
HandleMessage ==
    /\ connQ # <<>>
    /\ connQ' = AfterPull(connQ)
    /\ LET m == [Pulled(connQ) EXCEPT !.dedupeKey = DedupeKeyOf(Pulled(connQ))]
       IN  /\ ded' = AfterShouldProcess(ded, m)
           /\ workerQ' = IF ShouldProcess(ded, m)
                         THEN [workerQ EXCEPT ![WorkerOf(m.key)] = Push(@, m)]
                         ELSE workerQ
    /\ UNCHANGED <<handling, retrying, sent, newest, removed, stored, lost, failures>>

-----------------------------------------------------------------------------
\* runWorker: PullBlocking.
StartWork(w) ==
    /\ handling[w] = Idle /\ workerQ[w] # <<>>
    /\ handling' = [handling EXCEPT ![w] = Pulled(workerQ[w])]
    /\ workerQ' = [workerQ EXCEPT ![w] = AfterPull(@)]
    /\ UNCHANGED <<connQ, retrying, ded, sent, newest, removed, stored, lost, failures>>

Finish(w) ==
    /\ handling[w] # Idle
    /\ handling' = [handling EXCEPT ![w] = Idle]

\* pipelineImpl.Run stores the object and marks the message.
Succeed(w) ==
    /\ Finish(w)
    /\ ded' = MarkSuccessful(ded, handling[w])
    /\ stored' = [stored EXCEPT ![handling[w].key] = handling[w].val]
    /\ UNCHANGED <<connQ, workerQ, retrying, sent, newest, removed, lost, failures>>

Failed(m) == failures' = [failures EXCEPT ![m.key.id] = IF @ = "none" THEN "one" ELSE "several"]

\* Mutant: the last attempt is not counted.
NextAttemptStuck(m) == [m EXCEPT !.attempt = IF @ + 1 < MaxAttempts THEN @ + 1 ELSE @]

NextAttempt(m) == [m EXCEPT !.attempt = @ + 1]

\* Mutant: one attempt too many.
OutOfAttemptsLate(m) == m.attempt > MaxAttempts

OutOfAttempts(m) == m.attempt = MaxAttempts

\* runWorker on a transient error.
FailTransient(w) ==
    /\ "transient" \in Faults
    /\ Finish(w)
    /\ LET m == NextAttempt(handling[w])
       IN  /\ Failed(m)
           /\ \/ /\ OutOfAttempts(m)
                 /\ lost' = lost \cup {<<m.key, m.val>>}
                 /\ UNCHANGED retrying
              \/ /\ ~ OutOfAttempts(m)
                 /\ retrying' = retrying \cup {m}
                 /\ UNCHANGED lost
    /\ UNCHANGED <<connQ, workerQ, ded, sent, newest, removed, stored>>

\* runWorker on any other error.
FailUnretryable(w) ==
    /\ "unretryable" \in Faults
    /\ Finish(w)
    /\ ded' = RemoveMessage(ded, handling[w])
    /\ Failed(handling[w])
    /\ lost' = lost \cup {<<handling[w].key, handling[w].val>>}
    /\ UNCHANGED <<connQ, workerQ, retrying, sent, newest, removed, stored>>

\* The timer of runWorker fires: InjectMessageIntoQueue, with the dedupe key that
\* handleMessage has set.
Retry(m) ==
    /\ m \in retrying
    /\ retrying' = retrying \ {m}
    /\ connQ' = Push(connQ, m)
    /\ UNCHANGED <<workerQ, handling, ded, sent, newest, removed, stored, lost, failures>>

Next ==
    \/ \E k \in Keys : \E act \in ActionsOf(k.kind) : Event(k, act)
    \/ HandleMessage
    \/ \E w \in Workers : StartWork(w) \/ Succeed(w) \/ FailTransient(w) \/ FailUnretryable(w)
    \/ \E m \in retrying : Retry(m)

\* The handler, every worker and every retry timer are goroutines that keep running.
Fairness ==
    /\ WF_vars(HandleMessage)
    /\ \A w \in Workers :
          /\ WF_vars(StartWork(w))
          /\ WF_vars(Succeed(w) \/ FailTransient(w) \/ FailUnretryable(w))
    /\ WF_vars(\E m \in retrying : Retry(m))

Spec == Init /\ [][Next]_vars
FairSpec == Spec /\ Fairness
-----------------------------------------------------------------------------
Message == [key : Keys, act : Actions, val : Hashes, attempt : 0..(MaxAttempts - 1),
            dedupeKey : Seq({"risk", "NodeInventory", "NodeIndex"} \cup Ids)]

\* The variables have their types; no message has more than maxHandlerAttempts attempts.
TypeOK ==
    /\ connQ \in Seq(Message)
    /\ workerQ \in [Workers -> Seq(Message)]
    /\ handling \in [Workers -> {Idle} \cup Message]
    /\ retrying \subseteq Message
    /\ ded \in Deduper
    /\ sent \in 0..MaxEvents /\ removed \subseteq Keys
    /\ newest \in [Keys -> 0..MaxEvents] /\ stored \in [Keys -> 0..MaxEvents]
    /\ lost \subseteq Keys \X Hashes
    /\ failures \in [Ids -> {"none", "one", "several"}]

\* sensorevents.go:121-122: events for the same node are prevented from running
\* concurrently, whatever their kind; so are a deployment and its reprocessing.
SameResourceSerial ==
    \A v, w \in Workers :
        /\ v # w /\ handling[v] # Idle /\ handling[w] # Idle
        /\ handling[v].key.id = handling[w].key.id
        => \A together \in {{"node", "inventory", "index"}, {"deployment", "reprocess"},
                             {handling[v].key.kind}} :
              ~ {handling[v].key.kind, handling[w].key.kind} \subseteq together

\* Retries, replaced queue items and the deduper together never let an older state of
\* a resource overwrite a newer one, nor bring back a removed one.  (Kinds that are
\* not deduped have no such promise: their retries are never checked.)
StoredNeverOlder ==
    [][\A k \in Keys \ SkipKeys : stored'[k] >= stored[k]]_vars

Quiet ==
    /\ connQ = <<>> /\ retrying = {}
    /\ \A w \in Workers : workerQ[w] = <<>> /\ handling[w] = Idle

\* One failure is healed by the retry: when all is quiet, the newest state of every
\* deduped resource is stored, unless it failed for good, or there were several
\* failures of events with the same id (whose retries may push each other out of
\* the connection's queue, or be rejected after an unretryable one).
OneFailureHeals ==
    Quiet => \A k \in Keys \ SkipKeys :
        \/ stored[k] = newest[k]
        \/ <<k, newest[k]>> \in lost
        \/ failures[k.id] = "several"

\* However events fail, the retries come to an end and the queues drain.
RetriesEnd == <>[]Quiet

\* connection_impl.go:381: "NodeInventory and NodeIndex should never be deduped".
\* Queued inventories and index reports only leave a queue by being pulled.
InventoryNeverReplaced ==
    [][\A w \in Workers : \A i \in 1..Len(workerQ[w]) :
          /\ workerQ[w][i].key.kind \in {"inventory", "index"}
          /\ Len(workerQ'[w]) >= Len(workerQ[w])
          => workerQ'[w][i] = workerQ[w][i]]_vars
=============================================================================
