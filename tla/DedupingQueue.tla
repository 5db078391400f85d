---------------------------- MODULE DedupingQueue ----------------------------
(***************************************************************************)
(* pkg/dedupingqueue: a FIFO queue in which an item takes the place of a    *)
(* queued item with the same dedupe key.  The linked list is a sequence;    *)
(* the indexer, which always points at the queued item of a key, is the     *)
(* search for that item.  A dedupe key is the sequence of the parts it is    *)
(* built from; the empty key marks items that are never deduped.            *)
(***************************************************************************)
EXTENDS Sequences, Integers

NoKey == <<>>

Queued(q, dk) == {i \in 1..Len(q) : dk # NoKey /\ q[i].dedupeKey = dk}

\* Mutant: an item whose key is queued goes to the back like any other.
PushBack(q, item) == Append(q, item)

Push(q, item) ==
    IF Queued(q, item.dedupeKey) = {}
    THEN Append(q, item)
    ELSE [i \in 1..Len(q) |-> IF i \in Queued(q, item.dedupeKey) THEN item ELSE q[i]]

Pulled(q) == Head(q)
AfterPull(q) == Tail(q)
=============================================================================
