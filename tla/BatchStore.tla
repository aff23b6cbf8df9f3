----------------------------- MODULE BatchStore -----------------------------
(***************************************************************************)
(* The durable queues behind the batching pipeline                         *)
(* (edge/src/batch_store): pending messages keyed by sequence number,      *)
(* ready batches keyed by batch id, the two counters that hand out keys,   *)
(* and the recorded payload format.  Every operation of RedbBatchStore is  *)
(* one redb transaction, so every operation here is one atomic change of   *)
(* these variables; they survive a crash of the process.                   *)
(***************************************************************************)
EXTENDS Encoding

CONSTANTS
    NoFormat,       \* format_descriptor() before one was recorded
    MaxPushed       \* bound: sequence numbers handed out

ASSUME StoreConstants ==
    /\ NoFormat \notin Compression
    /\ MaxPushed \in Nat

VARIABLES
    pending,        \* table pending_messages: sequence -> envelope
    ready,          \* table ready_batches: batch id -> payload
    nextSequence,   \* counter next_sequence
    nextBatchId,    \* counter next_batch_id
    format          \* the payload_* keys of store_metadata

storeVars == <<pending, ready, nextSequence, nextBatchId, format>>

\* A row of ready_batches.
Batch == [id : Nat, payload : Payload]

StoreTypeOK ==
    /\ DOMAIN pending \in SUBSET Nat
    /\ pending \in [DOMAIN pending -> Envelope]
    /\ DOMAIN ready \in SUBSET Nat
    /\ ready \in [DOMAIN ready -> Payload]
    /\ nextSequence \in Nat
    /\ nextBatchId \in Nat
    /\ format \in Compression \cup {NoFormat}

\* RedbBatchStore::open on a path that does not exist yet.
StoreInit ==
    /\ pending = [i \in {} |-> NoFormat]
    /\ ready = [i \in {} |-> NoFormat]
    /\ nextSequence = 0
    /\ nextBatchId = 0
    /\ format = NoFormat
-----------------------------------------------------------------------------
\* Table::insert, which overwrites an entry already under that key.
Insert(table, key, value) ==
    [k \in DOMAIN table \cup {key} |-> IF k = key THEN value ELSE table[k]]

\* Table::remove, which ignores a key that is absent.
Delete(table, keys) == Restrict(table, DOMAIN table \ keys)

\* Mutant: iter().rev() instead of iter().
NewestFirst(page, keys, limit) ==
    /\ page \in BoundedSeq(keys, limit)
    /\ \A i, j \in DOMAIN page : i < j => page[i] > page[j]
    /\ \A k \in keys \ Range(page) :
          Len(page) = limit /\ \A i \in DOMAIN page : page[i] > k

\* The keys that iter().take(limit) yields: `limit' smallest, ascending.
OldestFirst(page, keys, limit) ==
    /\ page \in BoundedSeq(keys, limit)
    /\ \A i, j \in DOMAIN page : i < j => page[i] < page[j]
    /\ \A k \in keys \ Range(page) :
          Len(page) = limit /\ \A i \in DOMAIN page : page[i] < k

\* A row of pending_messages, and a row of ready_batches, as handed out.
StoredMessage(key) == [sequence |-> key, envelope |-> pending[key]]
StoredBatch(key)   == [id |-> key, payload |-> ready[key]]

\* pending_messages(limit), as the set that holds that one page.
PendingMessages(limit) ==
    { [i \in DOMAIN page |-> StoredMessage(page[i])] :
        page \in {p \in BoundedSeq(DOMAIN pending, limit) :
                     OldestFirst(p, DOMAIN pending, limit)} }

\* ready_batches(limit), likewise.
ReadyBatches(limit) ==
    { [i \in DOMAIN page |-> StoredBatch(page[i])] :
        page \in {p \in BoundedSeq(DOMAIN ready, limit) :
                     OldestFirst(p, DOMAIN ready, limit)} }
-----------------------------------------------------------------------------
\* Mutant: the sequence counter is not written back.
PushMessageCounterLost(envelope) ==
    /\ nextSequence < MaxPushed
    /\ pending' = Insert(pending, nextSequence, envelope)
    /\ UNCHANGED <<ready, nextSequence, nextBatchId, format>>

\* push_message: the counter and the row in one transaction.
PushMessage(envelope) ==
    /\ nextSequence < MaxPushed
    /\ pending' = Insert(pending, nextSequence, envelope)
    /\ nextSequence' = nextSequence + 1
    /\ UNCHANGED <<ready, nextBatchId, format>>

\* commit_batches refuses with NotPending when this does not hold.
AllPending(consumed) == consumed \subseteq DOMAIN pending

\* The ids that n calls of next_counter(next_batch_id) return.
FreshIds(n) == nextBatchId .. nextBatchId + n - 1

\* Mutant: the batch id counter is not written back.
CommitBatchesCounterLost(consumed, prepared) ==
    /\ pending' = Delete(pending, consumed)
    /\ ready' = [id \in DOMAIN ready \cup FreshIds(Len(prepared)) |->
                    IF id \in FreshIds(Len(prepared))
                    THEN prepared[id - nextBatchId + 1]
                    ELSE ready[id]]
    /\ UNCHANGED <<nextSequence, nextBatchId, format>>

\* Mutant: the consumed rows are left in pending_messages.
CommitBatchesKeepsRows(consumed, prepared) ==
    /\ ready' = [id \in DOMAIN ready \cup FreshIds(Len(prepared)) |->
                    IF id \in FreshIds(Len(prepared))
                    THEN prepared[id - nextBatchId + 1]
                    ELSE ready[id]]
    /\ nextBatchId' = nextBatchId + Len(prepared)
    /\ UNCHANGED <<pending, nextSequence, format>>

\* commit_batches: consumed rows out, prepared payloads in under fresh ids,
\* in one transaction.  `consumed' is a set of keys, `prepared' a sequence.
CommitBatches(consumed, prepared) ==
    /\ pending' = Delete(pending, consumed)
    /\ ready' = [id \in DOMAIN ready \cup FreshIds(Len(prepared)) |->
                    IF id \in FreshIds(Len(prepared))
                    THEN prepared[id - nextBatchId + 1]
                    ELSE ready[id]]
    /\ nextBatchId' = nextBatchId + Len(prepared)
    /\ UNCHANGED <<nextSequence, format>>

\* confirm_batch: confirming an absent batch changes nothing.
ConfirmBatch(id) ==
    /\ ready' = Delete(ready, {id})
    /\ UNCHANGED <<pending, nextSequence, nextBatchId, format>>

\* set_format_descriptor: the four payload_* keys in one transaction.
SetFormatDescriptor(descriptor) ==
    /\ format' = descriptor
    /\ UNCHANGED <<pending, ready, nextSequence, nextBatchId>>

\* Mutant: a change of format is recorded without looking at ready_batches.
ReconcileFormatUnchecked(configured) == SetFormatDescriptor(configured)

\* reconcile_format returns Ok: Unchanged, Recorded or Updated.  It refuses a
\* change while any ready batch still needs the old format.
ReconcileFormat(configured) ==
    \/ format = configured /\ UNCHANGED storeVars
    \/ format = NoFormat /\ SetFormatDescriptor(configured)
    \/ /\ format \notin {configured, NoFormat}
       /\ DOMAIN ready = {}
       /\ SetFormatDescriptor(configured)
=============================================================================
