------------------------------ MODULE Batcher ------------------------------
(***************************************************************************)
(* The batcher task (edge/src/batcher): reads the oldest pending messages, *)
(* decides whether a batch is due, encodes it, splits what does not fit,   *)
(* and commits the result to the store.  It runs flush_due passes until    *)
(* shutdown, then flush_all.                                               *)
(*                                                                         *)
(* pack_into is recursive in the code; here its call stack is the variable *)
(* `work', so one step of the model is one call of pack_into.  Time enters *)
(* only through `aged': the messages whose received_at is max_batch_age or *)
(* more in the past.  received_at is set by the ingress, before the        *)
(* pipeline decides when a message is stored, so any subset of the pending *)
(* messages may be aged.                                                   *)
(***************************************************************************)
EXTENDS BatchStore, Signals

CONSTANTS
    MaxMessages,      \* [batcher] max_messages
    MaxBatchSize,     \* [batcher] max_batch_size
    Decodable,        \* envelopes protocol::decode_envelope accepts
    EntrySize         \* wire size of an envelope as an entry of the batch

ASSUME BatcherConstants ==
    /\ MaxMessages \in Nat \ {0}
    /\ MaxBatchSize \in Nat \ {0}
    /\ Decodable \subseteq Envelope
    /\ EntrySize \in [Envelope -> Nat]

VARIABLES
    compression,    \* config.compression of the running process
    bpc,            \* where the batcher task is
    force,          \* flush_all instead of flush_due
    aged,           \* messages past max_batch_age by the wall clock
    now,            \* `aged' when this flush_due pass began
    candidate,      \* the messages this step consumes
    work,           \* pack_into calls still to be made, innermost first
    prepared,       \* Packed::batches
    rejected,       \* Packed::rejected
    dropped         \* history: messages consumed without a batch

batcherVars ==
    <<compression, bpc, force, aged, now, candidate, work, prepared, rejected,
      dropped>>

BatcherTypeOK ==
    /\ compression \in Compression
    /\ bpc \in {"scan", "pack", "sleep", "stopped"}
    /\ force \in BOOLEAN
    /\ aged \in SUBSET Nat
    /\ now \in SUBSET Nat
    /\ candidate \in Seq(Message)
    /\ work \in Seq(Seq(Message))
    /\ prepared \in Seq(Payload)
    /\ rejected \in SUBSET Message
    /\ dropped \in SUBSET Message

\* The batcher of a process that is not running.
BatcherOff ==
    /\ compression \in Compression
    /\ bpc = "stopped"
    /\ force = FALSE
    /\ aged = {}
    /\ now = {}
    /\ candidate = <<>>
    /\ work = <<>>
    /\ prepared = <<>>
    /\ rejected = {}
    /\ dropped = {}
-----------------------------------------------------------------------------
\* BatchSink::deliver: the message is durable before the permit is set.
SinkDeliver(envelope) ==
    /\ PushMessage(envelope)
    /\ wakeNotify' = TRUE
    /\ UNCHANGED <<shutdown, readyNotify, batcherVars>>
-----------------------------------------------------------------------------
\* A set of messages in ingress order, as the set that holds that sequence.
InOrder(messages) ==
    {s \in BoundedSeq(messages, Cardinality(messages)) :
        /\ Range(s) = messages
        /\ \A i, j \in DOMAIN s : i < j => s[i].sequence < s[j].sequence}

\* select takes a leading run of the page.  Without compression it stops
\* before the second or later entry that would exceed the size limit.
Selected(page, len) ==
    LET within(n) == Serialized(EntrySize, SubSeq(page, 1, n)) <= MaxBatchSize
    IN  IF compression = "none"
        THEN /\ \A n \in 2..len : within(n)
             /\ len < Len(page) => ~within(len + 1)
        ELSE len = Len(page)

\* select's reason: Count, Size or Age, the last for the first of the page.
Due(page, len) ==
    \/ len = MaxMessages
    \/ len < Len(page)
    \/ page[1].sequence \in now

\* The locals of step() go out of scope.
LeaveStep ==
    /\ candidate' = <<>>
    /\ work' = <<>>
    /\ prepared' = <<>>
    /\ rejected' = {}

\* step() returned Idle or Wait, or failed: flush_due goes back to the
\* select! of run, flush_all ends the task.
EndPass ==
    /\ bpc' = IF force THEN "stopped" ELSE "sleep"
    /\ now' = {}
    /\ LeaveStep
-----------------------------------------------------------------------------
\* step(): nothing is pending.
ScanIdle ==
    /\ bpc = "scan"
    /\ DOMAIN pending = {}
    /\ EndPass
    /\ UNCHANGED <<storeVars, signalVars, compression, force, aged, dropped>>

\* step(): messages are pending but no trigger fired.
ScanWait ==
    /\ bpc = "scan"
    /\ ~force
    /\ \E page \in PendingMessages(MaxMessages), len \in 1..MaxMessages :
          /\ len <= Len(page)
          /\ Selected(page, len)
          /\ ~Due(page, len)
    /\ EndPass
    /\ UNCHANGED <<storeVars, signalVars, compression, force, aged, dropped>>

\* step(): a trigger fired, or flush_all forces one.  Undecodable messages
\* are rejected at once, the others go to pack.
ScanSelect ==
    /\ bpc = "scan"
    /\ \E page \in PendingMessages(MaxMessages), len \in 1..MaxMessages :
          /\ len <= Len(page)
          /\ Selected(page, len)
          /\ force \/ Due(page, len)
          /\ candidate' = SubSeq(page, 1, len)
    /\ rejected' = {m \in Range(candidate') : m.envelope \notin Decodable}
    /\ \E decoded \in InOrder(Range(candidate') \ rejected') :
          work' = IF decoded = <<>> THEN <<>> ELSE <<decoded>>
    /\ prepared' = <<>>
    /\ bpc' = "pack"
    /\ UNCHANGED <<storeVars, signalVars, compression, force, aged, now, dropped>>

\* pack_into: the payload fits, so these messages are one batch.
PackFits ==
    /\ bpc = "pack"
    /\ work # <<>>
    /\ PayloadLen(Encode(compression, Head(work))) <= MaxBatchSize
    /\ prepared' = Append(prepared, Encode(compression, Head(work)))
    /\ work' = Tail(work)
    /\ UNCHANGED <<storeVars, signalVars, compression, bpc, force, aged, now,
                   candidate, rejected, dropped>>

\* Mutant: a slice that is too large is rejected instead of split.
PackRejectSlice ==
    /\ bpc = "pack"
    /\ work # <<>>
    /\ PayloadLen(Encode(compression, Head(work))) > MaxBatchSize
    /\ rejected' = rejected \cup Range(Head(work))
    /\ work' = Tail(work)
    /\ UNCHANGED <<storeVars, signalVars, compression, bpc, force, aged, now,
                   candidate, prepared, dropped>>

\* pack_into: a single message that cannot fit is PayloadTooLarge.
PackReject ==
    /\ bpc = "pack"
    /\ work # <<>>
    /\ PayloadLen(Encode(compression, Head(work))) > MaxBatchSize
    /\ Len(Head(work)) = 1
    /\ rejected' = rejected \cup {Head(work)[1]}
    /\ work' = Tail(work)
    /\ UNCHANGED <<storeVars, signalVars, compression, bpc, force, aged, now,
                   candidate, prepared, dropped>>

\* slice::split_at.
SplitAt(messages, mid) ==
    <<SubSeq(messages, 1, mid), SubSeq(messages, mid + 1, Len(messages))>>

\* pack_into: too large, so split in half and pack the left half first.
PackSplit ==
    /\ bpc = "pack"
    /\ work # <<>>
    /\ PayloadLen(Encode(compression, Head(work))) > MaxBatchSize
    /\ Len(Head(work)) > 1
    /\ work' = SplitAt(Head(work), Len(Head(work)) \div 2) \o Tail(work)
    /\ UNCHANGED <<storeVars, signalVars, compression, bpc, force, aged, now,
                   candidate, prepared, rejected, dropped>>

\* step() after pack: commit_batches, then the permit for the anchor if a
\* batch came out.  Rejected messages are consumed too.
Commit ==
    /\ bpc = "pack"
    /\ work = <<>>
    /\ LET consumed == {m.sequence : m \in Range(candidate)}
       IN  IF AllPending(consumed)
           THEN /\ CommitBatches(consumed, prepared)
                /\ dropped' = dropped \cup rejected
                /\ readyNotify' = (readyNotify \/ prepared # <<>>)
                /\ aged' = aged \ consumed
                /\ bpc' = "scan"
                /\ now' = now
                /\ LeaveStep
           ELSE /\ EndPass
                /\ UNCHANGED <<storeVars, dropped, readyNotify, aged>>
    /\ UNCHANGED <<shutdown, wakeNotify, compression, force>>

\* Mutant: the rows are removed in a transaction of their own, before the
\* batches are stored.
StepFailsHalfway ==
    /\ bpc \in {"scan", "pack"}
    /\ pending' = Delete(pending, {m.sequence : m \in Range(candidate)})
    /\ EndPass
    /\ UNCHANGED <<ready, nextSequence, nextBatchId, format, signalVars,
                   compression, force, aged, dropped>>

\* A store operation or the compressor failed; nothing was written.
StepFails ==
    /\ bpc \in {"scan", "pack"}
    /\ EndPass
    /\ UNCHANGED <<storeVars, signalVars, compression, force, aged, dropped>>

\* A new flush_due pass, or the first step of flush_all.
BeginPass ==
    /\ bpc = "sleep"
    /\ bpc' = "scan"
    /\ now' = aged
    /\ UNCHANGED <<storeVars, compression, aged, candidate, work, prepared,
                   rejected, dropped>>

\* select! in run: the permit of the sink.
Woken ==
    /\ BeginPass
    /\ wakeNotify
    /\ wakeNotify' = FALSE
    /\ UNCHANGED <<shutdown, readyNotify, force>>

\* Mutant: no timer is armed, only the sink wakes the batcher.
TimerFiresNever ==
    /\ BeginPass
    /\ wakeNotify
    /\ UNCHANGED <<signalVars, force>>

\* select! in run: the deadline of the open batch, the retry delay after a
\* failure, or the gauge tick that is always armed.
TimerFires ==
    /\ BeginPass
    /\ UNCHANGED <<signalVars, force>>

\* Mutant: shutdown runs one more flush_due instead of flush_all.
BeginFlushDue ==
    /\ BeginPass
    /\ shutdown
    /\ UNCHANGED <<signalVars, force>>

\* select! in run: shutdown; the task leaves the loop for flush_all.
BeginFlushAll ==
    /\ BeginPass
    /\ shutdown
    /\ force' = TRUE
    /\ UNCHANGED signalVars

\* The clock moves a stored message past max_batch_age.
Age(i) ==
    /\ i \in DOMAIN pending \ aged
    /\ aged' = aged \cup {i}
    /\ UNCHANGED <<storeVars, signalVars, compression, bpc, force, now,
                   candidate, work, prepared, rejected, dropped>>

\* EdgeApp::start: Batcher::new, then run is spawned.
StartBatcher(configured) ==
    /\ bpc = "stopped"
    /\ ReconcileFormat(configured)
    /\ compression' = configured
    /\ bpc' = "scan"
    /\ now' = aged
    /\ UNCHANGED <<signalVars, force, aged, candidate, work, prepared, rejected,
                   dropped>>

BatcherStep ==
    \/ ScanIdle
    \/ ScanWait
    \/ ScanSelect
    \/ PackFits
    \/ PackReject
    \/ PackSplit
    \/ Commit
    \/ StepFails
    \/ Woken
    \/ TimerFires
    \/ BeginFlushAll
-----------------------------------------------------------------------------
(***************************************************************************)
(* The batcher on its own: one process, started once, with a sink that     *)
(* delivers at any moment and a shutdown that may come at any moment.      *)
(***************************************************************************)
bvars == <<storeVars, signalVars, batcherVars>>

BatcherInit == StoreInit /\ SignalsInit /\ BatcherOff

BatcherNext ==
    \/ \E configured \in Compression :
          format = NoFormat /\ StartBatcher(configured)
    \/ \E envelope \in Envelope : format # NoFormat /\ SinkDeliver(envelope)
    \/ \E i \in DOMAIN pending : Age(i)
    \/ BatcherStep
    \/ Trigger /\ UNCHANGED <<storeVars, batcherVars>>

\* The task is scheduled, its timers fire, and shutdown is one of the
\* branches select! polls each time round.
BatcherFairness ==
    /\ WF_bvars(ScanIdle \/ ScanWait \/ ScanSelect \/ PackFits \/ PackReject
                 \/ PackSplit \/ Commit)
    /\ WF_bvars(TimerFires)
    /\ SF_bvars(BeginFlushAll)

BatcherSpec == BatcherInit /\ [][BatcherNext]_bvars /\ BatcherFairness

\* The messages of a payload, and of the pending table.
MessagesOf(payload) == Range(payload.messages)
PendingSet == {StoredMessage(i) : i \in DOMAIN pending}

\* commit_batches of the batcher is never refused with NotPending: it is the
\* only consumer of pending messages, whatever is pushed while it packs.
CandidateStaysPending == Range(candidate) \subseteq PendingSet

\* A message is given up only if it cannot be encoded or does not fit alone:
\* a split never gives up a message that a smaller batch could carry.
RejectsOnlyUnbatchable ==
    \A m \in rejected :
        \/ m.envelope \notin Decodable
        \/ PayloadLen(Encode(compression, <<m>>)) > MaxBatchSize

\* The order of the durable queue is kept: every ready batch holds messages
\* older than those of the next one, and than every pending message.
ReadyInIngressOrder ==
    /\ \A i, j \in DOMAIN ready : i < j =>
          \A m \in MessagesOf(ready[i]), n \in MessagesOf(ready[j]) :
              m.sequence < n.sequence
    /\ \A i \in DOMAIN ready : \A m \in MessagesOf(ready[i]), k \in DOMAIN pending :
          m.sequence < k

\* flush_all ends: after shutdown the batcher stops, although messages keep
\* arriving until the pipeline notices the signal too.
FlushAllEnds == shutdown ~> bpc = "stopped"
============================================================================
