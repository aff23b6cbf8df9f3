--------------------------- MODULE EdgeAnchoring ---------------------------
(***************************************************************************)
(* The durable path of the edge gateway as spawn_anchoring wires it: the   *)
(* batch sink of the pipeline, the batcher and the anchor over one store,  *)
(* in a process that may be shut down gracefully, may crash at any step,   *)
(* and may be started again with another compression setting.              *)
(***************************************************************************)
EXTENDS Batcher, Anchor

CONSTANT
    MaxStarts       \* bound: times the process is started

ASSUME EdgeConstants ==
    /\ MaxStarts \in Nat \ {0}
    /\ MaxBatchSize <= MaxPayload

VARIABLES
    up,             \* the process runs
    pipeline,       \* the pipeline task, which owns the batch sink, runs
    starts,         \* successful starts so far
    accepted        \* history: messages durably pushed

processVars == <<up, pipeline, starts, accepted>>

vars == <<storeVars, signalVars, batcherVars, anchorVars, processVars>>

TypeOK ==
    /\ StoreTypeOK
    /\ SignalsTypeOK
    /\ BatcherTypeOK
    /\ AnchorTypeOK
    /\ up \in BOOLEAN
    /\ pipeline \in BOOLEAN
    /\ starts \in Nat
    /\ accepted \in SUBSET Message

\* Nothing was ever started; the volatile variables hold what a task holds
\* when it is not running.
Init ==
    /\ StoreInit
    /\ SignalsInit
    /\ BatcherOff
    /\ AnchorOff
    /\ up = FALSE
    /\ pipeline = FALSE
    /\ starts = 0
    /\ accepted = {}
-----------------------------------------------------------------------------
\* The pipeline hands an accepted message to the batch sink.
Deliver(envelope) ==
    /\ pipeline
    /\ SinkDeliver(envelope)
    /\ accepted' = accepted \cup {[sequence |-> nextSequence,
                                   envelope |-> envelope]}
    /\ UNCHANGED <<anchorVars, up, pipeline, starts>>

\* The pipeline leaves its loop some time after the signal.
PipelineStops ==
    /\ pipeline
    /\ shutdown
    /\ pipeline' = FALSE
    /\ UNCHANGED <<storeVars, signalVars, batcherVars, anchorVars, up, starts,
                   accepted>>

\* The operator stops the gateway; the last start of a behaviour runs on.
Shutdown ==
    /\ up
    /\ starts < MaxStarts
    /\ Trigger
    /\ UNCHANGED <<storeVars, batcherVars, anchorVars, processVars>>

\* EdgeApp::start with this compression: open the store, reconcile the
\* format (or give up), then spawn the tasks.
Start(configured) ==
    /\ ~up
    /\ starts < MaxStarts
    /\ StartBatcher(configured)
    /\ apc' = "connect"
    /\ up' = TRUE
    /\ pipeline' = TRUE
    /\ starts' = starts + 1
    /\ UNCHANGED <<page, limbo, finalized, accepted>>

\* Everything the process held in memory is gone.
ProcessEnds ==
    /\ SignalsReset
    /\ bpc' = "stopped"
    /\ force' = FALSE
    /\ now' = {}
    /\ LeaveStep
    /\ apc' = "stopped"
    /\ page' = <<>>
    /\ up' = FALSE
    /\ pipeline' = FALSE
    /\ UNCHANGED <<storeVars, compression, aged, dropped, finalized, starts,
                   accepted>>

\* EdgeApp::shutdown returned: every task has ended.
Exit ==
    /\ up
    /\ shutdown
    /\ ~pipeline
    /\ bpc = "stopped"
    /\ apc \in {"stopped", "failed"}
    /\ ProcessEnds
    /\ UNCHANGED limbo

Crash ==
    /\ up
    /\ starts < MaxStarts
    /\ ProcessEnds
    /\ IF apc = "inflight" THEN AbandonTransaction ELSE UNCHANGED limbo

Next ==
    \/ \E envelope \in Envelope : Deliver(envelope)
    \/ PipelineStops
    \/ BatcherStep /\ UNCHANGED <<anchorVars, processVars>>
    \/ \E i \in DOMAIN pending : Age(i) /\ UNCHANGED <<anchorVars, processVars>>
    \/ AnchorStep /\ UNCHANGED <<batcherVars, processVars>>
    \/ ChainStep /\ UNCHANGED <<batcherVars, processVars>>
    \/ Shutdown
    \/ \E configured \in Compression : Start(configured)
    \/ Exit
    \/ Crash

Spec == Init /\ [][Next]_vars
-----------------------------------------------------------------------------
(***************************************************************************)
(* Safety.                                                                 *)
(***************************************************************************)
\* The messages in ready batches, and in finalized ones.
ReadySet    == UNION {MessagesOf(ready[id]) : id \in DOMAIN ready}
AnchoredSet == UNION {MessagesOf(b.payload) : b \in finalized}

\* Every batch that exists anywhere: stored, in the anchor's memory, in the
\* transaction pool, or finalized.
KnownBatches ==
    {StoredBatch(id) : id \in DOMAIN ready} \cup Range(page) \cup limbo
        \cup finalized

\* No message is lost: once push_message returned, the message is pending,
\* in a ready batch, on chain, or was given up, whatever crashes, failed
\* commits, retries and restarts happened since.
NothingLost ==
    accepted \subseteq PendingSet \cup ReadySet \cup AnchoredSet \cup dropped

\* No message is batched twice: it belongs to at most one batch id, and one
\* that is still pending or was given up belongs to none.
BatchedOnce ==
    /\ \A a, b \in KnownBatches :
          MessagesOf(a.payload) \cap MessagesOf(b.payload) # {} => a.id = b.id
    /\ \A b \in KnownBatches :
          MessagesOf(b.payload) \cap (PendingSet \cup dropped) = {}
    /\ PendingSet \cap dropped = {}

\* confirm_batch runs only after the batch was finalized: an id that was
\* handed out and is no longer stored is on chain.
ConfirmedIsAnchored ==
    \A id \in 0 .. nextBatchId - 1 :
        id \in DOMAIN ready \/ \E b \in finalized : b.id = id

\* A batch keeps its bytes: whatever copy of a batch exists, in the store,
\* in memory, in the pool or on chain, before or after a restart with
\* another compression, the same id means the same payload.
OnePayloadPerId ==
    \A a, b \in KnownBatches : a.id = b.id => a.payload = b.payload

\* Batches reach the chain for the first time in the order of their ids.
FirstAnchoredInOrder ==
    \A b \in finalized : \A id \in 0 .. b.id - 1 :
        \E earlier \in finalized : earlier.id = id

\* The stored format describes every batch still waiting to be anchored, and
\* the batcher of a running process never prepares another one.
FormatDescribesReady ==
    /\ \A id \in DOMAIN ready : ready[id].compression = format
    /\ up => compression = format

\* A step only adds batches under ids never handed out, or removes some.
ReadyOnlyGrowsFresh ==
    /\ nextBatchId' >= nextBatchId
    /\ \A id \in DOMAIN ready' :
          IF id \in DOMAIN ready THEN ready'[id] = ready[id]
          ELSE id >= nextBatchId

\* Batch ids are never reused and stored batches are never rewritten, so a
\* confirmation that arrives late can only remove the batch it was for.
BatchesAreImmutable == [][ReadyOnlyGrowsFresh]_vars

-----------------------------------------------------------------------------
(***************************************************************************)
(* The inductive invariant: what the steps rely on to keep the properties  *)
(* above.                                                                  *)
(***************************************************************************)
\* next_counter never hands out a key that is in use or that ever named a
\* batch.
KeysBelowCounters ==
    /\ \A i \in DOMAIN pending : i < nextSequence
    /\ \A b \in KnownBatches : b.id < nextBatchId

\* Tasks run only inside a process.
TasksNeedProcess ==
    ~up => bpc = "stopped" /\ apc = "stopped"

\* Nothing the batcher took from the store is forgotten while it packs.
PackCoversCandidate ==
    bpc = "pack" =>
        \A m \in Range(candidate) :
            \/ m \in rejected
            \/ \E i \in DOMAIN work : m \in Range(work[i])
            \/ \E i \in DOMAIN prepared : m \in MessagesOf(prepared[i])

\* What is prepared is encoded as configured.
PreparedAsConfigured ==
    bpc = "pack" =>
        \A i \in DOMAIN prepared : prepared[i].compression = compression

\* The page in the anchor's memory is the head of the ready queue: same
\* batches, ascending, and everything else that is ready is younger.
PageIsOldestReady ==
    /\ \A i \in DOMAIN page :
          page[i].id \in DOMAIN ready /\ ready[page[i].id] = page[i].payload
    /\ \A i, j \in DOMAIN page : i < j => page[i].id < page[j].id
    /\ \A id \in DOMAIN ready :
          \/ \E i \in DOMAIN page : page[i].id = id
          \/ \A i \in DOMAIN page : page[i].id < id

\* The anchor confirms only what it saw finalized.
ConfirmAfterFinalized == apc = "confirm" => page[1] \in finalized

\* A transaction left behind was submitted after all earlier batches were
\* finalized.
LimboInOrder ==
    \A b \in limbo : \A id \in 0 .. b.id - 1 :
        \E earlier \in finalized : earlier.id = id

IInv ==
    /\ TypeOK
    /\ KeysBelowCounters
    /\ TasksNeedProcess
    /\ CandidateStaysPending
    /\ PackCoversCandidate
    /\ PreparedAsConfigured
    /\ PageIsOldestReady
    /\ ConfirmAfterFinalized
    /\ LimboInOrder
    /\ NothingLost
    /\ ConfirmedIsAnchored
    /\ OnePayloadPerId
    /\ FirstAnchoredInOrder
    /\ FormatDescribesReady

-----------------------------------------------------------------------------
(***************************************************************************)
(* Refinement: the promise to the pipeline.                                *)
(***************************************************************************)
\* The batcher gives up a message that does not decode, or that does not fit
\* a batch alone under some compression it may have been configured with.
CannotBeBatched(m) ==
    \/ m.envelope \notin Decodable
    \/ \E c \in Compression : PayloadLen(Encode(c, <<m>>)) > MaxBatchSize

Promise ==
    INSTANCE AnchoredQueue WITH
        Msg <- [sequence : 0 .. MaxPushed, envelope : Envelope],
        Unbatchable <- CannotBeBatched,
        accepted <- accepted,
        anchored <- AnchoredSet,
        dropped <- dropped

\* The whole path implements the abstract queue.
KeepsPromise == Promise!Spec

-----------------------------------------------------------------------------
(***************************************************************************)
(* Liveness.  The tasks of a running process are scheduled, their timers   *)
(* fire and the clock moves (weak fairness); select! polls its branches in *)
(* random order, so a shutdown that stays triggered is seen in the end     *)
(* (strong fairness), and so is a submission that is retried for ever      *)
(* finalized in the end; an operator starts a stopped gateway again with   *)
(* the compression it ran with.                                            *)
(***************************************************************************)
BatcherRuns ==
    \/ ScanIdle \/ ScanWait \/ ScanSelect
    \/ PackFits \/ PackReject \/ PackSplit \/ Commit
    \/ TimerFires

AnchorRuns ==
    \/ Connected \/ Load \/ Poll \/ Submit \/ Confirm
    \/ StopBetween \/ DrainExpiresSubmit

Fairness ==
    /\ WF_vars(BatcherRuns /\ UNCHANGED <<anchorVars, processVars>>)
    /\ SF_vars(BeginFlushAll /\ UNCHANGED <<anchorVars, processVars>>)
    /\ \A i \in 0 .. MaxPushed - 1 :
          WF_vars(Age(i) /\ UNCHANGED <<anchorVars, processVars>>)
    /\ WF_vars(AnchorRuns /\ UNCHANGED <<batcherVars, processVars>>)
    /\ SF_vars(Finalized /\ UNCHANGED <<batcherVars, processVars>>)
    /\ WF_vars(PipelineStops)
    /\ WF_vars(Exit)
    /\ WF_vars(\E c \in Compression : c = format /\ Start(c))

FairSpec == Spec /\ Fairness

\* step() returned an error, which neither Idle nor Wait explains.
StoreFails == StepFails /\ ~ScanIdle /\ ~ScanWait

\* Every message that was durably pushed is anchored or given up in the end,
\* through crashes, restarts, lost permits and abandoned transactions, if
\* the store fails only finitely often and the chain does not refuse the
\* account for good.
EventuallyAnchored ==
    <>[][~StoreFails]_vars =>
        \A i \in 0 .. MaxPushed - 1 :
            (\E m \in accepted : m.sequence = i)
                ~> \/ \E m \in AnchoredSet \cup dropped : m.sequence = i
                   \/ apc = "failed"
=============================================================================
