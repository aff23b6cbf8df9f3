------------------------- MODULE EdgeAnchoringOrder -------------------------
(***************************************************************************)
(* Order in the durable path, and the promise it keeps.  OrderInv is a     *)
(* second inductive invariant on top of IInv: the messages stay in ingress *)
(* order from the pending table over the slices of pack_into to the        *)
(* batches, so no message is batched twice and none is given up that could *)
(* be batched.  With both invariants every step of the path is a step of   *)
(* the abstract queue, or invisible to it.                                 *)
(***************************************************************************)
EXTENDS EdgeAnchoringProofs

-----------------------------------------------------------------------------
(***************************************************************************)
(* The inductive invariant.                                                *)
(***************************************************************************)
\* Every message of S was pushed before every message of T.
Before(S, T) == \A m \in S, n \in T : m.sequence < n.sequence

\* A slice of the candidate holds its messages in ingress order.
Ascending(s) == \A i, j \in DOMAIN s : i < j => s[i].sequence < s[j].sequence

\* The locals of step() exist only while it packs.
LocalsOnlyInPack ==
    bpc # "pack" =>
        candidate = <<>> /\ work = <<>> /\ prepared = <<>> /\ rejected = {}

\* pending_messages returned the oldest rows and select took the first of
\* them: what is pending and not a candidate is younger than the candidate.
CandidateIsOldest ==
    \A m \in Range(candidate), k \in DOMAIN pending :
        StoredMessage(k) \in Range(candidate) \/ m.sequence < k

\* What pack_into holds comes from the candidate and was not rejected.
PackFromCandidate ==
    /\ rejected \subseteq Range(candidate)
    /\ \A i \in DOMAIN work : Range(work[i]) \subseteq Range(candidate) \ rejected
    /\ \A i \in DOMAIN prepared :
          MessagesOf(prepared[i]) \subseteq Range(candidate) \ rejected

\* The left half is packed before the right one, so the prepared batches and
\* the slices still to be packed follow each other in ingress order.
PackInOrder ==
    /\ \A i \in DOMAIN work : Ascending(work[i])
    /\ \A i, j \in DOMAIN work : i < j => Before(Range(work[i]), Range(work[j]))
    /\ \A i, j \in DOMAIN prepared :
          i < j => Before(MessagesOf(prepared[i]), MessagesOf(prepared[j]))
    /\ \A i \in DOMAIN prepared, j \in DOMAIN work :
          Before(MessagesOf(prepared[i]), Range(work[j]))

\* Ids are handed out in ingress order, also among batches that have left the
\* store, and a pending message is younger than all that was consumed.
BatchesInOrder ==
    /\ \A a, b \in KnownBatches :
          a.id < b.id => Before(MessagesOf(a.payload), MessagesOf(b.payload))
    /\ \A b \in KnownBatches : Before(MessagesOf(b.payload), PendingSet)
    /\ Before(dropped, PendingSet)

\* Only accepted messages are stored, batched or given up, and none is both
\* batched and given up.
OnlyAccepted ==
    /\ \A m \in accepted : m.sequence < nextSequence
    /\ PendingSet \cup dropped \subseteq accepted
    /\ \A b \in KnownBatches : MessagesOf(b.payload) \subseteq accepted \ dropped

OrderInv ==
    /\ IInv
    /\ LocalsOnlyInPack
    /\ CandidateIsOldest
    /\ PackFromCandidate
    /\ PackInOrder
    /\ RejectsOnlyUnbatchable
    /\ BatchesInOrder
    /\ OnlyAccepted

\* What the invariant says of the batcher's locals.
PackParts ==
    /\ LocalsOnlyInPack
    /\ CandidateIsOldest
    /\ PackFromCandidate
    /\ PackInOrder
    /\ RejectsOnlyUnbatchable

-----------------------------------------------------------------------------
(***************************************************************************)
(* Frames.                                                                 *)
(***************************************************************************)
\* The messages of every batch that exists have sequence numbers.
LEMMA KnownMessages ==
    ASSUME TypeOK
    PROVE  /\ \A b \in KnownBatches : b \in Batch /\ b.id \in Nat
           /\ \A b \in KnownBatches : MessagesOf(b.payload) \subseteq Message
           /\ PendingSet \subseteq Message
           /\ \A m \in PendingSet : m.sequence \in DOMAIN pending
           /\ \A m \in Message : m.sequence \in Nat
<1>1. \A m \in Message : m.sequence \in Nat
  BY DEF Message
<1>2. \A i \in DOMAIN page : page[i] \in Batch
  BY DEF TypeOK, AnchorTypeOK
<1>3. limbo \subseteq Batch /\ finalized \subseteq Batch
  BY DEF TypeOK, AnchorTypeOK
<1>4. \A id \in DOMAIN ready : StoredBatch(id) \in Batch
  BY DEF StoredBatch, TypeOK, StoreTypeOK, Batch
<1>5. \A b \in KnownBatches : b \in Batch
  BY <1>2, <1>3, <1>4 DEF KnownBatches, Range
<1>6. \A b \in Batch : b.id \in Nat /\ b.payload \in Payload
  BY DEF Batch
<1>7. \A p \in Payload : p.messages \in Seq(Message)
  BY DEF Payload
<1>8. \A s \in Seq(Message) : Range(s) \subseteq Message
  BY DEF Range
<1>9. PendingSet \subseteq Message /\ \A m \in PendingSet : m.sequence \in DOMAIN pending
  BY DEF PendingSet, StoredMessage, Message, TypeOK, StoreTypeOK
<1> QED BY <1>1, <1>5, <1>6, <1>7, <1>8, <1>9 DEF MessagesOf

\* A step that invents no batch and leaves the pending messages alone keeps
\* what is said of the queue.
LEMMA QueueShrinks ==
    ASSUME OrderInv, KnownBatches' \subseteq KnownBatches,
           UNCHANGED <<pending, nextSequence, accepted, dropped>>
    PROVE  BatchesInOrder' /\ OnlyAccepted'
<1>1. PendingSet' = PendingSet
  BY DEF PendingSet, StoredMessage
<1>2. BatchesInOrder'
  BY <1>1 DEF OrderInv, BatchesInOrder, Before
<1>3. OnlyAccepted'
  BY <1>1 DEF OrderInv, OnlyAccepted
<1> QED BY <1>2, <1>3

\* A step that leaves the locals of step() and the pending messages alone
\* keeps what is said of the pack.
LEMMA PackFrame ==
    ASSUME OrderInv,
           UNCHANGED <<pending, compression, bpc, candidate, work, prepared,
                       rejected>>
    PROVE  PackParts'
<1> USE DEF OrderInv
<1>1. LocalsOnlyInPack'
  BY DEF LocalsOnlyInPack
<1>2. CandidateIsOldest'
  BY DEF CandidateIsOldest, StoredMessage
<1>3. PackFromCandidate'
  BY DEF PackFromCandidate, MessagesOf
<1>4. PackInOrder'
  BY DEF PackInOrder, Ascending, Before, MessagesOf
<1>5. RejectsOnlyUnbatchable'
  BY DEF RejectsOnlyUnbatchable
<1> QED BY <1>1, <1>2, <1>3, <1>4, <1>5 DEF PackParts

\* With no locals there is nothing to keep.
LEMMA PackEmpty ==
    ASSUME candidate' = <<>>, work' = <<>>, prepared' = <<>>, rejected' = {}
    PROVE  PackParts'
<1>1. LocalsOnlyInPack'
  BY DEF LocalsOnlyInPack
<1>2. Range(candidate') = {}
  BY DEF Range
<1>3. CandidateIsOldest' /\ PackFromCandidate' /\ PackInOrder'
  BY <1>2 DEF CandidateIsOldest, PackFromCandidate, PackInOrder
<1>4. RejectsOnlyUnbatchable'
  BY DEF RejectsOnlyUnbatchable
<1> QED BY <1>1, <1>3, <1>4 DEF PackParts

\* The three parts make the whole.
LEMMA Together ==
    ASSUME IInv', PackParts', BatchesInOrder', OnlyAccepted'
    PROVE  OrderInv'
BY DEF OrderInv, PackParts

-----------------------------------------------------------------------------
(***************************************************************************)
(* The anchor, the chain and the process.                                  *)
(***************************************************************************)
\* Whatever the anchor and the chain do, they handle batches that exist.
LEMMA AnchorInventsNothing ==
    ASSUME TypeOK, AnchorStep \/ ChainStep
    PROVE  KnownBatches' \subseteq KnownBatches
<1> DEFINE Old == {StoredBatch(id) : id \in DOMAIN ready}
<1>1. page \in Seq(Batch)
  BY DEF TypeOK, AnchorTypeOK
<1>2. apc \in {"submit", "inflight", "confirm"} => page # <<>>
  BY DEF TypeOK, AnchorTypeOK
<1>3. page # <<>> => Head(page) \in Range(page) /\ Range(Tail(page)) \subseteq Range(page)
  <2> SUFFICES ASSUME page # <<>>
               PROVE  Head(page) \in Range(page) /\ Range(Tail(page)) \subseteq Range(page)
    OBVIOUS
  <2>1. Head(page) = page[1] /\ 1 \in DOMAIN page
    BY <1>1
  <2>2. \A i \in DOMAIN Tail(page) : i + 1 \in DOMAIN page /\ Tail(page)[i] = page[i + 1]
    BY <1>1
  <2> QED BY <2>1, <2>2 DEF Range
<1>4. {StoredBatch(id) : id \in DOMAIN ready}' \subseteq Old
  <2>1. CASE UNCHANGED ready
    BY <2>1 DEF StoredBatch
  <2>2. CASE ConfirmBatch(Head(page).id)
    <3>1. /\ DOMAIN ready' \subseteq DOMAIN ready
          /\ \A id \in DOMAIN ready' : ready'[id] = ready[id]
      BY <2>2 DEF ConfirmBatch, Delete, Restrict
    <3> QED BY <3>1 DEF StoredBatch
  <2>3. UNCHANGED ready \/ ConfirmBatch(Head(page).id)
    BY DEF AnchorStep, ChainStep, Connected, PermanentFailure, Load, Notified,
           Poll, Submit, Finalized, FinalizedDuringDrain, TransientFailure,
           Confirm, StopBetween, DrainExpiresSubmit, DrainExpiresConfirm,
           LimboFinalized, storeVars
  <2> QED BY <2>1, <2>2, <2>3
<1>5. Range(page') \subseteq Range(page) \cup Old
  <2>1. CASE Load
    <3>1. page' \in ReadyBatches(ReadyPage)
      BY <2>1 DEF Load
    <3>2. Range(page') \subseteq Old
      BY <3>1, ReadyBatchPage, AnchorConstants DEF TypeOK
    <3> QED BY <3>2
  <2>2. CASE Confirm
    <3>1. page' = Tail(page) /\ page # <<>>
      BY <1>2, <2>2 DEF Confirm
    <3> QED BY <1>3, <3>1
  <2>3. CASE page' = page \/ page' = <<>>
    BY <2>3 DEF Range
  <2>4. Load \/ Confirm \/ page' = page \/ page' = <<>>
    BY DEF AnchorStep, ChainStep, Connected, PermanentFailure, Notified,
           Poll, Submit, Finalized, FinalizedDuringDrain, TransientFailure,
           StopBetween, DrainExpiresSubmit, DrainExpiresConfirm,
           LimboFinalized
  <2> QED BY <2>1, <2>2, <2>3, <2>4
<1>6. /\ limbo' \subseteq limbo \cup Range(page)
      /\ finalized' \subseteq finalized \cup limbo \cup Range(page)
  <2>1. CASE TransientFailure \/ DrainExpiresSubmit
    BY <1>2, <1>3, <2>1 DEF TransientFailure, DrainExpiresSubmit, AbandonTransaction
  <2>2. CASE Finalized \/ FinalizedDuringDrain
    BY <1>2, <1>3, <2>2 DEF Finalized, FinalizedDuringDrain
  <2>3. CASE ChainStep
    BY <2>3 DEF ChainStep, LimboFinalized
  <2>4. CASE UNCHANGED <<limbo, finalized>>
    BY <2>4
  <2>5. \/ TransientFailure \/ DrainExpiresSubmit
        \/ Finalized \/ FinalizedDuringDrain \/ ChainStep
        \/ UNCHANGED <<limbo, finalized>>
    BY DEF AnchorStep, Connected, PermanentFailure, Load, Notified,
           Poll, Submit, Confirm, StopBetween, DrainExpiresConfirm
  <2> QED BY <2>1, <2>2, <2>3, <2>4, <2>5
<1>7. KnownBatches = Old \cup Range(page) \cup limbo \cup finalized
  BY DEF KnownBatches
<1>8. KnownBatches' = {StoredBatch(id) : id \in DOMAIN ready}' \cup Range(page')
                        \cup limbo' \cup finalized'
  BY DEF KnownBatches
<1> HIDE DEF Old
<1> QED BY <1>4, <1>5, <1>6, <1>7, <1>8

\* The anchor and the chain keep the order.
LEMMA AnchorKeepsOrder ==
    ASSUME OrderInv, IInv', AnchorStep \/ ChainStep,
           UNCHANGED <<batcherVars, processVars>>
    PROVE  OrderInv'
<1>1. KnownBatches' \subseteq KnownBatches
  BY AnchorInventsNothing DEF OrderInv, IInv
<1>2. UNCHANGED <<pending, nextSequence>>
  BY DEF AnchorStep, ChainStep, Connected, PermanentFailure, Load, Notified,
         Poll, Submit, Finalized, FinalizedDuringDrain, TransientFailure,
         Confirm, StopBetween, DrainExpiresSubmit, DrainExpiresConfirm,
         LimboFinalized, ConfirmBatch, storeVars
<1>3. BatchesInOrder' /\ OnlyAccepted'
  BY <1>1, <1>2, QueueShrinks DEF batcherVars, processVars
<1>4. PackParts'
  BY <1>2, PackFrame DEF batcherVars
<1> QED BY <1>3, <1>4, Together

\* So do shutdown, start, exit, crash, and the clock.
LEMMA ProcessKeepsOrder ==
    ASSUME OrderInv, IInv',
           \/ PipelineStops \/ Shutdown \/ Exit \/ Crash
           \/ \E configured \in Compression : Start(configured)
           \/ \E i \in DOMAIN pending :
                 Age(i) /\ UNCHANGED <<anchorVars, processVars>>
           \/ UNCHANGED vars
    PROVE  OrderInv'
<1>1. UNCHANGED <<pending, ready, nextSequence, accepted, dropped, finalized>>
  BY DEF PipelineStops, Shutdown, Exit, Crash, Start, StartBatcher, Age, vars,
         ProcessEnds, ReconcileFormat, SetFormatDescriptor, storeVars,
         batcherVars, anchorVars, processVars
<1>2. /\ page' = page \/ page' = <<>>
      /\ limbo' = limbo \/ (page # <<>> /\ limbo' = limbo \cup {Head(page)})
  <2>1. CASE Crash
    <3>1. page' = <<>> /\ (limbo' = limbo \/ (apc = "inflight" /\ AbandonTransaction))
      BY <2>1 DEF Crash, ProcessEnds
    <3>2. apc = "inflight" => page # <<>>
      BY DEF OrderInv, IInv, TypeOK, AnchorTypeOK
    <3> QED BY <3>1, <3>2, Abandoned
  <2>2. CASE ~Crash
    BY <2>2 DEF PipelineStops, Shutdown, Exit, Start, Age, vars,
                ProcessEnds, anchorVars
  <2> QED BY <2>1, <2>2
<1>3. KnownBatches' \subseteq KnownBatches
  <2>1. Range(page') \subseteq Range(page)
    BY <1>2 DEF Range
  <2>2. limbo' \subseteq limbo \cup Range(page)
    <3>1. page \in Seq(Batch)
      BY DEF OrderInv, IInv, TypeOK, AnchorTypeOK
    <3> QED BY <1>2, <3>1 DEF Range
  <2>3. {StoredBatch(id) : id \in DOMAIN ready}'
          = {StoredBatch(id) : id \in DOMAIN ready}
    BY <1>1 DEF StoredBatch
  <2> QED BY <1>1, <2>1, <2>2, <2>3 DEF KnownBatches
<1>4. BatchesInOrder' /\ OnlyAccepted'
  BY <1>1, <1>3, QueueShrinks
<1>5. PackParts'
  <2>1. CASE Exit \/ Crash
    BY <2>1, PackEmpty DEF Exit, Crash, ProcessEnds, LeaveStep
  <2>2. CASE \E configured \in Compression : Start(configured)
    <3>1. bpc = "stopped" /\ UNCHANGED <<candidate, work, prepared, rejected>>
      BY <2>2 DEF Start, StartBatcher
    <3>2. candidate = <<>> /\ work = <<>> /\ prepared = <<>> /\ rejected = {}
      BY <3>1 DEF OrderInv, LocalsOnlyInPack
    <3> QED BY <3>1, <3>2, PackEmpty
  <2>3. CASE UNCHANGED <<compression, bpc, candidate, work, prepared, rejected>>
    BY <1>1, <2>3, PackFrame
  <2> QED BY <2>1, <2>2, <2>3 DEF PipelineStops, Shutdown, Age, vars, batcherVars
<1> QED BY <1>4, <1>5, Together

\* A message that is delivered is younger than everything before it.
LEMMA DeliverKeepsOrder ==
    ASSUME OrderInv, IInv', NEW envelope \in Envelope, Deliver(envelope)
    PROVE  OrderInv'
<1> DEFINE new == [sequence |-> nextSequence, envelope |-> envelope]
<1> USE DEF OrderInv
<1>1. /\ pending' = Insert(pending, nextSequence, envelope)
      /\ nextSequence' = nextSequence + 1
      /\ accepted' = accepted \cup {new}
      /\ UNCHANGED <<ready, anchorVars, batcherVars>>
  BY DEF Deliver, SinkDeliver, PushMessage
<1>2. TypeOK /\ nextSequence \in Nat /\ DOMAIN pending \subseteq Nat
  BY DEF IInv, TypeOK, StoreTypeOK
<1>3. \A k \in DOMAIN pending : k < nextSequence
  BY DEF IInv, KeysBelowCounters
<1>4. /\ DOMAIN pending' = DOMAIN pending \cup {nextSequence}
      /\ \A k \in DOMAIN pending : pending'[k] = pending[k]
      /\ pending'[nextSequence] = envelope
  <2>1. nextSequence \notin DOMAIN pending
    BY <1>2, <1>3
  <2> QED BY <1>1, <2>1 DEF Insert
<1>5. PendingSet' = PendingSet \cup {new}
  <2>1. \A k \in DOMAIN pending' :
           [sequence |-> k, envelope |-> pending'[k]]
              = IF k = nextSequence THEN new ELSE StoredMessage(k)
    BY <1>4 DEF StoredMessage
  <2>2. PendingSet' = {[sequence |-> k, envelope |-> pending'[k]] : k \in DOMAIN pending'}
    BY DEF PendingSet, StoredMessage
  <2>3. nextSequence \notin DOMAIN pending
    BY <1>2, <1>3
  <2>4. \A m : m \in PendingSet' <=> m \in PendingSet \cup {new}
    BY <1>4, <2>1, <2>2, <2>3 DEF PendingSet
  <2> QED BY <2>4
<1>6. KnownBatches' = KnownBatches
  BY <1>1 DEF KnownBatches, StoredBatch, anchorVars
<1>7. dropped' = dropped
  BY <1>1 DEF batcherVars
<1> HIDE DEF new
<1>8. new.sequence = nextSequence
  BY DEF new
<1>9. \A m \in accepted : m.sequence < nextSequence
  BY DEF OnlyAccepted
<1>10. BatchesInOrder'
  <2>1. \A b \in KnownBatches : MessagesOf(b.payload) \subseteq accepted
    BY DEF OnlyAccepted
  <2>2. dropped \subseteq accepted
    BY DEF OnlyAccepted
  <2> QED BY <1>5, <1>6, <1>7, <1>8, <1>9, <2>1, <2>2 DEF BatchesInOrder, Before
<1>11. OnlyAccepted'
  <2>1. accepted \in SUBSET Message
    BY DEF IInv, TypeOK
  <2>2. \A m \in Message : m.sequence \in Nat
    BY DEF Message
  <2>3. \A m \in accepted' : m.sequence < nextSequence'
    BY <1>1, <1>2, <1>8, <1>9, <2>1, <2>2
  <2> QED BY <1>1, <1>5, <1>6, <1>7, <2>3 DEF OnlyAccepted
<1>12. PackParts'
  <2>1. UNCHANGED <<compression, bpc, candidate, work, prepared, rejected>>
    BY <1>1 DEF batcherVars
  <2>2. CandidateIsOldest'
    <3> SUFFICES ASSUME NEW m \in Range(candidate), NEW k \in DOMAIN pending'
                 PROVE  \/ [sequence |-> k, envelope |-> pending'[k]] \in Range(candidate)
                        \/ m.sequence < k
      BY <2>1 DEF CandidateIsOldest, StoredMessage
    <3>1. m.sequence \in DOMAIN pending
      BY <1>2, KnownMessages DEF IInv, CandidateStaysPending
    <3>2. CASE k = nextSequence
      BY <1>3, <3>1, <3>2
    <3>3. CASE k \in DOMAIN pending
      BY <1>4, <3>3 DEF CandidateIsOldest, StoredMessage
    <3> QED BY <1>4, <3>2, <3>3
  <2>3. LocalsOnlyInPack' /\ RejectsOnlyUnbatchable'
    BY <2>1 DEF LocalsOnlyInPack, RejectsOnlyUnbatchable
  <2>4. PackFromCandidate' /\ PackInOrder'
    BY <2>1 DEF PackFromCandidate, PackInOrder, Ascending, Before, MessagesOf
  <2> QED BY <2>2, <2>3, <2>4 DEF PackParts
<1> QED BY <1>10, <1>11, <1>12, Together

-----------------------------------------------------------------------------
(***************************************************************************)
(* The batcher.                                                            *)
(***************************************************************************)
\* While the batcher only moves its locals, the queue stays as it is.
LEMMA QueueUntouched ==
    ASSUME OrderInv, UNCHANGED <<storeVars, anchorVars, processVars, dropped>>
    PROVE  BatchesInOrder' /\ OnlyAccepted'
<1>1. KnownBatches' = KnownBatches
  BY DEF KnownBatches, StoredBatch, storeVars, anchorVars
<1> QED BY <1>1, QueueShrinks DEF storeVars, processVars

\* A step that ends or begins a pass holds nothing.
LEMMA PassKeepsOrder ==
    ASSUME OrderInv, IInv', UNCHANGED <<anchorVars, processVars>>,
           \/ ScanIdle \/ ScanWait \/ StepFails
           \/ Woken \/ TimerFires \/ BeginFlushAll
    PROVE  OrderInv'
<1>1. UNCHANGED <<storeVars, dropped>>
  BY DEF ScanIdle, ScanWait, StepFails, Woken, TimerFires, BeginFlushAll, BeginPass
<1>2. candidate' = <<>> /\ work' = <<>> /\ prepared' = <<>> /\ rejected' = {}
  <2>1. CASE ScanIdle \/ ScanWait \/ StepFails
    BY <2>1 DEF ScanIdle, ScanWait, StepFails, EndPass, LeaveStep
  <2>2. CASE Woken \/ TimerFires \/ BeginFlushAll
    <3>1. bpc = "sleep" /\ UNCHANGED <<candidate, work, prepared, rejected>>
      BY <2>2 DEF Woken, TimerFires, BeginFlushAll, BeginPass
    <3> QED BY <3>1 DEF OrderInv, LocalsOnlyInPack
  <2> QED BY <2>1, <2>2
<1> QED BY <1>1, <1>2, PackEmpty, QueueUntouched, Together

\* A page of pending_messages is ascending and leaves out only younger rows.
LEMMA PendingPageOldest ==
    ASSUME StoreTypeOK, NEW limit \in Nat, NEW p \in PendingMessages(limit)
    PROVE  /\ \A i, j \in DOMAIN p : i < j => p[i].sequence < p[j].sequence
           /\ \A k \in DOMAIN pending :
                 \/ \E i \in DOMAIN p : p[i] = StoredMessage(k)
                 \/ \A i \in DOMAIN p : p[i].sequence < k
<1>1. PICK q \in BoundedSeq(DOMAIN pending, limit) :
          /\ OldestFirst(q, DOMAIN pending, limit)
          /\ p = [i \in DOMAIN q |-> StoredMessage(q[i])]
  BY DEF PendingMessages
<1>2. PICK n \in 0..limit : q \in [1..n -> DOMAIN pending]
  BY <1>1 DEF BoundedSeq, SeqOf
<1>3. DOMAIN p = 1..n /\ \A i \in 1..n : p[i] = StoredMessage(q[i]) /\ p[i].sequence = q[i]
  BY <1>1, <1>2 DEF StoredMessage
<1>4. \A k \in DOMAIN pending :
          (\E i \in 1..n : q[i] = k) \/ (\A i \in 1..n : q[i] < k)
  BY <1>1, <1>2 DEF OldestFirst, Range
<1>5. \A i, j \in 1..n : i < j => q[i] < q[j]
  BY <1>1, <1>2 DEF OldestFirst
<1> QED BY <1>3, <1>4, <1>5

\* The candidate is the oldest run of what is pending, and what goes to pack
\* is in order.
LEMMA ScanSelectKeepsOrder ==
    ASSUME OrderInv, IInv', UNCHANGED <<anchorVars, processVars>>, ScanSelect
    PROVE  OrderInv'
<1>1. /\ UNCHANGED <<storeVars, compression, dropped>>
      /\ bpc' = "pack" /\ prepared' = <<>>
      /\ rejected' = {m \in Range(candidate') : m.envelope \notin Decodable}
  BY DEF ScanSelect
<1>2. candidate' \in Seq(Message) /\ StoreTypeOK
  BY DEF OrderInv, IInv, TypeOK, BatcherTypeOK
<1>3. UNCHANGED pending
  BY <1>1 DEF storeVars
<1>4. CandidateIsOldest'
  <2>1. PICK p \in PendingMessages(MaxMessages), len \in 1..MaxMessages :
            len <= Len(p) /\ candidate' = SubSeq(p, 1, len)
    BY DEF ScanSelect
  <2>2. /\ p \in Seq(Message)
        /\ \A i, j \in DOMAIN p : i < j => p[i].sequence < p[j].sequence
        /\ \A k \in DOMAIN pending :
              \/ \E i \in DOMAIN p : p[i] = StoredMessage(k)
              \/ \A i \in DOMAIN p : p[i].sequence < k
    BY <1>2, PendingPage, PendingPageOldest, BatcherConstants
  <2>3. len \in Nat /\ len <= Len(p)
    BY <2>1, BatcherConstants
  <2>4. /\ DOMAIN candidate' = 1..len
        /\ \A i \in 1..len : candidate'[i] = p[i] /\ i \in DOMAIN p
    BY <2>1, <2>2, <2>3
  <2> SUFFICES ASSUME NEW i \in 1..len, NEW k \in DOMAIN pending
               PROVE  StoredMessage(k) \in Range(candidate') \/ p[i].sequence < k
    BY <1>3, <2>4 DEF CandidateIsOldest, StoredMessage, Range
  <2>5. CASE \A j \in DOMAIN p : p[j].sequence < k
    BY <2>4, <2>5
  <2>6. ASSUME NEW j \in DOMAIN p, p[j] = StoredMessage(k)
        PROVE  StoredMessage(k) \in Range(candidate') \/ p[i].sequence < k
    <3>1. CASE j <= len
      <4>1. j \in 1..len
        BY <2>2, <2>3, <3>1
      <4> QED BY <2>4, <2>6, <4>1 DEF Range
    <3>2. CASE j > len
      <4>1. i < j /\ i \in DOMAIN p
        BY <2>2, <2>3, <2>4, <3>2
      <4>2. p[j].sequence = k
        BY <2>6 DEF StoredMessage
      <4> QED BY <2>2, <4>1, <4>2
    <3> QED BY <2>2, <2>3, <3>1, <3>2
  <2> QED BY <2>2, <2>5, <2>6
<1>5. PICK decoded \in InOrder(Range(candidate') \ rejected') :
          work' = IF decoded = <<>> THEN <<>> ELSE <<decoded>>
  BY DEF ScanSelect
<1>6. /\ Range(decoded) = Range(candidate') \ rejected'
      /\ Ascending(decoded)
  BY <1>5 DEF InOrder, Ascending
<1>7. /\ \A i \in DOMAIN work' : i = 1 /\ work'[i] = decoded
  BY <1>5
<1>8. PackFromCandidate'
  BY <1>1, <1>6, <1>7 DEF PackFromCandidate
<1>9. PackInOrder'
  BY <1>1, <1>6, <1>7 DEF PackInOrder, Ascending
<1>10. RejectsOnlyUnbatchable'
  BY <1>1 DEF RejectsOnlyUnbatchable
<1>11. LocalsOnlyInPack'
  BY <1>1 DEF LocalsOnlyInPack
<1>12. PackParts'
  BY <1>4, <1>8, <1>9, <1>10, <1>11 DEF PackParts
<1> QED BY <1>1, <1>12, QueueUntouched, Together

\* split_at cuts an ascending slice into two of which the left one is older.
LEMMA SplitInOrder ==
    ASSUME NEW s \in Seq(Message), NEW mid \in 0..Len(s), Ascending(s)
    PROVE  /\ Ascending(SubSeq(s, 1, mid))
           /\ Ascending(SubSeq(s, mid + 1, Len(s)))
           /\ Range(SubSeq(s, 1, mid)) \subseteq Range(s)
           /\ Range(SubSeq(s, mid + 1, Len(s))) \subseteq Range(s)
           /\ Before(Range(SubSeq(s, 1, mid)), Range(SubSeq(s, mid + 1, Len(s))))
<1> DEFINE left  == SubSeq(s, 1, mid)
           right == SubSeq(s, mid + 1, Len(s))
<1>1. /\ DOMAIN left = 1..mid
      /\ \A i \in 1..mid : left[i] = s[i] /\ i \in DOMAIN s
  OBVIOUS
<1>2. /\ DOMAIN right = 1..(Len(s) - mid)
      /\ \A i \in 1..(Len(s) - mid) : right[i] = s[i + mid] /\ i + mid \in DOMAIN s
  OBVIOUS
<1> HIDE DEF left, right
<1>3. Ascending(left)
  BY <1>1 DEF Ascending
<1>4. Ascending(right)
  <2> SUFFICES ASSUME NEW i \in DOMAIN right, NEW j \in DOMAIN right, i < j
               PROVE  right[i].sequence < right[j].sequence
    BY DEF Ascending
  <2>1. i + mid < j + mid
    BY <1>2
  <2> QED BY <1>2, <2>1 DEF Ascending
<1>5. Range(left) \subseteq Range(s) /\ Range(right) \subseteq Range(s)
  BY <1>1, <1>2 DEF Range
<1>6. Before(Range(left), Range(right))
  <2> SUFFICES ASSUME NEW i \in 1..mid, NEW j \in 1..(Len(s) - mid)
               PROVE  left[i].sequence < right[j].sequence
    BY <1>1, <1>2 DEF Before, Range
  <2>1. i < j + mid
    OBVIOUS
  <2> QED BY <1>1, <1>2, <2>1 DEF Ascending
<1> QED BY <1>3, <1>4, <1>5, <1>6 DEF left, right

\* The pack_into calls keep the order: a slice that fits is younger than what
\* is prepared, one message too large is in no other slice, and the halves of
\* a split take the place of the whole.
LEMMA PackKeepsOrder ==
    ASSUME OrderInv, IInv', UNCHANGED <<anchorVars, processVars>>,
           PackFits \/ PackReject \/ PackSplit
    PROVE  OrderInv'
<1> USE DEF OrderInv
<1>1. /\ UNCHANGED <<storeVars, compression, dropped, candidate, bpc>>
      /\ bpc = "pack" /\ work # <<>>
  BY DEF PackFits, PackReject, PackSplit
<1>2. /\ work \in Seq(Seq(Message)) /\ prepared \in Seq(Payload)
      /\ compression \in Compression
  BY DEF IInv, TypeOK, BatcherTypeOK
<1>3. UNCHANGED pending
  BY <1>1 DEF storeVars
<1>4. /\ Head(work) = work[1] /\ 1 \in DOMAIN work
      /\ work[1] \in Seq(Message) /\ Tail(work) \in Seq(Seq(Message))
      /\ \A i \in DOMAIN Tail(work) :
            i \in Nat /\ i + 1 \in DOMAIN work /\ 1 < i + 1
              /\ Tail(work)[i] = work[i + 1]
  BY <1>1, <1>2
<1> DEFINE slice == work[1]
           rest  == Tail(work)
<1>5. /\ \A i \in DOMAIN rest :
            /\ Ascending(rest[i])
            /\ Before(Range(slice), Range(rest[i]))
            /\ Range(rest[i]) \subseteq Range(candidate) \ rejected
            /\ \A k \in DOMAIN prepared : Before(MessagesOf(prepared[k]), Range(rest[i]))
      /\ \A i, j \in DOMAIN rest : i < j => Before(Range(rest[i]), Range(rest[j]))
      /\ Ascending(slice)
      /\ Range(slice) \subseteq Range(candidate) \ rejected
      /\ \A k \in DOMAIN prepared : Before(MessagesOf(prepared[k]), Range(slice))
  <2>1. \A i, j \in DOMAIN rest : i < j => i + 1 < j + 1
    BY <1>4
  <2> QED BY <1>4, <2>1 DEF PackInOrder, PackFromCandidate
<1>6. /\ \A k \in DOMAIN prepared : MessagesOf(prepared[k]) \subseteq Range(candidate) \ rejected
      /\ \A i, j \in DOMAIN prepared :
            i < j => Before(MessagesOf(prepared[i]), MessagesOf(prepared[j]))
      /\ rejected \subseteq Range(candidate)
  BY DEF PackInOrder, PackFromCandidate
<1>7. slice \in Seq(Message) /\ rest \in Seq(Seq(Message)) /\ Head(work) = slice
  BY <1>4
<1> HIDE DEF slice, rest
<1>8. CandidateIsOldest' /\ LocalsOnlyInPack'
  BY <1>1, <1>3 DEF CandidateIsOldest, LocalsOnlyInPack, StoredMessage
<1>9. CASE PackFits
  <2> DEFINE fresh == Encode(compression, slice)
  <2>1. prepared' = Append(prepared, fresh) /\ work' = rest /\ rejected' = rejected
    BY <1>7, <1>9 DEF PackFits, rest
  <2>2. fresh \in Payload /\ MessagesOf(fresh) = Range(slice)
    BY <1>2, <1>7 DEF Encode, Payload, MessagesOf
  <2> HIDE DEF fresh
  <2>3. /\ DOMAIN prepared = 1..Len(prepared) /\ Len(prepared) \in Nat
        /\ DOMAIN prepared' = 1..(Len(prepared) + 1)
        /\ prepared'[Len(prepared) + 1] = fresh
        /\ \A i \in 1..Len(prepared) : prepared'[i] = prepared[i]
    BY <1>2, <2>1, <2>2
  <2>4. \A i \in DOMAIN prepared' :
           \/ i \in DOMAIN prepared /\ prepared'[i] = prepared[i]
           \/ i = Len(prepared) + 1 /\ prepared'[i] = fresh
    BY <2>3
  <2>5. PackFromCandidate'
    BY <1>1, <1>5, <1>6, <2>1, <2>2, <2>4 DEF PackFromCandidate, MessagesOf
  <2>6. ASSUME NEW i \in DOMAIN prepared', NEW j \in DOMAIN prepared', i < j
        PROVE  Before(MessagesOf(prepared'[i]), MessagesOf(prepared'[j]))
    <3>1. i \in DOMAIN prepared /\ prepared'[i] = prepared[i]
      BY <2>3, <2>6
    <3>2. CASE j \in DOMAIN prepared /\ prepared'[j] = prepared[j]
      BY <1>6, <2>6, <3>1, <3>2
    <3>3. CASE prepared'[j] = fresh
      BY <1>5, <2>2, <3>1, <3>3
    <3> QED BY <2>4, <3>2, <3>3
  <2>7. ASSUME NEW i \in DOMAIN prepared', NEW j \in DOMAIN work'
        PROVE  Before(MessagesOf(prepared'[i]), Range(work'[j]))
    BY <1>5, <2>1, <2>2, <2>4
  <2>8. PackInOrder'
    <3>1. \A i \in DOMAIN work' : Ascending(work'[i])
      BY <1>5, <2>1
    <3>2. \A i, j \in DOMAIN work' : i < j => Before(Range(work'[i]), Range(work'[j]))
      BY <1>5, <2>1
    <3> QED BY <2>6, <2>7, <3>1, <3>2 DEF PackInOrder, Before, Ascending, MessagesOf
  <2>9. RejectsOnlyUnbatchable'
    BY <1>1, <2>1 DEF RejectsOnlyUnbatchable
  <2>10. PackParts'
    BY <1>8, <2>5, <2>8, <2>9 DEF PackParts
  <2> QED BY <1>1, <2>10, QueueUntouched, Together
<1>10. CASE PackReject
  <2> DEFINE lone == slice[1]
  <2>1. /\ prepared' = prepared /\ work' = rest /\ rejected' = rejected \cup {lone}
        /\ Len(slice) = 1
        /\ PayloadLen(Encode(compression, slice)) > MaxBatchSize
    BY <1>7, <1>10 DEF PackReject, rest
  <2>2. slice = <<lone>> /\ lone \in Message /\ lone \in Range(slice)
    BY <1>7, <2>1, SMTT(40) DEF Range
  <2>3. lone.sequence \in Nat
    BY <2>2 DEF Message
  <2> HIDE DEF lone
  <2>4. lone \in Range(candidate)
    BY <1>5, <2>2
  <2>5. /\ \A i \in DOMAIN rest : lone \notin Range(rest[i])
        /\ \A k \in DOMAIN prepared : lone \notin MessagesOf(prepared[k])
    BY <1>5, <2>2, <2>3 DEF Before
  <2>6. PackFromCandidate'
    BY <1>1, <1>5, <1>6, <2>1, <2>4, <2>5 DEF PackFromCandidate, MessagesOf
  <2>7. PackInOrder'
    BY <1>5, <1>6, <2>1 DEF PackInOrder, Before, Ascending, MessagesOf
  <2>8. RejectsOnlyUnbatchable'
    BY <1>1, <2>1, <2>2 DEF RejectsOnlyUnbatchable
  <2>9. PackParts'
    BY <1>8, <2>6, <2>7, <2>8 DEF PackParts
  <2> QED BY <1>1, <2>9, QueueUntouched, Together
<1>11. CASE PackSplit
  <2>1. prepared' = prepared /\ rejected' = rejected
    BY <1>11 DEF PackSplit
  <2>2. Len(slice) \div 2 \in 0..Len(slice)
    <3>1. Len(slice) \in Nat
      BY <1>7
    <3> QED BY ONLY <3>1, HalfOf
  <2>3. PICK mid \in 0..Len(slice) : work' = SplitAt(slice, mid) \o rest
    BY <1>7, <1>11, <2>2 DEF PackSplit, rest
  <2> DEFINE left  == SubSeq(slice, 1, mid)
             right == SubSeq(slice, mid + 1, Len(slice))
  <2>4. left \in Seq(Message) /\ right \in Seq(Message)
    BY <1>7, SplitProperties
  <2>5. /\ Ascending(left) /\ Ascending(right) /\ Before(Range(left), Range(right))
        /\ Range(left) \subseteq Range(slice) /\ Range(right) \subseteq Range(slice)
    BY <1>5, <1>7, SplitInOrder
  <2>6. work' = <<left, right>> \o rest
    BY <2>3 DEF SplitAt
  <2> HIDE DEF left, right
  <2>7. /\ work' \in Seq(Seq(Message)) /\ Len(work') = Len(rest) + 2
        /\ work'[1] = left /\ work'[2] = right
        /\ \A i \in 1..Len(rest) : work'[i + 2] = rest[i]
    BY <1>7, <2>4, <2>6, TwoInFront, SMTT(40)
  <2>8. \A i \in DOMAIN work' :
           \/ i = 1 /\ work'[i] = left
           \/ i = 2 /\ work'[i] = right
           \/ i - 2 \in DOMAIN rest /\ i > 2 /\ work'[i] = rest[i - 2]
    <3> TAKE i \in DOMAIN work'
    <3>1. CASE i > 2
      <4>1. i - 2 \in 1..Len(rest) /\ (i - 2) + 2 = i
        <5>1. i \in Nat /\ i <= Len(work') /\ Len(rest) \in Nat
          BY <1>7, <2>7
        <5> QED BY <2>7, <3>1, <5>1
      <4>2. work'[(i - 2) + 2] = rest[i - 2]
        BY <2>7, <4>1
      <4> QED BY <1>7, <3>1, <4>1, <4>2
    <3>2. CASE i <= 2
      BY <2>7, <3>2
    <3> QED BY <2>7, <3>1, <3>2
  <2>9. /\ \A i \in DOMAIN work' : Ascending(work'[i])
        /\ \A i \in DOMAIN work' : Range(work'[i]) \subseteq Range(candidate) \ rejected
        /\ \A k \in DOMAIN prepared, i \in DOMAIN work' :
              Before(MessagesOf(prepared[k]), Range(work'[i]))
    <3> SUFFICES ASSUME NEW i \in DOMAIN work'
                 PROVE  /\ Ascending(work'[i])
                        /\ Range(work'[i]) \subseteq Range(candidate) \ rejected
                        /\ \A k \in DOMAIN prepared :
                              Before(MessagesOf(prepared[k]), Range(work'[i]))
      OBVIOUS
    <3>1. CASE work'[i] \in {left, right}
      BY <1>5, <2>5, <3>1 DEF Before
    <3>2. CASE i - 2 \in DOMAIN rest /\ work'[i] = rest[i - 2]
      BY <1>5, <3>2
    <3> QED BY <2>8, <3>1, <3>2
  <2>10. ASSUME NEW i \in DOMAIN work', NEW j \in DOMAIN work', i < j
         PROVE  Before(Range(work'[i]), Range(work'[j]))
    <3>1. CASE j - 2 \in DOMAIN rest /\ j > 2 /\ work'[j] = rest[j - 2]
      <4>1. CASE work'[i] \in {left, right}
        BY <1>5, <2>5, <3>1, <4>1 DEF Before
      <4>2. CASE i - 2 \in DOMAIN rest /\ i > 2 /\ work'[i] = rest[i - 2]
        <5>1. i - 2 < j - 2
          BY <1>7, <2>7, <2>10
        <5> QED BY <1>5, <3>1, <4>2, <5>1
      <4> QED BY <2>8, <4>1, <4>2
    <3>2. CASE ~(j - 2 \in DOMAIN rest /\ j > 2 /\ work'[j] = rest[j - 2])
      <4>1. i = 1 /\ j = 2
        <5>1. j = 1 \/ j = 2
          BY <2>8, <3>2
        <5> QED BY <2>7, <2>10, <5>1
      <4> QED BY <2>5, <2>7, <4>1
    <3> QED BY <3>1, <3>2
  <2>11. PackFromCandidate'
    BY <1>1, <1>6, <2>1, <2>9 DEF PackFromCandidate, MessagesOf
  <2>12. PackInOrder'
    BY <1>6, <2>1, <2>9, <2>10 DEF PackInOrder, Before, Ascending, MessagesOf
  <2>13. RejectsOnlyUnbatchable'
    BY <1>1, <2>1 DEF RejectsOnlyUnbatchable
  <2>14. PackParts'
    BY <1>8, <2>11, <2>12, <2>13 DEF PackParts
  <2> QED BY <1>1, <2>14, QueueUntouched, Together
<1> QED BY <1>9, <1>10, <1>11

\* commit_batches takes the candidate out of the pending table, stores the
\* prepared payloads under ids that no batch ever had, and gives up what was
\* rejected.
LEMMA Committed ==
    ASSUME IInv, Commit, UNCHANGED <<anchorVars, processVars>>
    PROVE  /\ dropped' = dropped \cup rejected
           /\ UNCHANGED <<nextSequence, accepted, finalized>>
           /\ candidate' = <<>> /\ work' = <<>> /\ prepared' = <<>> /\ rejected' = {}
           /\ PendingSet' = PendingSet \ Range(candidate)
           /\ \A b \in KnownBatches' :
                 \/ b \in KnownBatches
                 \/ \E i \in DOMAIN prepared :
                       b = [id |-> nextBatchId + i - 1, payload |-> prepared[i]]
<1> USE DEF IInv
<1> DEFINE consumed == {m.sequence : m \in Range(candidate)}
           fresh    == FreshIds(Len(prepared))
           New      == {[id |-> nextBatchId + i - 1, payload |-> prepared[i]] :
                            i \in DOMAIN prepared}
<1>1. /\ DOMAIN pending \in SUBSET Nat /\ DOMAIN ready \in SUBSET Nat
      /\ nextBatchId \in Nat /\ prepared \in Seq(Payload) /\ TypeOK
  BY DEF TypeOK, StoreTypeOK, BatcherTypeOK
<1>2. /\ PendingSet \subseteq Message
      /\ \A m \in PendingSet : m.sequence \in DOMAIN pending /\ m = StoredMessage(m.sequence)
  BY <1>1, KnownMessages DEF PendingSet, StoredMessage
<1>3. AllPending(consumed)
  BY <1>2 DEF AllPending, CandidateStaysPending
<1>4. /\ CommitBatches(consumed, prepared)
      /\ dropped' = dropped \cup rejected
      /\ LeaveStep
  BY <1>3 DEF Commit
<1>5. \A id \in fresh : id - nextBatchId + 1 \in DOMAIN prepared
                          /\ nextBatchId + (id - nextBatchId + 1) - 1 = id
  <2>1. DOMAIN prepared = 1..Len(prepared) /\ Len(prepared) \in Nat
    BY <1>1
  <2> QED BY <1>1, <2>1 DEF FreshIds
<1>6. /\ DOMAIN ready' = DOMAIN ready \cup fresh
      /\ \A id \in fresh : ready'[id] = prepared[id - nextBatchId + 1]
      /\ \A id \in DOMAIN ready : id \notin fresh => ready'[id] = ready[id]
      /\ UNCHANGED <<nextSequence, format>>
  BY <1>4 DEF CommitBatches
<1>7. /\ DOMAIN pending' = DOMAIN pending \ consumed
      /\ \A k \in DOMAIN pending' : pending'[k] = pending[k]
  BY <1>4 DEF CommitBatches, Delete, Restrict
<1>8. PendingSet' = PendingSet \ Range(candidate)
  <2>1. PendingSet' = {[sequence |-> k, envelope |-> pending'[k]] : k \in DOMAIN pending'}
    BY DEF PendingSet, StoredMessage
  <2>2. \A k \in DOMAIN pending' :
           [sequence |-> k, envelope |-> pending'[k]] = StoredMessage(k)
    BY <1>7 DEF StoredMessage
  <2>3. PendingSet' = {StoredMessage(k) : k \in DOMAIN pending'}
    BY <2>1, <2>2
  <2>4. \A k \in DOMAIN pending : k \in consumed <=> StoredMessage(k) \in Range(candidate)
    <3> TAKE k \in DOMAIN pending
    <3>1. StoredMessage(k).sequence = k
      BY DEF StoredMessage
    <3>2. ASSUME NEW m \in Range(candidate), m.sequence = k
          PROVE  StoredMessage(k) \in Range(candidate)
      <4>1. m \in PendingSet
        BY DEF CandidateStaysPending
      <4> QED BY <1>2, <3>2, <4>1
    <3> QED BY <3>1, <3>2
  <2> HIDE DEF consumed
  <2>5. \A m : m \in PendingSet' <=> m \in PendingSet \ Range(candidate)
    BY <1>7, <2>3, <2>4 DEF PendingSet
  <2> QED BY <2>5
<1>9. KnownBatches' \subseteq KnownBatches \cup New
  <2> DEFINE Old == {StoredBatch(id) : id \in DOMAIN ready}
             All == {[id |-> id, payload |-> ready'[id]] : id \in DOMAIN ready'}
  <2>1. ASSUME NEW id \in DOMAIN ready'
        PROVE  [id |-> id, payload |-> ready'[id]] \in Old \cup New
    <3>1. CASE id \in fresh
      <4>1. ready'[id] = prepared[id - nextBatchId + 1]
        BY <1>6, <3>1
      <4> QED BY <1>5, <3>1, <4>1
    <3>2. CASE id \notin fresh
      BY <1>6, <2>1, <3>2 DEF StoredBatch
    <3> QED BY <3>1, <3>2
  <2>2. All \subseteq Old \cup New
    BY <2>1
  <2>3. KnownBatches' = All \cup Range(page) \cup limbo \cup finalized
    BY DEF KnownBatches, StoredBatch, anchorVars
  <2>4. KnownBatches = Old \cup Range(page) \cup limbo \cup finalized
    BY DEF KnownBatches
  <2> HIDE DEF Old, New, All
  <2> QED BY <2>2, <2>3, <2>4
<1> QED BY <1>4, <1>6, <1>8, <1>9 DEF LeaveStep, processVars, anchorVars

\* What a commit stores is younger than all batches, in order, older than
\* what stays pending, and apart from what is given up.
LEMMA CommitKeepsOrder ==
    ASSUME OrderInv, IInv', UNCHANGED <<anchorVars, processVars>>, Commit
    PROVE  OrderInv'
<1> USE DEF OrderInv
<1>1. /\ dropped' = dropped \cup rejected
      /\ UNCHANGED <<nextSequence, accepted>>
      /\ candidate' = <<>> /\ work' = <<>> /\ prepared' = <<>> /\ rejected' = {}
      /\ PendingSet' = PendingSet \ Range(candidate)
      /\ \A b \in KnownBatches' :
            \/ b \in KnownBatches
            \/ \E i \in DOMAIN prepared :
                  b = [id |-> nextBatchId + i - 1, payload |-> prepared[i]]
  BY Committed
<1>2. TypeOK /\ nextBatchId \in Nat /\ prepared \in Seq(Payload)
  BY DEF IInv, TypeOK, StoreTypeOK, BatcherTypeOK
<1>3. /\ \A b \in KnownBatches : b.id \in Nat /\ b.id < nextBatchId
      /\ \A m \in PendingSet : m.sequence \in Nat
  <2>1. PendingSet \subseteq Message /\ \A m \in Message : m.sequence \in Nat
    BY <1>2, KnownMessages
  <2>2. \A b \in KnownBatches : b.id \in Nat /\ b.id < nextBatchId
    BY <1>2, KnownMessages DEF IInv, KeysBelowCounters
  <2> QED BY <2>1, <2>2
<1>4. Range(candidate) \subseteq PendingSet
  BY DEF IInv, CandidateStaysPending
<1>5. /\ \A i \in DOMAIN prepared : MessagesOf(prepared[i]) \subseteq Range(candidate) \ rejected
      /\ rejected \subseteq Range(candidate)
      /\ \A i, j \in DOMAIN prepared :
            i < j => Before(MessagesOf(prepared[i]), MessagesOf(prepared[j]))
  BY DEF PackFromCandidate, PackInOrder
<1>6. Before(Range(candidate), PendingSet')
  <2> SUFFICES ASSUME NEW m \in Range(candidate), NEW n \in PendingSet, n \notin Range(candidate)
               PROVE  m.sequence < n.sequence
    BY <1>1 DEF Before
  <2>1. PICK k \in DOMAIN pending : n = StoredMessage(k)
    BY DEF PendingSet
  <2>2. n.sequence = k
    BY <2>1 DEF StoredMessage
  <2> QED BY <2>1, <2>2 DEF CandidateIsOldest
<1>7. /\ \A b \in KnownBatches : Before(MessagesOf(b.payload), PendingSet)
      /\ \A b \in KnownBatches : MessagesOf(b.payload) \subseteq accepted \ dropped
      /\ Before(dropped, PendingSet)
      /\ PendingSet \cup dropped \subseteq accepted
  BY DEF BatchesInOrder, OnlyAccepted
<1>8. ASSUME NEW b \in KnownBatches'
      PROVE  \/ b \in KnownBatches /\ b.id < nextBatchId
             \/ \E i \in DOMAIN prepared :
                   /\ b.id = nextBatchId + i - 1
                   /\ b.payload = prepared[i]
  BY <1>1, <1>3
<1>9. ASSUME NEW b \in KnownBatches'
      PROVE  /\ Before(MessagesOf(b.payload), PendingSet')
             /\ MessagesOf(b.payload) \subseteq accepted \ dropped'
  <2>1. CASE b \in KnownBatches
    <3>1. Before(MessagesOf(b.payload), PendingSet')
      BY <1>1, <1>7, <2>1 DEF Before
    <3>2. \A m \in MessagesOf(b.payload) : m \notin rejected
      BY <1>3, <1>4, <1>5, <1>7, <2>1 DEF Before
    <3> QED BY <1>1, <1>7, <2>1, <3>1, <3>2
  <2>2. ASSUME NEW i \in DOMAIN prepared, b.payload = prepared[i]
        PROVE  /\ Before(MessagesOf(b.payload), PendingSet')
               /\ MessagesOf(b.payload) \subseteq accepted \ dropped'
    <3>1. MessagesOf(b.payload) \subseteq Range(candidate) \ rejected
      BY <1>5, <2>2
    <3>2. Before(MessagesOf(b.payload), PendingSet')
      BY <1>6, <3>1 DEF Before
    <3>3. \A m \in MessagesOf(b.payload) : m \notin dropped
      BY <1>3, <1>4, <1>7, <3>1 DEF Before
    <3> QED BY <1>1, <1>4, <1>7, <3>1, <3>2, <3>3
  <2> QED BY <1>8, <2>1, <2>2
<1>10. ASSUME NEW a \in KnownBatches', NEW b \in KnownBatches', a.id < b.id
       PROVE  Before(MessagesOf(a.payload), MessagesOf(b.payload))
  <2>1. CASE a \in KnownBatches /\ b \in KnownBatches
    BY <1>10, <2>1 DEF BatchesInOrder
  <2>2. ASSUME a \in KnownBatches, NEW i \in DOMAIN prepared, b.payload = prepared[i]
        PROVE  Before(MessagesOf(a.payload), MessagesOf(b.payload))
    BY <1>4, <1>5, <1>7, <2>2 DEF Before
  <2>3. ASSUME NEW i \in DOMAIN prepared, a.id = nextBatchId + i - 1, b.id < nextBatchId,
               b \in KnownBatches
        PROVE  FALSE
    BY <1>2, <1>3, <1>10, <2>3
  <2>4. ASSUME NEW i \in DOMAIN prepared, a.id = nextBatchId + i - 1, a.payload = prepared[i],
               NEW j \in DOMAIN prepared, b.id = nextBatchId + j - 1, b.payload = prepared[j]
        PROVE  Before(MessagesOf(a.payload), MessagesOf(b.payload))
    <3>1. i < j
      BY <1>2, <1>10, <2>4
    <3> QED BY <1>5, <2>4, <3>1
  <2> QED BY <1>8, <2>1, <2>2, <2>3, <2>4
<1>11. BatchesInOrder'
  <2>1. Before(dropped', PendingSet')
    BY <1>1, <1>5, <1>6, <1>7 DEF Before
  <2> QED BY <1>9, <1>10, <2>1 DEF BatchesInOrder, Before
<1>12. OnlyAccepted'
  <2>1. PendingSet' \cup dropped' \subseteq accepted'
    BY <1>1, <1>4, <1>5, <1>7
  <2>2. \A m \in accepted' : m.sequence < nextSequence'
    BY <1>1 DEF OnlyAccepted
  <2>3. \A b \in KnownBatches' : MessagesOf(b.payload) \subseteq accepted' \ dropped'
    BY <1>1, <1>9
  <2> QED BY <2>1, <2>2, <2>3 DEF OnlyAccepted
<1>13. PackParts'
  BY <1>1, PackEmpty
<1> QED BY <1>11, <1>12, <1>13, Together

-----------------------------------------------------------------------------
(***************************************************************************)
(* The invariant and what follows from it.                                 *)
(***************************************************************************)
\* Before the first start nothing was accepted.
LEMMA OrderInit == Init => OrderInv
<1> SUFFICES ASSUME Init PROVE OrderInv
  OBVIOUS
<1> USE DEF Init, StoreInit, BatcherOff, AnchorOff
<1>1. IInv
  BY InvInit
<1>2. KnownBatches = {} /\ PendingSet = {} /\ Range(candidate) = {}
  BY DEF KnownBatches, PendingSet, Range
<1>3. LocalsOnlyInPack /\ CandidateIsOldest /\ PackFromCandidate /\ PackInOrder
  BY <1>2 DEF LocalsOnlyInPack, CandidateIsOldest, PackFromCandidate, PackInOrder
<1>4. RejectsOnlyUnbatchable
  BY DEF RejectsOnlyUnbatchable
<1>5. BatchesInOrder /\ OnlyAccepted
  BY <1>2 DEF BatchesInOrder, OnlyAccepted, Before
<1> QED BY <1>1, <1>3, <1>4, <1>5 DEF OrderInv

\* Every step keeps the order; one case per action.
LEMMA OrderStep ==
    ASSUME OrderInv, [Next]_vars
    PROVE  OrderInv'
<1>1. IInv'
  BY InvStep DEF OrderInv
<1>2. CASE BatcherStep /\ UNCHANGED <<anchorVars, processVars>>
  BY <1>1, <1>2, PassKeepsOrder, ScanSelectKeepsOrder, PackKeepsOrder,
     CommitKeepsOrder DEF BatcherStep
<1>3. CASE (AnchorStep \/ ChainStep) /\ UNCHANGED <<batcherVars, processVars>>
  BY <1>1, <1>3, AnchorKeepsOrder
<1>4. CASE \E envelope \in Envelope : Deliver(envelope)
  BY <1>1, <1>4, DeliverKeepsOrder
<1> QED BY <1>1, <1>2, <1>3, <1>4, ProcessKeepsOrder DEF Next

\* The order invariant holds in every reachable state of the durable path.
THEOREM OrderInvariance == Spec => []OrderInv
BY OrderInit, OrderStep, PTL DEF Spec

\* No message is batched twice, and none is batched that is still pending or
\* was given up, whatever crashes between commit_batches and confirm_batch.
THEOREM AtMostOnce == Spec => []BatchedOnce
<1>1. OrderInv => BatchedOnce
  <2> SUFFICES ASSUME OrderInv PROVE BatchedOnce
    OBVIOUS
  <2>1. TypeOK
    BY DEF OrderInv, IInv
  <2>2. ASSUME NEW b \in KnownBatches, NEW m \in MessagesOf(b.payload)
        PROVE  m.sequence \in Nat
    BY <2>1, KnownMessages
  <2>3. \A m \in PendingSet : m.sequence \in Nat
    <3>1. PendingSet \subseteq Message /\ \A m \in Message : m.sequence \in Nat
      BY <2>1, KnownMessages
    <3> QED BY <3>1
  <2>4. ASSUME NEW a \in KnownBatches, NEW b \in KnownBatches,
               MessagesOf(a.payload) \cap MessagesOf(b.payload) # {}
        PROVE  a.id = b.id
    <3>1. PICK m \in MessagesOf(a.payload) : m \in MessagesOf(b.payload)
      BY <2>4
    <3>2. ~(a.id < b.id) /\ ~(b.id < a.id)
      BY <2>2, <3>1 DEF OrderInv, BatchesInOrder, Before
    <3>3. a.id \in Nat /\ b.id \in Nat
      BY <2>1, KnownMessages
    <3> QED BY <3>2, <3>3
  <2>5. ASSUME NEW b \in KnownBatches
        PROVE  MessagesOf(b.payload) \cap (PendingSet \cup dropped) = {}
    <3>1. \A m \in MessagesOf(b.payload) : m \notin dropped
      BY DEF OrderInv, OnlyAccepted
    <3>2. \A m \in MessagesOf(b.payload) : m \notin PendingSet
      BY <2>3 DEF OrderInv, BatchesInOrder, Before
    <3> QED BY <3>1, <3>2
  <2>6. PendingSet \cap dropped = {}
    BY <2>3 DEF OrderInv, BatchesInOrder, Before
  <2> QED BY <2>4, <2>5, <2>6 DEF BatchedOnce
<1> QED BY <1>1, OrderInvariance, PTL

\* The batches of the store hold the messages in ingress order, and all that
\* is pending is younger, through splits, rejections, failed commits, crashes
\* and restarts with another compression.
THEOREM IngressOrderKept == Spec => []ReadyInIngressOrder
<1>1. OrderInv => ReadyInIngressOrder
  <2> SUFFICES ASSUME OrderInv PROVE ReadyInIngressOrder
    OBVIOUS
  <2>1. \A id \in DOMAIN ready :
           /\ StoredBatch(id) \in KnownBatches
           /\ StoredBatch(id).id = id /\ StoredBatch(id).payload = ready[id]
    BY DEF KnownBatches, StoredBatch
  <2>2. \A i, j \in DOMAIN ready :
           i < j => Before(MessagesOf(ready[i]), MessagesOf(ready[j]))
    BY <2>1 DEF OrderInv, BatchesInOrder
  <2>3. \A i \in DOMAIN ready : Before(MessagesOf(ready[i]), PendingSet)
    BY <2>1 DEF OrderInv, BatchesInOrder
  <2>4. \A k \in DOMAIN pending : StoredMessage(k) \in PendingSet /\ StoredMessage(k).sequence = k
    BY DEF PendingSet, StoredMessage
  <2> QED BY <2>2, <2>3, <2>4 DEF ReadyInIngressOrder, Before
<1> QED BY <1>1, OrderInvariance, PTL

\* A message is rejected only if it does not decode, or is too large alone:
\* splitting goes down to single messages before any is given up.
THEOREM GivesUpOnlyUnbatchable == Spec => []RejectsOnlyUnbatchable
<1>1. OrderInv => RejectsOnlyUnbatchable
  BY DEF OrderInv
<1> QED BY <1>1, OrderInvariance, PTL

-----------------------------------------------------------------------------
(***************************************************************************)
(* Refinement: the durable path implements AnchoredQueue.                  *)
(***************************************************************************)
\* A batch that reaches the chain carries the oldest outstanding messages:
\* everything older is on chain already or was given up.
LEMMA AnchorsOldest ==
    ASSUME OrderInv, IInv', NEW b \in KnownBatches,
           finalized' = finalized \cup {b},
           UNCHANGED <<accepted, dropped>>
    PROVE  [Promise!Next]_(Promise!vars)
<1> USE DEF OrderInv
<1>1. AnchoredSet' = AnchoredSet \cup MessagesOf(b.payload)
  <2>1. \A m : m \in AnchoredSet' <=> m \in AnchoredSet \cup MessagesOf(b.payload)
    BY DEF AnchoredSet, MessagesOf
  <2> QED BY <2>1
<1>2. MessagesOf(b.payload) \subseteq accepted \ dropped
  BY DEF OnlyAccepted
<1>3. b.id \in Nat
  BY KnownMessages DEF IInv
<1>4. \A id \in 0 .. b.id - 1 : \E earlier \in finalized' : earlier.id = id
  BY DEF IInv, FirstAnchoredInOrder
<1>5. ASSUME NEW m \in MessagesOf(b.payload), NEW o \in accepted,
             o \notin AnchoredSet, o \notin MessagesOf(b.payload), o \notin dropped
      PROVE  m.sequence < o.sequence
  <2>1. o \in PendingSet \cup ReadySet
    BY <1>5 DEF IInv, NothingLost
  <2>2. CASE o \in PendingSet
    BY <2>2 DEF BatchesInOrder, Before
  <2>3. ASSUME NEW id \in DOMAIN ready, o \in MessagesOf(ready[id])
        PROVE  m.sequence < o.sequence
    <3> DEFINE r == StoredBatch(id)
    <3>1. r \in KnownBatches /\ r.id = id /\ r.payload = ready[id]
      BY DEF KnownBatches, StoredBatch
    <3>2. id \in Nat
      BY DEF IInv, TypeOK, StoreTypeOK
    <3> HIDE DEF r
    <3>3. id # b.id
      BY <1>5, <2>3, <3>1 DEF IInv, OnePayloadPerId
    <3>4. ~(id < b.id)
      <4> SUFFICES ASSUME id < b.id PROVE FALSE
        OBVIOUS
      <4>1. id \in 0 .. b.id - 1
        BY <1>3, <3>2
      <4>2. PICK e \in finalized' : e.id = id
        BY <1>4, <4>1
      <4>3. e \in finalized
        BY <3>3, <4>2
      <4>4. e \in KnownBatches
        BY <4>3 DEF KnownBatches
      <4>5. e.payload = ready[id]
        BY <3>1, <4>2, <4>4 DEF IInv, OnePayloadPerId
      <4>6. o \in AnchoredSet
        BY <2>3, <4>3, <4>5 DEF AnchoredSet
      <4> QED BY <1>5, <4>6
    <3>5. b.id < r.id
      BY <1>3, <3>1, <3>2, <3>3, <3>4
    <3> QED BY <2>3, <3>1, <3>5 DEF BatchesInOrder, Before
  <2> QED BY <2>1, <2>2, <2>3 DEF ReadySet
<1>6. CASE AnchoredSet' = AnchoredSet
  BY <1>6 DEF Promise!vars
<1>7. CASE AnchoredSet' # AnchoredSet
  <2>1. Promise!AnchorRun
    BY <1>1, <1>2, <1>5, <1>7 DEF Promise!AnchorRun, Promise!Outstanding
  <2> QED BY <2>1 DEF Promise!Next
<1> QED BY <1>6, <1>7

\* Every step of the durable path is a step of the abstract queue, or one it
\* does not see.
LEMMA PromiseStep ==
    ASSUME OrderInv, [Next]_vars
    PROVE  [Promise!Next]_(Promise!vars)
<1> USE DEF OrderInv
<1>1. IInv'
  BY InvStep
<1>2. CASE UNCHANGED <<accepted, finalized, dropped>>
  BY <1>2 DEF Promise!vars, AnchoredSet
<1>3. CASE \E envelope \in Envelope : Deliver(envelope)
  <2>1. PICK envelope \in Envelope : Deliver(envelope)
    BY <1>3
  <2> DEFINE new == [sequence |-> nextSequence, envelope |-> envelope]
  <2>2. /\ accepted' = accepted \cup {new} /\ nextSequence < MaxPushed
        /\ UNCHANGED <<finalized, dropped>>
    BY <2>1 DEF Deliver, SinkDeliver, PushMessage, anchorVars, batcherVars
  <2>3. nextSequence \in Nat /\ MaxPushed \in Nat
    BY StoreConstants DEF IInv, TypeOK, StoreTypeOK
  <2>4. new \in [sequence : 0 .. MaxPushed, envelope : Envelope]
    BY <2>2, <2>3
  <2>5. \A a \in accepted : a.sequence < new.sequence
    BY DEF OnlyAccepted
  <2>6. AnchoredSet' = AnchoredSet
    BY <2>2 DEF AnchoredSet
  <2> HIDE DEF new
  <2>7. Promise!Accept
    BY <2>2, <2>4, <2>5, <2>6 DEF Promise!Accept
  <2> QED BY <2>7 DEF Promise!Next
<1>4. CASE Commit /\ UNCHANGED <<anchorVars, processVars>>
  <2>1. dropped' = dropped \cup rejected /\ UNCHANGED <<accepted, finalized>>
    BY <1>4, Committed
  <2>2. rejected \subseteq PendingSet
    BY DEF PackFromCandidate, IInv, CandidateStaysPending
  <2>3. PendingSet \subseteq accepted
    BY DEF OnlyAccepted
  <2>4. \A m \in PendingSet : m.sequence \in Nat
    <3>1. PendingSet \subseteq Message /\ \A m \in Message : m.sequence \in Nat
      BY KnownMessages DEF IInv
    <3> QED BY <3>1
  <2>5. \A m \in PendingSet : m \notin AnchoredSet
    <3>1. finalized \subseteq KnownBatches
      BY DEF KnownBatches
    <3> QED BY <2>4, <3>1 DEF AnchoredSet, BatchesInOrder, Before
  <2>6. \A m \in PendingSet : m \notin dropped
    BY <2>4 DEF BatchesInOrder, Before
  <2>7. \A m \in rejected : CannotBeBatched(m)
    BY DEF RejectsOnlyUnbatchable, CannotBeBatched, IInv, TypeOK, BatcherTypeOK
  <2>8. AnchoredSet' = AnchoredSet
    BY <2>1 DEF AnchoredSet
  <2>9. CASE dropped' = dropped
    BY <2>1, <2>8, <2>9 DEF Promise!vars
  <2>10. CASE dropped' # dropped
    <3>1. Promise!Drop
      BY <2>1, <2>2, <2>3, <2>5, <2>6, <2>7, <2>8, <2>10
         DEF Promise!Drop, Promise!Outstanding
    <3> QED BY <3>1 DEF Promise!Next
  <2> QED BY <2>9, <2>10
<1>5. CASE (Finalized \/ FinalizedDuringDrain) /\ UNCHANGED <<batcherVars, processVars>>
  <2>1. apc = "inflight" /\ finalized' = finalized \cup {Head(page)}
    BY <1>5 DEF Finalized, FinalizedDuringDrain
  <2>2. page \in Seq(Batch) /\ page # <<>>
    BY <2>1 DEF IInv, TypeOK, AnchorTypeOK
  <2>3. Head(page) = page[1] /\ 1 \in DOMAIN page
    BY <2>2
  <2>4. Head(page) \in KnownBatches
    BY <2>3 DEF KnownBatches, Range
  <2> QED BY <1>1, <1>5, <2>1, <2>4, AnchorsOldest DEF batcherVars, processVars
<1>6. CASE ChainStep /\ UNCHANGED <<batcherVars, processVars>>
  <2>1. PICK tx \in limbo : finalized' = finalized \cup {tx}
    BY <1>6 DEF ChainStep, LimboFinalized
  <2>2. tx \in KnownBatches
    BY <2>1 DEF KnownBatches
  <2> QED BY <1>1, <1>6, <2>1, <2>2, AnchorsOldest DEF batcherVars, processVars
<1>7. \/ UNCHANGED <<accepted, finalized, dropped>>
      \/ \E envelope \in Envelope : Deliver(envelope)
      \/ Commit /\ UNCHANGED <<anchorVars, processVars>>
      \/ (Finalized \/ FinalizedDuringDrain) /\ UNCHANGED <<batcherVars, processVars>>
      \/ ChainStep /\ UNCHANGED <<batcherVars, processVars>>
  <2>1. CASE BatcherStep /\ UNCHANGED <<anchorVars, processVars>>
    <3>1. Commit \/ UNCHANGED dropped
      BY <2>1 DEF BatcherStep, ScanIdle, ScanWait, ScanSelect, PackFits, PackReject,
                  PackSplit, StepFails, Woken, TimerFires, BeginFlushAll, BeginPass
    <3> QED BY <2>1, <3>1 DEF anchorVars, processVars
  <2>2. CASE AnchorStep /\ UNCHANGED <<batcherVars, processVars>>
    <3>1. Finalized \/ FinalizedDuringDrain \/ UNCHANGED finalized
      BY <2>2 DEF AnchorStep, Connected, PermanentFailure, Load, Notified, Poll,
                  Submit, TransientFailure, Confirm, StopBetween,
                  DrainExpiresSubmit, DrainExpiresConfirm
    <3> QED BY <2>2, <3>1 DEF batcherVars, processVars
  <2>3. CASE \/ PipelineStops \/ Shutdown \/ Exit \/ Crash
             \/ \E configured \in Compression : Start(configured)
             \/ \E i \in DOMAIN pending :
                   Age(i) /\ UNCHANGED <<anchorVars, processVars>>
             \/ UNCHANGED vars
    BY <2>3 DEF PipelineStops, Shutdown, Exit, Crash, Start, StartBatcher, Age, vars,
                ProcessEnds, batcherVars, anchorVars, processVars
  <2> QED BY <2>1, <2>2, <2>3 DEF Next
<1> QED BY <1>2, <1>3, <1>4, <1>5, <1>6, <1>7

\* The durable path implements the abstract queue: messages are accepted in
\* order, reach the chain for the first time in order and only once accepted,
\* and are given up only if they cannot be batched.
THEOREM Refinement == Spec => KeepsPromise
<1>1. Init => Promise!Init
  BY DEF Init, AnchorOff, BatcherOff, Promise!Init, AnchoredSet
<1>2. OrderInv /\ [Next]_vars => [Promise!Next]_(Promise!vars)
  BY PromiseStep
<1> QED BY <1>1, <1>2, OrderInvariance, PTL DEF Spec, KeepsPromise, Promise!Spec
============================================================================
