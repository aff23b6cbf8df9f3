------------------------ MODULE EdgeAnchoringProofs ------------------------
(***************************************************************************)
(* Lemmas about the operators the durable path is built from; every        *)
(* variable keeps its type; IInv is inductive, and what follows from it:   *)
(* the durable anchoring path keeps its safety properties for every set of *)
(* envelopes, every encoding, every limit and any number of messages,      *)
(* crashes and restarts.                                                   *)
(***************************************************************************)
EXTENDS EdgeAnchoring, SequenceTheorems, TLAPS

-----------------------------------------------------------------------------
(***************************************************************************)
(* What the store hands out.                                               *)
(***************************************************************************)
\* A page of pending_messages is a sequence of rows of the pending table.
LEMMA PendingPage ==
    ASSUME StoreTypeOK, NEW limit \in Nat, NEW p \in PendingMessages(limit)
    PROVE  /\ p \in Seq(Message)
           /\ Range(p) \subseteq PendingSet
<1>1. PICK q \in BoundedSeq(DOMAIN pending, limit) :
          p = [i \in DOMAIN q |-> StoredMessage(q[i])]
  BY DEF PendingMessages
<1>2. PICK n \in 0..limit : q \in [1..n -> DOMAIN pending]
  BY <1>1 DEF BoundedSeq, SeqOf
<1>3. \A i \in 1..n : StoredMessage(q[i]) \in Message \cap PendingSet
  BY <1>2 DEF StoredMessage, Message, PendingSet, StoreTypeOK
<1>4. p = [i \in 1..n |-> StoredMessage(q[i])]
  BY <1>1, <1>2
<1>5. p \in Seq(Message)
  BY <1>3, <1>4
<1> QED BY <1>3, <1>4, <1>5 DEF Range

\* A page of ready_batches is a sequence of rows of the ready table, oldest
\* first, that leaves out only younger ones.
LEMMA ReadyBatchPage ==
    ASSUME StoreTypeOK, NEW limit \in Nat, NEW p \in ReadyBatches(limit)
    PROVE  /\ p \in Seq(Batch)
           /\ Range(p) \subseteq {StoredBatch(id) : id \in DOMAIN ready}
           /\ \A i \in DOMAIN p :
                 p[i].id \in DOMAIN ready /\ ready[p[i].id] = p[i].payload
           /\ \A i, j \in DOMAIN p : i < j => p[i].id < p[j].id
           /\ \A id \in DOMAIN ready :
                 \/ \E i \in DOMAIN p : p[i].id = id
                 \/ \A i \in DOMAIN p : p[i].id < id
<1>1. PICK q \in BoundedSeq(DOMAIN ready, limit) :
          /\ OldestFirst(q, DOMAIN ready, limit)
          /\ p = [i \in DOMAIN q |-> StoredBatch(q[i])]
  BY DEF ReadyBatches
<1>2. PICK n \in 0..limit : q \in [1..n -> DOMAIN ready]
  BY <1>1 DEF BoundedSeq, SeqOf
<1>3. \A i \in 1..n : StoredBatch(q[i]) \in Batch
  BY <1>2 DEF StoredBatch, Batch, StoreTypeOK
<1>4. p = [i \in 1..n |-> StoredBatch(q[i])]
  BY <1>1, <1>2
<1>5. p \in Seq(Batch) /\ DOMAIN p = 1..n
  BY <1>3, <1>4
<1>6. \A i \in 1..n : p[i].id = q[i] /\ p[i].payload = ready[q[i]]
  BY <1>4 DEF StoredBatch
<1>7. \A id \in DOMAIN ready :
          (\E i \in 1..n : q[i] = id) \/ (\A i \in 1..n : q[i] < id)
  BY <1>1, <1>2 DEF OldestFirst, Range
<1>8. \A i, j \in 1..n : i < j => q[i] < q[j]
  BY <1>1, <1>2 DEF OldestFirst
<1>9. Range(p) \subseteq {StoredBatch(id) : id \in DOMAIN ready}
  BY <1>2, <1>4 DEF Range
<1> QED BY <1>2, <1>5, <1>6, <1>7, <1>8, <1>9

\* InOrder arranges exactly the messages it is given.
LEMMA InOrderProperties ==
    ASSUME NEW S \in SUBSET Message, NEW s \in InOrder(S)
    PROVE  s \in Seq(Message) /\ Range(s) = S
<1>1. PICK n \in 0..Cardinality(S) : s \in [1..n -> S]
  BY DEF InOrder, BoundedSeq, SeqOf
<1>2. n \in Nat
  BY <1>1
<1> QED BY <1>1, <1>2 DEF InOrder

\* Where pack_into cuts a batch that is too large.
LEMMA HalfOf ==
    ASSUME NEW n \in Nat
    PROVE  n \div 2 \in 0..n
OBVIOUS

\* split_at keeps every message, in the left part or in the right one.
LEMMA SplitProperties ==
    ASSUME NEW S, NEW s \in Seq(S), NEW mid \in 0..Len(s)
    PROVE  /\ SubSeq(s, 1, mid) \in Seq(S)
           /\ SubSeq(s, mid + 1, Len(s)) \in Seq(S)
           /\ Range(s) \subseteq Range(SubSeq(s, 1, mid))
                                \cup Range(SubSeq(s, mid + 1, Len(s)))
<1> DEFINE left  == SubSeq(s, 1, mid)
           right == SubSeq(s, mid + 1, Len(s))
<1>1. left \in Seq(S) /\ right \in Seq(S)
  OBVIOUS
<1>2. ASSUME NEW i \in 1..Len(s)
      PROVE  s[i] \in Range(left) \cup Range(right)
  <2>1. CASE i <= mid
    <3>1. i \in DOMAIN left /\ left[i] = s[i]
      BY <2>1
    <3> QED BY <3>1 DEF Range
  <2>2. CASE i > mid
    <3>1. i - mid \in DOMAIN right /\ right[i - mid] = s[i]
      BY <2>2
    <3> QED BY <3>1 DEF Range
  <2> QED BY <2>1, <2>2
<1> QED BY <1>1, <1>2 DEF Range

\* Two calls on top of the stack of pack_into calls.
LEMMA TwoInFront ==
    ASSUME NEW S, NEW a \in S, NEW b \in S, NEW t \in Seq(S)
    PROVE  /\ <<a, b>> \o t \in Seq(S)
           /\ Len(<<a, b>> \o t) = Len(t) + 2
           /\ (<<a, b>> \o t)[1] = a
           /\ (<<a, b>> \o t)[2] = b
           /\ \A i \in 1..Len(t) : (<<a, b>> \o t)[i + 2] = t[i]
OBVIOUS

-----------------------------------------------------------------------------
(***************************************************************************)
(* Type correctness.                                                       *)
(***************************************************************************)
USE DEF StoreTypeOK, SignalsTypeOK, BatcherTypeOK, AnchorTypeOK, TypeOK

\* The steps of the batcher that write nothing to the store.
LEMMA BatcherLocalTypes ==
    ASSUME TypeOK, UNCHANGED <<anchorVars, processVars>>,
           \/ ScanIdle \/ ScanWait \/ ScanSelect \/ PackFits \/ PackReject
           \/ PackSplit \/ StepFails \/ Woken \/ TimerFires \/ BeginFlushAll
    PROVE  TypeOK'
<1> USE DEF storeVars, signalVars, anchorVars, processVars
<1>1. CASE ScanIdle \/ ScanWait \/ StepFails
  <2>1. EndPass /\ UNCHANGED <<storeVars, signalVars, compression, force, aged,
                              dropped>>
    BY <1>1 DEF ScanIdle, ScanWait, StepFails
  <2>2. bpc' \in {"sleep", "stopped"}
    BY <2>1 DEF EndPass
  <2> QED BY <2>1, <2>2 DEF EndPass, LeaveStep
<1>2. CASE Woken \/ TimerFires \/ BeginFlushAll
  <2>1. BeginPass /\ shutdown' \in BOOLEAN /\ wakeNotify' \in BOOLEAN
          /\ readyNotify' \in BOOLEAN /\ force' \in BOOLEAN
    BY <1>2 DEF Woken, TimerFires, BeginFlushAll
  <2> QED BY <2>1 DEF BeginPass
<1>3. CASE ScanSelect
  <2>1. PICK p \in PendingMessages(MaxMessages), len \in 1..MaxMessages :
            len <= Len(p) /\ candidate' = SubSeq(p, 1, len)
    BY <1>3 DEF ScanSelect
  <2>2. p \in Seq(Message)
    BY <2>1, PendingPage, BatcherConstants
  <2>3. candidate' \in Seq(Message)
    BY <2>1, <2>2, BatcherConstants
  <2>4. Range(candidate') \in SUBSET Message
    BY <2>3 DEF Range
  <2>5. rejected' \in SUBSET Message
    BY <1>3, <2>4 DEF ScanSelect
  <2>6. work' \in Seq(Seq(Message))
    <3>1. \A d \in InOrder(Range(candidate') \ rejected') : d \in Seq(Message)
      BY <2>4, InOrderProperties
    <3> QED BY <1>3, <3>1 DEF ScanSelect
  <2> QED BY <1>3, <2>3, <2>5, <2>6, SMTT(40) DEF ScanSelect
<1>4. CASE PackFits
  <2>1. Head(work) \in Seq(Message) /\ Tail(work) \in Seq(Seq(Message))
    BY <1>4 DEF PackFits
  <2>2. prepared' \in Seq(Payload)
    BY <1>4, <2>1 DEF PackFits, Encode, Payload
  <2> QED BY <1>4, <2>1, <2>2 DEF PackFits
<1>5. CASE PackReject
  <2>1. Head(work) \in Seq(Message) /\ Tail(work) \in Seq(Seq(Message))
    BY <1>5 DEF PackReject
  <2>2. Head(work)[1] \in Message
    BY <1>5, <2>1 DEF PackReject
  <2> QED BY <1>5, <2>1, <2>2, SMTT(40) DEF PackReject
<1>6. CASE PackSplit
  <2>1. Head(work) \in Seq(Message) /\ Tail(work) \in Seq(Seq(Message))
    BY <1>6 DEF PackSplit
  <2>2. Len(Head(work)) \div 2 \in 0..Len(Head(work))
    <3>1. Len(Head(work)) \in Nat
      BY <2>1
    <3> HIDE DEF TypeOK
    <3> QED BY ONLY <3>1, HalfOf
  <2>3. PICK mid \in 0..Len(Head(work)) :
            work' = SplitAt(Head(work), mid) \o Tail(work)
    BY <1>6, <2>2 DEF PackSplit
  <2>4. /\ SubSeq(Head(work), 1, mid) \in Seq(Message)
        /\ SubSeq(Head(work), mid + 1, Len(Head(work))) \in Seq(Message)
    BY <2>1, SplitProperties
  <2>5. work' \in Seq(Seq(Message))
    BY <2>1, <2>3, <2>4, TwoInFront DEF SplitAt
  <2> QED BY <1>6, <2>5, ZenonT(40) DEF PackSplit
<1> QED BY <1>1, <1>2, <1>3, <1>4, <1>5, <1>6

\* commit_batches appends the prepared payloads under the fresh ids.
LEMMA CommitTypes ==
    ASSUME TypeOK, Commit, UNCHANGED <<anchorVars, processVars>>
    PROVE  TypeOK'
<1> USE DEF storeVars, signalVars, anchorVars, processVars
<1> DEFINE consumed == {m.sequence : m \in Range(candidate)}
<1>1. CASE AllPending(consumed)
  <2>1. CommitBatches(consumed, prepared) /\ LeaveStep
    BY <1>1 DEF Commit
  <2>2. /\ bpc' = "scan"
        /\ now' = now
        /\ dropped' = dropped \cup rejected
        /\ aged' = aged \ consumed
        /\ readyNotify' = (readyNotify \/ prepared # <<>>)
        /\ UNCHANGED <<shutdown, wakeNotify, compression, force>>
    BY <1>1 DEF Commit
  <2>3. readyNotify' \in BOOLEAN
    BY <2>2
  <2>4. /\ DOMAIN pending' \in SUBSET Nat
        /\ pending' \in [DOMAIN pending' -> Envelope]
    BY <2>1 DEF CommitBatches, Delete, Restrict
  <2>5. /\ DOMAIN ready' \in SUBSET Nat
        /\ ready' \in [DOMAIN ready' -> Payload]
    <3>1. Len(prepared) \in Nat /\ FreshIds(Len(prepared)) \subseteq Nat
      BY DEF FreshIds
    <3>2. \A id \in FreshIds(Len(prepared)) :
              prepared[id - nextBatchId + 1] \in Payload
      BY <3>1 DEF FreshIds
    <3> QED BY <2>1, <3>1, <3>2 DEF CommitBatches
  <2>6. nextBatchId' \in Nat /\ nextSequence' \in Nat /\ format' = format
    BY <2>1 DEF CommitBatches
  <2> QED BY <2>1, <2>2, <2>3, <2>4, <2>5, <2>6 DEF LeaveStep
<1>2. CASE ~AllPending(consumed)
  <2>1. EndPass /\ UNCHANGED <<storeVars, signalVars, compression, force, aged,
                              dropped>>
    BY <1>2 DEF Commit
  <2>2. bpc' \in {"sleep", "stopped"}
    BY <2>1 DEF EndPass
  <2> QED BY <2>1, <2>2 DEF EndPass, LeaveStep
<1> QED BY <1>1, <1>2

\* The pipeline, the clock, the operator and the end of the process.
LEMMA ProcessTypes ==
    ASSUME TypeOK,
           \/ \E envelope \in Envelope : Deliver(envelope)
           \/ \E i \in DOMAIN pending :
                 Age(i) /\ UNCHANGED <<anchorVars, processVars>>
           \/ PipelineStops
           \/ Shutdown
           \/ \E configured \in Compression : Start(configured)
           \/ Exit
           \/ Crash
    PROVE  TypeOK'
<1> USE DEF storeVars, signalVars, batcherVars, anchorVars, processVars
<1>1. ASSUME NEW envelope \in Envelope, Deliver(envelope)
      PROVE  TypeOK'
  <2>1. /\ DOMAIN pending' \in SUBSET Nat
        /\ pending' \in [DOMAIN pending' -> Envelope]
        /\ nextSequence' \in Nat
        /\ UNCHANGED <<ready, nextBatchId, format>>
    BY <1>1 DEF Deliver, SinkDeliver, PushMessage, Insert
  <2>2. accepted' \in SUBSET Message
    BY <1>1 DEF Deliver, Message
  <2> QED BY <1>1, <2>1, <2>2 DEF Deliver, SinkDeliver
<1>2. ASSUME NEW i \in DOMAIN pending, Age(i),
             UNCHANGED <<anchorVars, processVars>>
      PROVE  TypeOK'
  BY <1>2 DEF Age
<1>3. CASE PipelineStops
  BY <1>3, ZenonT(40) DEF PipelineStops
<1>4. CASE Shutdown
  BY <1>4 DEF Shutdown, Trigger
<1>5. ASSUME NEW configured \in Compression, Start(configured)
      PROVE  TypeOK'
  BY <1>5 DEF Start, StartBatcher, ReconcileFormat, SetFormatDescriptor
<1>6. CASE Exit \/ Crash
  <2>1. ProcessEnds
    BY <1>6 DEF Exit, Crash
  <2>2. limbo' \in SUBSET Batch
    <3>1. CASE UNCHANGED limbo
      BY <3>1
    <3>2. CASE apc = "inflight" /\ AbandonTransaction
      BY <3>2 DEF AbandonTransaction
    <3> QED BY <1>6, <3>1, <3>2 DEF Exit, Crash
  <2>3. /\ shutdown' = FALSE /\ wakeNotify' = FALSE /\ readyNotify' = FALSE
        /\ force' = FALSE /\ up' = FALSE /\ pipeline' = FALSE
    BY <2>1 DEF ProcessEnds, SignalsReset
  <2>4. StoreTypeOK' /\ SignalsTypeOK'
    BY <2>1, <2>3 DEF ProcessEnds
  <2>5. BatcherTypeOK'
    <3>1. force' \in BOOLEAN
      BY <2>3
    <3>2. /\ candidate' \in Seq(Message) /\ work' \in Seq(Seq(Message))
          /\ prepared' \in Seq(Payload) /\ rejected' \in SUBSET Message
      BY <2>1 DEF ProcessEnds, LeaveStep
    <3>3. /\ bpc' = "stopped" /\ now' = {}
          /\ UNCHANGED <<compression, aged, dropped>>
      BY <2>1 DEF ProcessEnds
    <3> QED BY <3>1, <3>2, <3>3
  <2>6. AnchorTypeOK'
    BY <2>1, <2>2 DEF ProcessEnds
  <2> QED BY <2>1, <2>3, <2>4, <2>5, <2>6 DEF ProcessEnds
<1> QED BY <1>1, <1>2, <1>3, <1>4, <1>5, <1>6

\* The steps of the anchor and of the chain.
LEMMA AnchorTypes ==
    ASSUME TypeOK, AnchorStep \/ ChainStep,
           UNCHANGED <<batcherVars, processVars>>
    PROVE  TypeOK'
<1> USE DEF storeVars, signalVars, batcherVars, processVars
<1>1. CASE Load
  <2>1. PICK batches \in ReadyBatches(ReadyPage) :
            /\ page' = batches
            /\ apc' = IF batches = <<>> THEN "idle" ELSE "submit"
    BY <1>1 DEF Load
  <2>2. page' \in Seq(Batch)
    BY <2>1, ReadyBatchPage, AnchorConstants
  <2> QED BY <1>1, <2>1, <2>2 DEF Load
<1>2. CASE Confirm
  <2>1. page # <<>>
    BY <1>2 DEF Confirm
  <2>2. Tail(page) \in Seq(Batch)
    BY <2>1
  <2>3. /\ DOMAIN ready' \in SUBSET Nat
        /\ ready' \in [DOMAIN ready' -> Payload]
        /\ UNCHANGED <<pending, nextSequence, nextBatchId, format>>
    BY <1>2 DEF Confirm, ConfirmBatch, Delete, Restrict
  <2>4. apc' \in {"load", "submit"} /\ (apc' = "submit" => page' # <<>>)
    BY <1>2 DEF Confirm
  <2> QED BY <1>2, <2>2, <2>3, <2>4, SMTT(40) DEF Confirm
<1>3. CASE DrainExpiresConfirm
  <2>1. /\ DOMAIN ready' \in SUBSET Nat
        /\ ready' \in [DOMAIN ready' -> Payload]
        /\ UNCHANGED <<pending, nextSequence, nextBatchId, format>>
    BY <1>3 DEF DrainExpiresConfirm, ConfirmBatch, Delete, Restrict
  <2> QED BY <1>3, <2>1 DEF DrainExpiresConfirm
<1>4. CASE \/ Finalized \/ FinalizedDuringDrain
         \/ TransientFailure \/ DrainExpiresSubmit
  <2>1. page # <<>> /\ Head(page) \in Batch
    BY <1>4 DEF Finalized, FinalizedDuringDrain, TransientFailure,
                DrainExpiresSubmit
  <2>2. finalized' \in SUBSET Batch /\ limbo' \in SUBSET Batch
    BY <1>4, <2>1 DEF Finalized, FinalizedDuringDrain, TransientFailure,
                      DrainExpiresSubmit, AbandonTransaction
  <2>3. /\ UNCHANGED <<storeVars, signalVars>>
        /\ \/ apc' \in {"confirm", "submit"} /\ page' = page
           \/ apc' = "stopped" /\ page' = <<>>
    BY <1>4 DEF Finalized, FinalizedDuringDrain, TransientFailure,
                DrainExpiresSubmit
  <2>4. AnchorTypeOK'
    <3>1. AnchorTypeOK
      OBVIOUS
    <3>2. page' \in Seq(Batch)
      <4>1. page' = page \/ page' = <<>>
        BY <2>3
      <4>2. CASE page' = page
        BY <3>1, <4>1, <4>2
      <4>3. CASE page' = <<>>
        BY <4>1, <4>3
      <4> QED BY <4>1, <4>2, <4>3
    <3>3. apc' \in {"confirm", "submit", "stopped"}
      BY <2>3
    <3>4. apc' # "stopped" => page' # <<>>
      BY <2>1, <2>3
    <3> QED BY ONLY <2>2, <3>2, <3>3, <3>4
  <2> QED BY <2>3, <2>4
<1>5. CASE Submit \/ Connected \/ PermanentFailure \/ Poll \/ StopBetween
  <2>1. /\ UNCHANGED <<storeVars, signalVars, limbo, finalized>>
        /\ \/ apc' = "inflight" /\ page' = page /\ apc = "submit"
           \/ apc' = "load" /\ page' = page
           \/ apc' \in {"failed", "stopped"} /\ page' = <<>>
    BY <1>5 DEF Submit, Connected, PermanentFailure, Poll, StopBetween
  <2>2. AnchorTypeOK'
    <3>1. AnchorTypeOK
      OBVIOUS
    <3>2. page' \in Seq(Batch) /\ UNCHANGED <<limbo, finalized>>
      <4>1. (page' = page \/ page' = <<>>) /\ UNCHANGED <<limbo, finalized>>
        BY <2>1
      <4>2. CASE page' = page
        BY <3>1, <4>1, <4>2
      <4>3. CASE page' = <<>>
        BY <4>1, <4>3
      <4> QED BY <4>1, <4>2, <4>3
    <3>3. apc' \in {"inflight", "load", "failed", "stopped"}
      BY <2>1
    <3>4. apc' = "inflight" => page' # <<>>
      BY <2>1, <3>1
    <3> QED BY ONLY <3>1, <3>2, <3>3, <3>4
  <2> QED BY <2>1, <2>2
<1>6. CASE Notified
  BY <1>6 DEF Notified
<1>7. CASE ChainStep
  BY <1>7 DEF ChainStep, LimboFinalized
<1> QED BY <1>1, <1>2, <1>3, <1>4, <1>5, <1>6, <1>7 DEF AnchorStep

\* Every step of the path keeps the types.
LEMMA TypeStep ==
    ASSUME TypeOK, [Next]_vars
    PROVE  TypeOK'
<1>1. CASE BatcherStep /\ UNCHANGED <<anchorVars, processVars>>
  BY <1>1, BatcherLocalTypes, CommitTypes DEF BatcherStep
<1>2. CASE (AnchorStep \/ ChainStep) /\ UNCHANGED <<batcherVars, processVars>>
  BY <1>2, AnchorTypes
<1>3. CASE UNCHANGED vars
  BY <1>3 DEF vars, storeVars, signalVars, batcherVars, anchorVars,
              processVars
<1> QED BY <1>1, <1>2, <1>3, ProcessTypes DEF Next

\* The initial state is well typed.
LEMMA TypeInit == Init => TypeOK
<1> SUFFICES ASSUME Init PROVE TypeOK
  OBVIOUS
<1>1. StoreTypeOK
  BY DEF Init, StoreInit
<1>2. SignalsTypeOK /\ force \in BOOLEAN /\ up \in BOOLEAN /\ pipeline \in BOOLEAN
  BY DEF Init, SignalsInit, BatcherOff
<1>3. BatcherTypeOK
  BY <1>2 DEF Init, BatcherOff
<1>4. AnchorTypeOK
  BY DEF Init, AnchorOff
<1> QED BY <1>1, <1>2, <1>3, <1>4 DEF Init

HIDE DEF StoreTypeOK, SignalsTypeOK, BatcherTypeOK, AnchorTypeOK, TypeOK

\* Every variable keeps its type, through every crash and restart.
THEOREM TypeCorrect == Spec => []TypeOK
BY TypeInit, TypeStep, PTL DEF Spec
-----------------------------------------------------------------------------
(***************************************************************************)
(* Frames: what a step keeps because of what it leaves alone.              *)
(***************************************************************************)
\* A step that invents no batch keeps what is said of all batches.
LEMMA KnownShrinks ==
    ASSUME KeysBelowCounters, OnePayloadPerId,
           KnownBatches' \subseteq KnownBatches,
           UNCHANGED <<pending, nextSequence, nextBatchId>>
    PROVE  KeysBelowCounters' /\ OnePayloadPerId'
<1>1. \A b \in KnownBatches' : b.id < nextBatchId'
  BY DEF KeysBelowCounters
<1>2. \A i \in DOMAIN pending' : i < nextSequence'
  BY DEF KeysBelowCounters
<1> QED BY <1>1, <1>2 DEF KeysBelowCounters, OnePayloadPerId

\* A step that leaves the store, the chain and the anchor alone keeps what is
\* said of them.
LEMMA BatcherFrame ==
    ASSUME IInv, TypeOK',
           UNCHANGED <<storeVars, anchorVars, processVars, compression,
                       dropped>>,
           TasksNeedProcess', CandidateStaysPending', PackCoversCandidate',
           PreparedAsConfigured'
    PROVE  IInv'
<1> USE DEF IInv, storeVars, anchorVars, processVars
<1>1. KnownBatches' = KnownBatches
  BY DEF KnownBatches, StoredBatch
<1>2. KeysBelowCounters' /\ OnePayloadPerId'
  BY <1>1, KnownShrinks
<1>3. PageIsOldestReady' /\ ConfirmAfterFinalized' /\ LimboInOrder'
  BY DEF PageIsOldestReady, ConfirmAfterFinalized, LimboInOrder
<1>4. NothingLost'
  BY DEF NothingLost, PendingSet, ReadySet, AnchoredSet, StoredMessage
<1>5. ConfirmedIsAnchored' /\ FirstAnchoredInOrder' /\ FormatDescribesReady'
  BY DEF ConfirmedIsAnchored, FirstAnchoredInOrder, FormatDescribesReady
<1> QED BY <1>2, <1>3, <1>4, <1>5

\* A step that leaves the batcher and the pending messages alone keeps what
\* is said of them.
LEMMA AnchorFrame ==
    ASSUME IInv, UNCHANGED <<batcherVars, pending>>
    PROVE  CandidateStaysPending' /\ PackCoversCandidate'
           /\ PreparedAsConfigured'
BY DEF IInv, batcherVars, CandidateStaysPending, PackCoversCandidate,
       PreparedAsConfigured, PendingSet, StoredMessage

\* Every batch that exists has an id.
LEMMA KnownIds ==
    ASSUME TypeOK
    PROVE  /\ \A b \in KnownBatches : b.id \in Nat
           /\ \A i \in DOMAIN page : page[i] \in KnownBatches
           /\ \A id \in DOMAIN ready :
                 StoredBatch(id) \in KnownBatches /\ StoredBatch(id).id = id
<1>1. \A i \in DOMAIN page : page[i] \in Batch
  BY DEF TypeOK, AnchorTypeOK
<1>2. \A b \in Batch : b.id \in Nat
  BY DEF Batch
<1>3. limbo \subseteq Batch /\ finalized \subseteq Batch
  BY DEF TypeOK, AnchorTypeOK
<1>4. \A id \in DOMAIN ready : StoredBatch(id).id = id /\ id \in Nat
  BY DEF StoredBatch, TypeOK, StoreTypeOK
<1> QED BY <1>1, <1>2, <1>3, <1>4 DEF KnownBatches, Range

\* Everything older than the batch the anchor works on is on chain.
LEMMA EarlierAnchored ==
    ASSUME IInv, page # <<>>
    PROVE  \A id \in 0 .. page[1].id - 1 :
              \E earlier \in finalized : earlier.id = id
<1> SUFFICES ASSUME NEW id \in 0 .. page[1].id - 1
             PROVE  \E earlier \in finalized : earlier.id = id
  OBVIOUS
<1>1. page \in Seq(Batch) /\ nextBatchId \in Nat
  BY DEF IInv, TypeOK, AnchorTypeOK, StoreTypeOK
<1>2. 1 \in DOMAIN page /\ \A i \in DOMAIN page : page[i] \in Batch
  BY <1>1
<1>3. \A b \in Batch : b.id \in Nat
  BY DEF Batch
<1>4. page[1] \in KnownBatches
  BY <1>2 DEF KnownBatches, Range
<1>5. page[1].id < nextBatchId
  BY <1>4 DEF IInv, KeysBelowCounters
<1>6. id \in 0 .. nextBatchId - 1
  BY <1>1, <1>2, <1>3, <1>5
<1>7. id \notin DOMAIN ready
  <2>1. ASSUME NEW i \in DOMAIN page PROVE page[1].id <= page[i].id
    <3>1. i = 1 \/ 1 < i
      BY <1>1
    <3> QED BY <1>2, <1>3, <3>1 DEF IInv, PageIsOldestReady
  <2> QED BY <1>2, <1>3, <2>1 DEF IInv, PageIsOldestReady
<1> QED BY <1>6, <1>7 DEF IInv, ConfirmedIsAnchored

\* What becomes of a transaction the anchor no longer waits for.
LEMMA Abandoned ==
    ASSUME AbandonTransaction
    PROVE  limbo' = limbo \/ limbo' = limbo \cup {Head(page)}
BY DEF AbandonTransaction

\* A step in which the anchor at most forgets its page, or leaves the
\* transaction it submitted behind, keeps what is said of store and chain.
LEMMA AnchorForgets ==
    ASSUME IInv,
           UNCHANGED <<pending, ready, nextSequence, nextBatchId, finalized,
                       accepted, dropped>>,
           page' = page \/ page' = <<>>,
           limbo' = limbo \/ (page # <<>> /\ limbo' = limbo \cup {Head(page)}),
           apc' # "confirm"
    PROVE  /\ KeysBelowCounters' /\ OnePayloadPerId'
           /\ PageIsOldestReady' /\ ConfirmAfterFinalized' /\ LimboInOrder'
           /\ NothingLost' /\ ConfirmedIsAnchored' /\ FirstAnchoredInOrder'
<1> USE DEF IInv
<1>1. page \in Seq(Batch)
  BY DEF TypeOK, AnchorTypeOK
<1>2. limbo' \subseteq limbo \cup Range(page)
  BY <1>1 DEF Range
<1>3. KnownBatches' \subseteq KnownBatches
  <2>1. Range(page') \subseteq Range(page)
    BY DEF Range
  <2>2. {StoredBatch(id) : id \in DOMAIN ready}'
          = {StoredBatch(id) : id \in DOMAIN ready}
    BY DEF StoredBatch
  <2> QED BY <1>2, <2>1, <2>2 DEF KnownBatches
<1>4. KeysBelowCounters' /\ OnePayloadPerId'
  BY <1>3, KnownShrinks
<1>5. PageIsOldestReady'
  <2>1. CASE page' = page
    BY <2>1 DEF PageIsOldestReady
  <2>2. CASE page' = <<>>
    BY <2>2 DEF PageIsOldestReady
  <2> QED BY <2>1, <2>2
<1>6. ConfirmAfterFinalized'
  BY DEF ConfirmAfterFinalized
<1>7. LimboInOrder'
  <2>1. CASE limbo' = limbo
    BY <2>1 DEF LimboInOrder
  <2>2. CASE page # <<>> /\ limbo' = limbo \cup {Head(page)}
    <3>1. Head(page) = page[1]
      BY <1>1, <2>2
    <3> QED BY <2>2, <3>1, EarlierAnchored DEF LimboInOrder
  <2> QED BY <2>1, <2>2
<1>8. NothingLost'
  BY DEF NothingLost, PendingSet, ReadySet, AnchoredSet, StoredMessage
<1>9. ConfirmedIsAnchored' /\ FirstAnchoredInOrder'
  BY DEF ConfirmedIsAnchored, FirstAnchoredInOrder
<1> QED BY <1>4, <1>5, <1>6, <1>7, <1>8, <1>9

-----------------------------------------------------------------------------
(***************************************************************************)
(* The batcher.                                                            *)
(***************************************************************************)
\* A step that ends or begins a pass holds no candidate any more, or the
\* one it held.
LEMMA BatcherPassStep ==
    ASSUME IInv, TypeOK', UNCHANGED <<anchorVars, processVars>>,
           \/ ScanIdle \/ ScanWait \/ StepFails
           \/ Woken \/ TimerFires \/ BeginFlushAll
    PROVE  IInv'
<1> USE DEF IInv
<1>1. /\ UNCHANGED <<storeVars, compression, dropped>>
      /\ bpc # "stopped" /\ bpc' # "pack"
      /\ candidate' = <<>> \/ candidate' = candidate
  BY DEF ScanIdle, ScanWait, StepFails, Woken, TimerFires, BeginFlushAll,
         EndPass, LeaveStep, BeginPass
<1>2. TasksNeedProcess'
  BY <1>1 DEF TasksNeedProcess, processVars
<1>3. CandidateStaysPending'
  <2>1. Range(candidate') \subseteq Range(candidate)
    BY <1>1 DEF Range
  <2>2. PendingSet' = PendingSet
    BY <1>1 DEF PendingSet, StoredMessage, storeVars
  <2> QED BY <2>1, <2>2 DEF CandidateStaysPending
<1>4. PackCoversCandidate' /\ PreparedAsConfigured'
  BY <1>1 DEF PackCoversCandidate, PreparedAsConfigured
<1> QED BY <1>1, <1>2, <1>3, <1>4, BatcherFrame

\* The candidate is a run of stored messages, and each of them is rejected
\* at once or handed to pack.
LEMMA ScanSelectStep ==
    ASSUME IInv, TypeOK', UNCHANGED <<anchorVars, processVars>>, ScanSelect
    PROVE  IInv'
<1> USE DEF IInv
<1>1. /\ UNCHANGED <<storeVars, compression, dropped>>
      /\ bpc = "scan" /\ prepared' = <<>>
      /\ rejected' = {m \in Range(candidate') : m.envelope \notin Decodable}
  BY DEF ScanSelect
<1>2. candidate' \in Seq(Message) /\ StoreTypeOK
  BY DEF TypeOK, BatcherTypeOK
<1>3. TasksNeedProcess'
  BY <1>1 DEF TasksNeedProcess, processVars
<1>4. CandidateStaysPending'
  <2>1. PICK p \in PendingMessages(MaxMessages), len \in 1..MaxMessages :
            len <= Len(p) /\ candidate' = SubSeq(p, 1, len)
    BY DEF ScanSelect
  <2>2. p \in Seq(Message) /\ Range(p) \subseteq PendingSet
    BY <1>2, PendingPage, BatcherConstants
  <2>3. Range(candidate') \subseteq Range(p)
    <3>1. len \in Nat /\ len <= Len(p)
      BY <2>1, BatcherConstants
    <3>2. \A i \in 1..len : SubSeq(p, 1, len)[i] = p[i] /\ i \in DOMAIN p
      BY <2>2, <3>1
    <3>3. DOMAIN SubSeq(p, 1, len) = 1..len
      BY <2>2, <3>1
    <3> QED BY <2>1, <3>2, <3>3 DEF Range
  <2>4. PendingSet' = PendingSet
    BY <1>1 DEF PendingSet, StoredMessage, storeVars
  <2> QED BY <2>2, <2>3, <2>4 DEF CandidateStaysPending
<1>5. PackCoversCandidate'
  <2> SUFFICES ASSUME NEW m \in Range(candidate'), m \notin rejected'
               PROVE  \E i \in DOMAIN work' : m \in Range(work'[i])
    BY DEF PackCoversCandidate
  <2>1. PICK decoded \in InOrder(Range(candidate') \ rejected') :
            work' = IF decoded = <<>> THEN <<>> ELSE <<decoded>>
    BY DEF ScanSelect
  <2>2. Range(candidate') \ rejected' \in SUBSET Message
    BY <1>2 DEF Range
  <2>3. Range(decoded) = Range(candidate') \ rejected'
    BY <2>1, <2>2, InOrderProperties
  <2>4. decoded # <<>>
    BY <2>3 DEF Range
  <2>5. 1 \in DOMAIN work' /\ work'[1] = decoded
    BY <2>1, <2>4
  <2> QED BY <2>3, <2>5
<1>6. PreparedAsConfigured'
  BY <1>1 DEF PreparedAsConfigured
<1> QED BY <1>1, <1>3, <1>4, <1>5, <1>6, BatcherFrame

\* The pack_into calls move messages from the stack to the prepared batches
\* or to the rejected messages.
LEMMA PackStep ==
    ASSUME IInv, TypeOK', UNCHANGED <<anchorVars, processVars>>,
           PackFits \/ PackReject \/ PackSplit
    PROVE  IInv'
<1> USE DEF IInv
<1>1. /\ UNCHANGED <<storeVars, compression, dropped, candidate, bpc>>
      /\ bpc = "pack" /\ work # <<>>
  BY DEF PackFits, PackReject, PackSplit
<1>2. /\ work \in Seq(Seq(Message)) /\ prepared \in Seq(Payload)
      /\ candidate \in Seq(Message)
  BY DEF TypeOK, BatcherTypeOK
<1>3. TasksNeedProcess'
  BY <1>1 DEF TasksNeedProcess, processVars, anchorVars
<1>4. CandidateStaysPending'
  BY <1>1 DEF CandidateStaysPending, PendingSet, StoredMessage, storeVars
<1>5. Head(work) \in Seq(Message) /\ Tail(work) \in Seq(Seq(Message))
  BY <1>1, <1>2
<1>6. \A i \in DOMAIN work :
         work[i] = Head(work) \/ \E k \in DOMAIN Tail(work) : work[i] = Tail(work)[k]
  <2> TAKE i \in DOMAIN work
  <2>1. CASE i = 1
    BY <1>1, <1>2, <2>1
  <2>2. CASE i # 1
    <3>1. i - 1 \in DOMAIN Tail(work) /\ work[i] = Tail(work)[i - 1]
      BY <1>1, <1>2, <2>2
    <3> QED BY <3>1
  <2> QED BY <2>1, <2>2
<1>7. CASE PackFits
  <2> DEFINE fresh == Encode(compression, Head(work))
  <2>1. prepared' = Append(prepared, fresh) /\ work' = Tail(work)
          /\ rejected' = rejected
    BY <1>7 DEF PackFits
  <2>2. fresh \in Payload /\ fresh.compression = compression
          /\ MessagesOf(fresh) = Range(Head(work))
    BY <1>5 DEF Encode, Payload, MessagesOf, TypeOK, BatcherTypeOK
  <2> HIDE DEF fresh
  <2>3. /\ Len(prepared) + 1 \in DOMAIN prepared'
        /\ prepared'[Len(prepared) + 1] = fresh
        /\ \A i \in DOMAIN prepared :
              i \in DOMAIN prepared' /\ prepared'[i] = prepared[i]
        /\ \A i \in DOMAIN prepared' :
              i \in DOMAIN prepared \/ prepared'[i] = fresh
    BY <1>2, <2>1, <2>2
  <2>4. PackCoversCandidate'
    <3> SUFFICES ASSUME NEW m \in Range(candidate), m \notin rejected
                 PROVE  \/ \E i \in DOMAIN work' : m \in Range(work'[i])
                        \/ \E i \in DOMAIN prepared' :
                              m \in MessagesOf(prepared'[i])
      BY <1>1, <2>1 DEF PackCoversCandidate, MessagesOf
    <3>1. CASE \E i \in DOMAIN work : m \in Range(work[i])
      BY <1>6, <2>1, <2>2, <2>3, <3>1
    <3>2. CASE \E i \in DOMAIN prepared : m \in MessagesOf(prepared[i])
      BY <2>3, <3>2
    <3> QED BY <1>1, <3>1, <3>2 DEF PackCoversCandidate
  <2>5. PreparedAsConfigured'
    BY <1>1, <2>2, <2>3 DEF PreparedAsConfigured
  <2> QED BY <1>1, <1>3, <1>4, <2>4, <2>5, BatcherFrame
<1>8. CASE PackReject
  <2>1. prepared' = prepared /\ work' = Tail(work) /\ Len(Head(work)) = 1
          /\ rejected' = rejected \cup {Head(work)[1]}
    BY <1>8 DEF PackReject
  <2>2. Range(Head(work)) = {Head(work)[1]}
    BY <1>5, <2>1 DEF Range
  <2>3. PackCoversCandidate'
    <3> SUFFICES ASSUME NEW m \in Range(candidate)
                 PROVE  \/ m \in rejected'
                        \/ \E i \in DOMAIN work' : m \in Range(work'[i])
                        \/ \E i \in DOMAIN prepared :
                              m \in MessagesOf(prepared[i])
      BY <1>1, <2>1 DEF PackCoversCandidate, MessagesOf
    <3>1. CASE \E i \in DOMAIN work : m \in Range(work[i])
      BY <1>6, <2>1, <2>2, <3>1
    <3> QED BY <1>1, <2>1, <3>1 DEF PackCoversCandidate
  <2>4. PreparedAsConfigured'
    BY <1>1, <2>1 DEF PreparedAsConfigured
  <2> QED BY <1>1, <1>3, <1>4, <2>3, <2>4, BatcherFrame
<1>9. CASE PackSplit
  <2>1. prepared' = prepared /\ rejected' = rejected
    BY <1>9 DEF PackSplit
  <2>2. Len(Head(work)) \div 2 \in 0..Len(Head(work))
    <3>1. Len(Head(work)) \in Nat
      BY <1>5
    <3> QED BY ONLY <3>1, HalfOf
  <2>3. PICK mid \in 0..Len(Head(work)) :
            work' = SplitAt(Head(work), mid) \o Tail(work)
    BY <1>9, <2>2 DEF PackSplit
  <2> DEFINE left  == SubSeq(Head(work), 1, mid)
             right == SubSeq(Head(work), mid + 1, Len(Head(work)))
  <2>4. /\ left \in Seq(Message) /\ right \in Seq(Message)
        /\ Range(Head(work)) \subseteq Range(left) \cup Range(right)
    BY <1>5, SplitProperties
  <2>5. work' = <<left, right>> \o Tail(work)
    BY <2>3 DEF SplitAt
  <2> HIDE DEF left, right
  <2>6. /\ Len(work') = Len(Tail(work)) + 2 /\ work' \in Seq(Seq(Message))
        /\ work'[1] = left /\ work'[2] = right
        /\ \A k \in 1..Len(Tail(work)) : work'[k + 2] = Tail(work)[k]
    BY <1>5, <2>4, <2>5, TwoInFront
  <2>7. \A k \in DOMAIN Tail(work) : k + 2 \in DOMAIN work'
                                     /\ work'[k + 2] = Tail(work)[k]
    <3>1. /\ Len(Tail(work)) \in Nat /\ DOMAIN Tail(work) = 1..Len(Tail(work))
          /\ DOMAIN work' = 1 .. Len(Tail(work)) + 2
      BY <1>5, <2>6
    <3>2. \A k \in 1..Len(Tail(work)) : k + 2 \in 1 .. Len(Tail(work)) + 2
      BY <3>1
    <3> QED BY <2>6, <3>1, <3>2
  <2>8. 1 \in DOMAIN work' /\ 2 \in DOMAIN work'
    BY <1>5, <2>6
  <2>9. PackCoversCandidate'
    <3> SUFFICES ASSUME NEW m \in Range(candidate), m \notin rejected
                 PROVE  \/ \E i \in DOMAIN work' : m \in Range(work'[i])
                        \/ \E i \in DOMAIN prepared :
                              m \in MessagesOf(prepared[i])
      BY <1>1, <2>1 DEF PackCoversCandidate, MessagesOf
    <3>1. ASSUME NEW i \in DOMAIN work, m \in Range(work[i])
          PROVE  \E k \in DOMAIN work' : m \in Range(work'[k])
      <4>1. CASE work[i] = Head(work)
        BY <2>4, <2>6, <2>8, <3>1, <4>1
      <4>2. CASE \E k \in DOMAIN Tail(work) : work[i] = Tail(work)[k]
        BY <2>7, <3>1, <4>2
      <4> QED BY <1>6, <4>1, <4>2
    <3> QED BY <1>1, <3>1 DEF PackCoversCandidate
  <2>10. PreparedAsConfigured'
    BY <1>1, <2>1 DEF PreparedAsConfigured
  <2> QED BY <1>1, <1>3, <1>4, <2>9, <2>10, BatcherFrame
<1> QED BY <1>7, <1>8, <1>9

\* commit_batches: every consumed message is in a new batch or given up, and
\* the new batches come after all others, in the recorded format.
LEMMA CommitStep ==
    ASSUME IInv, TypeOK', UNCHANGED <<anchorVars, processVars>>, Commit
    PROVE  IInv'
<1> USE DEF IInv
<1> DEFINE consumed == {m.sequence : m \in Range(candidate)}
           fresh    == FreshIds(Len(prepared))
<1>1. /\ bpc = "pack" /\ work = <<>>
      /\ UNCHANGED <<compression, force>>
  BY DEF Commit
<1>2. /\ DOMAIN pending \in SUBSET Nat /\ DOMAIN ready \in SUBSET Nat
      /\ nextBatchId \in Nat /\ nextSequence \in Nat
      /\ prepared \in Seq(Payload) /\ page \in Seq(Batch)
      /\ limbo \in SUBSET Batch /\ finalized \in SUBSET Batch
  BY DEF TypeOK, StoreTypeOK, BatcherTypeOK, AnchorTypeOK
<1>3. AllPending(consumed)
  <2>1. \A m \in PendingSet : m.sequence \in DOMAIN pending
    BY DEF PendingSet, StoredMessage
  <2> QED BY <2>1 DEF AllPending, CandidateStaysPending
<1>4. /\ CommitBatches(consumed, prepared)
      /\ dropped' = dropped \cup rejected
      /\ bpc' = "scan" /\ candidate' = <<>>
  BY <1>3 DEF Commit, LeaveStep
<1>5. up
  BY <1>1 DEF TasksNeedProcess
<1>6. /\ \A id \in DOMAIN ready : id < nextBatchId
      /\ \A b \in KnownBatches : b.id < nextBatchId
  BY KnownIds DEF KeysBelowCounters
<1>7. \A id \in fresh : /\ id \in Nat /\ id >= nextBatchId
                        /\ id < nextBatchId + Len(prepared)
                        /\ id - nextBatchId + 1 \in DOMAIN prepared
  <2>1. DOMAIN prepared = 1..Len(prepared) /\ Len(prepared) \in Nat
    BY <1>2
  <2> QED BY <1>2, <2>1 DEF FreshIds
<1>8. \A i \in DOMAIN prepared : /\ nextBatchId + i - 1 \in fresh
                                 /\ (nextBatchId + i - 1) - nextBatchId + 1 = i
  <2>1. DOMAIN prepared = 1..Len(prepared) /\ Len(prepared) \in Nat
    BY <1>2
  <2> QED BY <1>2, <2>1 DEF FreshIds
<1>9. /\ DOMAIN ready' = DOMAIN ready \cup fresh
      /\ \A id \in DOMAIN ready : ready'[id] = ready[id]
      /\ \A id \in fresh : ready'[id] = prepared[id - nextBatchId + 1]
      /\ nextBatchId' = nextBatchId + Len(prepared)
      /\ UNCHANGED <<nextSequence, format>>
  <2>1. \A id \in DOMAIN ready : id \notin fresh
    BY <1>2, <1>6, <1>7
  <2> QED BY <1>4, <2>1 DEF CommitBatches
<1>10. /\ DOMAIN pending' = DOMAIN pending \ consumed
       /\ \A k \in DOMAIN pending' : pending'[k] = pending[k]
  BY <1>4 DEF CommitBatches, Delete, Restrict
<1> HIDE DEF consumed, fresh
<1>11. KnownBatches' \subseteq
          KnownBatches \cup {[id |-> id, payload |-> ready'[id]] : id \in fresh}
  <2>1. \A id \in DOMAIN ready' :
           [id |-> id, payload |-> ready'[id]]
             \in {StoredBatch(k) : k \in DOMAIN ready}
                  \cup {[id |-> k, payload |-> ready'[k]] : k \in fresh}
    BY <1>9 DEF StoredBatch
  <2>2. {StoredBatch(id) : id \in DOMAIN ready}'
          = {[id |-> id, payload |-> ready'[id]] : id \in DOMAIN ready'}
    BY DEF StoredBatch
  <2> DEFINE Old == {StoredBatch(id) : id \in DOMAIN ready}
             New == {[id |-> k, payload |-> ready'[k]] : k \in fresh}
             All == {[id |-> id, payload |-> ready'[id]] : id \in DOMAIN ready'}
  <2>3. All \subseteq Old \cup New
    BY <2>1
  <2>4. KnownBatches = Old \cup Range(page) \cup limbo \cup finalized
    BY DEF KnownBatches
  <2>5. KnownBatches' = All \cup Range(page) \cup limbo \cup finalized
    BY <2>2 DEF KnownBatches, anchorVars
  <2> HIDE DEF Old, New, All
  <2>6. KnownBatches' \subseteq KnownBatches \cup New
    BY <2>3, <2>4, <2>5
  <2> QED BY <2>6 DEF New
<1>12. KeysBelowCounters'
  <2>1. nextBatchId <= nextBatchId'
    BY <1>2, <1>9
  <2>2. \A b \in KnownBatches : b.id \in Nat
    BY KnownIds
  <2>3. \A b \in KnownBatches' : b.id < nextBatchId'
    BY <1>2, <1>6, <1>7, <1>9, <1>11, <2>1, <2>2
  <2>4. \A i \in DOMAIN pending' : i < nextSequence'
    BY <1>9, <1>10 DEF KeysBelowCounters
  <2> QED BY <2>3, <2>4 DEF KeysBelowCounters
<1>13. OnePayloadPerId'
  <2> DEFINE New == {[id |-> id, payload |-> ready'[id]] : id \in fresh}
  <2>1. \A b \in New : b.id >= nextBatchId /\ b.payload = ready'[b.id]
    BY <1>7
  <2>2. \A b \in KnownBatches : b.id \in Nat
    BY KnownIds
  <2>3. \A b \in New, a \in KnownBatches : a.id # b.id
    BY <1>2, <1>6, <1>7, <2>2
  <2> QED BY <1>11, <2>1, <2>3 DEF OnePayloadPerId
<1>14. TasksNeedProcess'
  BY <1>5 DEF TasksNeedProcess, processVars
<1>15. CandidateStaysPending' /\ PackCoversCandidate' /\ PreparedAsConfigured'
  BY <1>4 DEF CandidateStaysPending, PackCoversCandidate, PreparedAsConfigured,
              Range
<1>16. PageIsOldestReady'
  <2>1. \A i \in DOMAIN page : page[i].id < nextBatchId /\ page[i].id \in Nat
    BY <1>6, KnownIds
  <2>2. \A id \in fresh : \A i \in DOMAIN page : page[i].id < id
    BY <1>2, <1>7, <2>1
  <2> QED BY <1>9, <2>2 DEF PageIsOldestReady, anchorVars
<1>17. ConfirmAfterFinalized' /\ LimboInOrder' /\ FirstAnchoredInOrder'
  BY DEF ConfirmAfterFinalized, LimboInOrder, FirstAnchoredInOrder, anchorVars
<1>18. NothingLost'
  <2> SUFFICES ASSUME NEW m \in accepted
               PROVE  m \in (PendingSet \cup ReadySet \cup AnchoredSet
                               \cup dropped)'
    BY DEF NothingLost, processVars
  <2>1. CASE m \in PendingSet /\ m.sequence \notin consumed
    BY <1>10, <2>1 DEF PendingSet, StoredMessage
  <2>2. CASE m \in PendingSet /\ m.sequence \in consumed
    <3>1. PICK c \in Range(candidate) : c.sequence = m.sequence
      BY <2>2 DEF consumed
    <3>2. c = m
      BY <2>2, <3>1 DEF CandidateStaysPending, PendingSet, StoredMessage
    <3>3. CASE m \in rejected
      BY <1>4, <3>3
    <3>4. ASSUME NEW i \in DOMAIN prepared, m \in MessagesOf(prepared[i])
          PROVE  m \in ReadySet'
      <4>1. ready'[nextBatchId + i - 1] = prepared[i]
        BY <1>8, <1>9
      <4>2. nextBatchId + i - 1 \in DOMAIN ready'
        BY <1>8, <1>9
      <4> QED BY <3>4, <4>1, <4>2 DEF ReadySet, MessagesOf
    <3>5. \A i \in DOMAIN work : FALSE
      BY <1>1
    <3> QED BY <1>1, <3>2, <3>3, <3>4, <3>5 DEF PackCoversCandidate
  <2>3. CASE m \in ReadySet
    BY <1>9, <2>3 DEF ReadySet, MessagesOf
  <2>4. CASE m \in AnchoredSet \cup dropped
    BY <1>4, <2>4 DEF AnchoredSet, MessagesOf, anchorVars
  <2> QED BY <2>1, <2>2, <2>3, <2>4 DEF NothingLost
<1>19. ConfirmedIsAnchored'
  <2> SUFFICES ASSUME NEW id \in 0 .. nextBatchId' - 1
               PROVE  id \in DOMAIN ready' \/ \E b \in finalized : b.id = id
    BY DEF ConfirmedIsAnchored, anchorVars
  <2>1. CASE id < nextBatchId
    <3>1. id \in 0 .. nextBatchId - 1
      BY <1>2, <2>1
    <3> QED BY <1>9, <3>1 DEF ConfirmedIsAnchored
  <2>2. CASE id >= nextBatchId
    <3>1. id \in fresh
      BY <1>2, <1>9, <2>2 DEF fresh, FreshIds
    <3> QED BY <1>9, <3>1
  <2> QED BY <1>2, <1>9, <2>1, <2>2
<1>20. FormatDescribesReady'
  <2>1. \A i \in DOMAIN prepared : prepared[i].compression = format
    BY <1>1, <1>5 DEF PreparedAsConfigured, FormatDescribesReady
  <2>2. \A id \in DOMAIN ready' : ready'[id].compression = format
    BY <1>7, <1>9, <2>1 DEF FormatDescribesReady
  <2> QED BY <1>1, <1>9, <2>2 DEF FormatDescribesReady, processVars
<1> QED BY <1>12, <1>13, <1>14, <1>15, <1>16, <1>17, <1>18, <1>19, <1>20

-----------------------------------------------------------------------------
(***************************************************************************)
(* The anchor and the chain.                                               *)
(***************************************************************************)
\* The steps that write neither the store nor the history of the chain.
LEMMA AnchorQuietStep ==
    ASSUME IInv, TypeOK', UNCHANGED <<batcherVars, processVars>>,
           \/ Connected \/ PermanentFailure \/ Notified \/ Poll \/ Submit
           \/ TransientFailure \/ StopBetween \/ DrainExpiresSubmit
    PROVE  IInv'
<1> USE DEF IInv
<1>1. apc = "inflight" => page # <<>>
  BY DEF TypeOK, AnchorTypeOK
<1>2. /\ UNCHANGED <<storeVars, finalized>>
      /\ apc # "stopped" /\ apc' # "confirm"
  BY DEF Connected, PermanentFailure, Notified, Poll, Submit,
         TransientFailure, StopBetween, DrainExpiresSubmit
<1>3. page' = page \/ page' = <<>>
  BY DEF Connected, PermanentFailure, Notified, Poll, Submit,
         TransientFailure, StopBetween, DrainExpiresSubmit
<1>4. limbo' = limbo \/ (page # <<>> /\ limbo' = limbo \cup {Head(page)})
  <2>1. CASE limbo' = limbo
    BY <2>1
  <2>2. CASE apc = "inflight" /\ AbandonTransaction
    BY <1>1, <2>2, Abandoned
  <2> QED BY <2>1, <2>2 DEF Connected, PermanentFailure, Notified, Poll, Submit,
                            TransientFailure, StopBetween, DrainExpiresSubmit
<1>5. /\ KeysBelowCounters' /\ OnePayloadPerId'
      /\ PageIsOldestReady' /\ ConfirmAfterFinalized' /\ LimboInOrder'
      /\ NothingLost' /\ ConfirmedIsAnchored' /\ FirstAnchoredInOrder'
  BY <1>2, <1>3, <1>4, AnchorForgets DEF storeVars, batcherVars, processVars
<1>6. CandidateStaysPending' /\ PackCoversCandidate' /\ PreparedAsConfigured'
  BY <1>2, AnchorFrame DEF storeVars
<1>7. TasksNeedProcess'
  BY <1>2 DEF TasksNeedProcess, processVars
<1>8. FormatDescribesReady'
  BY <1>2 DEF FormatDescribesReady, storeVars, batcherVars, processVars
<1> QED BY <1>5, <1>6, <1>7, <1>8

\* The page the anchor loads is the head of the ready queue.
LEMMA LoadStep ==
    ASSUME IInv, TypeOK', UNCHANGED <<batcherVars, processVars>>, Load
    PROVE  IInv'
<1> USE DEF IInv
<1>1. /\ UNCHANGED <<storeVars, finalized, limbo>>
      /\ apc = "load" /\ apc' # "confirm"
      /\ page' \in ReadyBatches(ReadyPage)
  BY DEF Load
<1>2. StoreTypeOK /\ ReadyPage \in Nat
  BY AnchorConstants DEF TypeOK
<1>3. PageIsOldestReady'
  BY <1>1, <1>2, ReadyBatchPage DEF PageIsOldestReady, storeVars
<1>4. KnownBatches' \subseteq KnownBatches
  <2>1. Range(page') \subseteq {StoredBatch(id) : id \in DOMAIN ready}
    BY <1>1, <1>2, ReadyBatchPage
  <2>2. {StoredBatch(id) : id \in DOMAIN ready}'
          = {StoredBatch(id) : id \in DOMAIN ready}
    BY <1>1 DEF StoredBatch, storeVars
  <2> QED BY <1>1, <2>1, <2>2 DEF KnownBatches
<1>5. KeysBelowCounters' /\ OnePayloadPerId'
  BY <1>1, <1>4, KnownShrinks DEF storeVars
<1>6. CandidateStaysPending' /\ PackCoversCandidate' /\ PreparedAsConfigured'
  BY <1>1, AnchorFrame DEF storeVars
<1>7. TasksNeedProcess' /\ ConfirmAfterFinalized'
  BY <1>1 DEF TasksNeedProcess, ConfirmAfterFinalized, processVars
<1>8. LimboInOrder' /\ FirstAnchoredInOrder' /\ ConfirmedIsAnchored'
  BY <1>1 DEF LimboInOrder, FirstAnchoredInOrder, ConfirmedIsAnchored, storeVars
<1>9. NothingLost'
  BY <1>1 DEF NothingLost, PendingSet, ReadySet, AnchoredSet, StoredMessage,
              storeVars, batcherVars, processVars
<1>10. FormatDescribesReady'
  BY <1>1 DEF FormatDescribesReady, storeVars, batcherVars, processVars
<1> QED BY <1>3, <1>5, <1>6, <1>7, <1>8, <1>9, <1>10

\* A batch is added to the chain after everything older: by the anchor, or
\* by the pool it was left in.
LEMMA FinalizedStep ==
    ASSUME IInv, TypeOK', UNCHANGED <<batcherVars, processVars>>,
           Finalized \/ FinalizedDuringDrain \/ ChainStep
    PROVE  IInv'
<1> USE DEF IInv
<1>1. page \in Seq(Batch) /\ (apc = "inflight" => page # <<>>)
  BY DEF TypeOK, AnchorTypeOK
<1>2. PICK tx \in KnownBatches :
          /\ UNCHANGED storeVars
          /\ page' = page \/ page' = <<>>
          /\ finalized' = finalized \cup {tx}
          /\ limbo' \subseteq limbo
          /\ \A id \in 0 .. tx.id - 1 :
                \E earlier \in finalized : earlier.id = id
          /\ apc' = apc \/ apc = "inflight"
          /\ apc' = "confirm" =>
                page' = page /\ (apc = "confirm" \/ page[1] = tx)
  <2>1. CASE Finalized \/ FinalizedDuringDrain
    <3>1. page # <<>> /\ Head(page) = page[1] /\ 1 \in DOMAIN page
      BY <1>1, <2>1 DEF Finalized, FinalizedDuringDrain
    <3>2. page[1] \in KnownBatches
      BY <3>1, KnownIds
    <3> QED BY <2>1, <3>1, <3>2, EarlierAnchored
            DEF Finalized, FinalizedDuringDrain
  <2>2. CASE ChainStep
    <3>1. PICK tx \in limbo : LimboFinalized(tx)
      BY <2>2 DEF ChainStep
    <3>2. tx \in KnownBatches
      BY DEF KnownBatches
    <3> QED BY <3>1, <3>2 DEF LimboFinalized, LimboInOrder
  <2> QED BY <2>1, <2>2
<1>3. KnownBatches' \subseteq KnownBatches
  <2>1. {StoredBatch(id) : id \in DOMAIN ready}'
          = {StoredBatch(id) : id \in DOMAIN ready}
    BY <1>2 DEF StoredBatch, storeVars
  <2>2. finalized' \subseteq KnownBatches
    BY <1>2 DEF KnownBatches
  <2>3. Range(page') \subseteq Range(page)
    BY <1>2 DEF Range
  <2> QED BY <1>2, <2>1, <2>2, <2>3 DEF KnownBatches
<1>4. KeysBelowCounters' /\ OnePayloadPerId'
  BY <1>2, <1>3, KnownShrinks DEF storeVars
<1>5. CandidateStaysPending' /\ PackCoversCandidate' /\ PreparedAsConfigured'
  BY <1>2, AnchorFrame DEF storeVars
<1>6. TasksNeedProcess' /\ ConfirmAfterFinalized'
  BY <1>2 DEF TasksNeedProcess, ConfirmAfterFinalized, batcherVars,
              processVars
<1>7. PageIsOldestReady'
  <2>1. CASE page' = page
    BY <1>2, <2>1 DEF PageIsOldestReady, storeVars
  <2>2. CASE page' = <<>>
    BY <2>2 DEF PageIsOldestReady
  <2> QED BY <1>2, <2>1, <2>2
<1>8. LimboInOrder' /\ FirstAnchoredInOrder'
  BY <1>2 DEF LimboInOrder, FirstAnchoredInOrder
<1>9. ConfirmedIsAnchored' /\ FormatDescribesReady'
  BY <1>2 DEF ConfirmedIsAnchored, FormatDescribesReady, storeVars, batcherVars,
              processVars
<1>10. NothingLost'
  <2>1. PendingSet' = PendingSet /\ ReadySet' = ReadySet
    BY <1>2 DEF PendingSet, ReadySet, StoredMessage, storeVars
  <2>2. AnchoredSet \subseteq AnchoredSet'
    BY <1>2 DEF AnchoredSet
  <2> QED BY <2>1, <2>2 DEF NothingLost, batcherVars, processVars
<1> QED BY <1>4, <1>5, <1>6, <1>7, <1>8, <1>9, <1>10

\* confirm_batch removes a batch that is on chain.
LEMMA ConfirmStep ==
    ASSUME IInv, TypeOK', UNCHANGED <<batcherVars, processVars>>,
           Confirm \/ DrainExpiresConfirm
    PROVE  IInv'
<1> USE DEF IInv
<1>1. apc = "confirm" /\ page \in Seq(Batch) /\ page # <<>>
  BY DEF TypeOK, AnchorTypeOK, Confirm, DrainExpiresConfirm
<1>2. Head(page) = page[1] /\ 1 \in DOMAIN page
  BY <1>1
<1>3. /\ ConfirmBatch(page[1].id)
      /\ UNCHANGED <<limbo, finalized>>
      /\ page' = Tail(page) \/ page' = <<>>
      /\ apc' # "confirm"
  BY <1>2 DEF Confirm, DrainExpiresConfirm
<1>4. /\ DOMAIN ready' = DOMAIN ready \ {page[1].id}
      /\ \A id \in DOMAIN ready' : ready'[id] = ready[id]
      /\ UNCHANGED <<pending, nextSequence, nextBatchId, format>>
  BY <1>3 DEF ConfirmBatch, Delete, Restrict
<1>5. /\ page[1] \in finalized
      /\ page[1].id \in DOMAIN ready /\ ready[page[1].id] = page[1].payload
  BY <1>1, <1>2 DEF ConfirmAfterFinalized, PageIsOldestReady
<1>6. \A i \in DOMAIN page' : i + 1 \in DOMAIN page /\ page'[i] = page[i + 1]
  <2>1. CASE page' = Tail(page)
    BY <1>1, <2>1
  <2>2. CASE page' = <<>>
    BY <2>2
  <2> QED BY <1>3, <2>1, <2>2
<1>7. KnownBatches' \subseteq KnownBatches
  <2>1. {StoredBatch(id) : id \in DOMAIN ready}'
          \subseteq {StoredBatch(id) : id \in DOMAIN ready}
    BY <1>4 DEF StoredBatch
  <2>2. Range(page') \subseteq Range(page)
    BY <1>6 DEF Range
  <2> QED BY <1>3, <2>1, <2>2 DEF KnownBatches
<1>8. KeysBelowCounters' /\ OnePayloadPerId'
  BY <1>4, <1>7, KnownShrinks
<1>9. CandidateStaysPending' /\ PackCoversCandidate' /\ PreparedAsConfigured'
  BY <1>4, AnchorFrame
<1>10. TasksNeedProcess' /\ ConfirmAfterFinalized'
  BY <1>1, <1>3 DEF TasksNeedProcess, ConfirmAfterFinalized, processVars
<1>11. PageIsOldestReady'
  <2>1. \A i \in DOMAIN page' : i \in Nat \ {0}
    BY DEF TypeOK, AnchorTypeOK
  <2>2. \A i \in DOMAIN page' :
           /\ page'[i].id \in DOMAIN ready' /\ page'[i].id \in Nat
           /\ ready'[page'[i].id] = page'[i].payload
    <3> TAKE i \in DOMAIN page'
    <3>1. /\ page[i + 1].id \in DOMAIN ready
          /\ ready[page[i + 1].id] = page[i + 1].payload
      BY <1>6 DEF PageIsOldestReady
    <3>2. page[1].id \in Nat /\ page[i + 1].id \in Nat
      BY <1>2, <1>6, KnownIds
    <3>3. page[1].id < page[i + 1].id
      BY <1>2, <1>6, <2>1 DEF PageIsOldestReady
    <3> QED BY <1>4, <1>6, <3>1, <3>2, <3>3
  <2>3. \A i, j \in DOMAIN page' : i < j => page'[i].id < page'[j].id
    BY <1>6, <2>1 DEF PageIsOldestReady
  <2>4. ASSUME NEW id \in DOMAIN ready'
        PROVE  \/ \E i \in DOMAIN page' : page'[i].id = id
               \/ \A i \in DOMAIN page' : page'[i].id < id
    <3>1. CASE \A i \in DOMAIN page : page[i].id < id
      BY <1>6, <3>1
    <3>2. CASE page' = <<>>
      BY <3>2
    <3>3. ASSUME NEW k \in DOMAIN page, page[k].id = id, page' = Tail(page)
          PROVE  \E i \in DOMAIN page' : page'[i].id = id
      <4>1. k # 1
        BY <1>4, <3>3
      <4>2. k - 1 \in DOMAIN page' /\ page'[k - 1] = page[k]
        BY <1>1, <3>3, <4>1
      <4> QED BY <3>3, <4>2
    <3>4. id \in DOMAIN ready
      BY <1>4
    <3> QED BY <1>3, <3>1, <3>2, <3>3, <3>4 DEF PageIsOldestReady
  <2> QED BY <2>2, <2>3, <2>4 DEF PageIsOldestReady
<1>12. LimboInOrder' /\ FirstAnchoredInOrder'
  BY <1>3 DEF LimboInOrder, FirstAnchoredInOrder
<1>13. ConfirmedIsAnchored'
  BY <1>3, <1>4, <1>5 DEF ConfirmedIsAnchored
<1>14. FormatDescribesReady'
  BY <1>4 DEF FormatDescribesReady, batcherVars, processVars
<1>15. NothingLost'
  <2>1. PendingSet' = PendingSet /\ AnchoredSet' = AnchoredSet
    BY <1>3, <1>4 DEF PendingSet, AnchoredSet, StoredMessage
  <2>2. \A m \in ReadySet : m \in ReadySet' \/ m \in AnchoredSet
    <3> SUFFICES ASSUME NEW id \in DOMAIN ready, NEW m \in MessagesOf(ready[id])
                 PROVE  m \in ReadySet' \/ m \in AnchoredSet
      BY DEF ReadySet
    <3>1. CASE id = page[1].id
      BY <1>5, <3>1 DEF AnchoredSet
    <3>2. CASE id # page[1].id
      BY <1>4, <3>2 DEF ReadySet, MessagesOf
    <3> QED BY <3>1, <3>2
  <2> QED BY <2>1, <2>2 DEF NothingLost, batcherVars, processVars
<1> QED BY <1>8, <1>9, <1>10, <1>11, <1>12, <1>13, <1>14, <1>15

-----------------------------------------------------------------------------
(***************************************************************************)
(* The pipeline, the clock, the operator and the end of the process.       *)
(***************************************************************************)
\* push_message adds a row under a key never used before.
LEMMA DeliverStep ==
    ASSUME IInv, TypeOK', NEW envelope \in Envelope, Deliver(envelope)
    PROVE  IInv'
<1> USE DEF IInv
<1> DEFINE new == [sequence |-> nextSequence, envelope |-> envelope]
<1>1. /\ pending' = Insert(pending, nextSequence, envelope)
      /\ nextSequence' = nextSequence + 1
      /\ accepted' = accepted \cup {new}
      /\ UNCHANGED <<ready, nextBatchId, format, batcherVars, anchorVars, up>>
  BY DEF Deliver, SinkDeliver, PushMessage
<1>2. DOMAIN pending \subseteq Nat /\ nextSequence \in Nat
  BY DEF TypeOK, StoreTypeOK
<1>3. \A i \in DOMAIN pending : i < nextSequence
  BY DEF KeysBelowCounters
<1>4. /\ DOMAIN pending' = DOMAIN pending \cup {nextSequence}
      /\ \A i \in DOMAIN pending : pending'[i] = pending[i]
      /\ pending'[nextSequence] = envelope
  BY <1>1, <1>2, <1>3 DEF Insert
<1>5. PendingSet \cup {new} \subseteq PendingSet'
  BY <1>4 DEF PendingSet, StoredMessage
<1>6. KnownBatches' = KnownBatches
  BY <1>1 DEF KnownBatches, StoredBatch, anchorVars
<1>7. KeysBelowCounters'
  <2>1. \A i \in DOMAIN pending' : i < nextSequence'
    BY <1>1, <1>2, <1>3, <1>4
  <2> QED BY <1>1, <1>6, <2>1 DEF KeysBelowCounters
<1>8. OnePayloadPerId'
  BY <1>6 DEF OnePayloadPerId
<1>9. TasksNeedProcess' /\ PackCoversCandidate' /\ PreparedAsConfigured'
  BY <1>1 DEF TasksNeedProcess, PackCoversCandidate, PreparedAsConfigured,
              batcherVars, anchorVars
<1>10. CandidateStaysPending'
  BY <1>1, <1>5 DEF CandidateStaysPending, batcherVars
<1>11. PageIsOldestReady' /\ ConfirmAfterFinalized' /\ LimboInOrder'
  BY <1>1 DEF PageIsOldestReady, ConfirmAfterFinalized, LimboInOrder, anchorVars
<1>12. NothingLost'
  <2>1. ReadySet' = ReadySet /\ AnchoredSet' = AnchoredSet
    BY <1>1 DEF ReadySet, AnchoredSet, anchorVars
  <2> QED BY <1>1, <1>5, <2>1 DEF NothingLost, batcherVars
<1>13. ConfirmedIsAnchored' /\ FirstAnchoredInOrder' /\ FormatDescribesReady'
  BY <1>1 DEF ConfirmedIsAnchored, FirstAnchoredInOrder, FormatDescribesReady,
              batcherVars, anchorVars
<1> QED BY <1>7, <1>8, <1>9, <1>10, <1>11, <1>12, <1>13

\* A start reconciles the format before any task runs.
LEMMA StartStep ==
    ASSUME IInv, TypeOK', NEW configured \in Compression, Start(configured)
    PROVE  IInv'
<1> USE DEF IInv
<1>1. /\ format \in {configured, NoFormat} \/ DOMAIN ready = {}
      /\ format' = configured /\ compression' = configured
      /\ UNCHANGED <<pending, ready, nextSequence, nextBatchId, dropped,
                     candidate, page, limbo, finalized, accepted>>
      /\ bpc' = "scan" /\ apc' = "connect"
      /\ up' = TRUE
  BY DEF Start, StartBatcher, ReconcileFormat, SetFormatDescriptor, storeVars
<1>2. /\ KeysBelowCounters' /\ OnePayloadPerId'
      /\ PageIsOldestReady' /\ ConfirmAfterFinalized' /\ LimboInOrder'
      /\ NothingLost' /\ ConfirmedIsAnchored' /\ FirstAnchoredInOrder'
  <2>1. page' = page /\ limbo' = limbo /\ apc' # "confirm"
    BY <1>1
  <2> QED BY <1>1, <2>1, AnchorForgets
<1>3. TasksNeedProcess' /\ PackCoversCandidate' /\ PreparedAsConfigured'
  BY <1>1 DEF TasksNeedProcess, PackCoversCandidate, PreparedAsConfigured
<1>4. CandidateStaysPending'
  BY <1>1 DEF CandidateStaysPending, PendingSet, StoredMessage
<1>5. FormatDescribesReady'
  <2>1. \A id \in DOMAIN ready : ready[id].compression \in Compression
    BY DEF TypeOK, StoreTypeOK, Payload
  <2>2. \A id \in DOMAIN ready : ready[id].compression = configured
    BY <1>1, <2>1, StoreConstants DEF FormatDescribesReady
  <2> QED BY <1>1, <2>2 DEF FormatDescribesReady
<1> QED BY <1>2, <1>3, <1>4, <1>5

\* The end of the process takes its memory and leaves the store.
LEMMA ProcessEndsStep ==
    ASSUME IInv, TypeOK', Exit \/ Crash
    PROVE  IInv'
<1> USE DEF IInv
<1>1. ProcessEnds
  BY DEF Exit, Crash
<1>2. apc = "inflight" => page # <<>>
  BY DEF TypeOK, AnchorTypeOK
<1>3. limbo' = limbo \/ (page # <<>> /\ limbo' = limbo \cup {Head(page)})
  <2>1. CASE limbo' = limbo
    BY <2>1
  <2>2. CASE apc = "inflight" /\ AbandonTransaction
    BY <1>2, <2>2, Abandoned
  <2> QED BY <2>1, <2>2 DEF Exit, Crash
<1>4. /\ UNCHANGED <<pending, ready, nextSequence, nextBatchId, format,
                     compression, dropped, finalized, accepted>>
      /\ bpc' = "stopped" /\ apc' = "stopped" /\ page' = <<>>
      /\ candidate' = <<>> /\ prepared' = <<>>
      /\ up' = FALSE
  BY <1>1 DEF ProcessEnds, LeaveStep, storeVars
<1>5. /\ KeysBelowCounters' /\ OnePayloadPerId'
      /\ PageIsOldestReady' /\ ConfirmAfterFinalized' /\ LimboInOrder'
      /\ NothingLost' /\ ConfirmedIsAnchored' /\ FirstAnchoredInOrder'
  BY <1>3, <1>4, AnchorForgets
<1>6. TasksNeedProcess' /\ PackCoversCandidate' /\ PreparedAsConfigured'
  BY <1>4 DEF TasksNeedProcess, PackCoversCandidate, PreparedAsConfigured
<1>7. CandidateStaysPending'
  BY <1>4 DEF CandidateStaysPending, Range
<1>8. FormatDescribesReady'
  BY <1>4 DEF FormatDescribesReady
<1> QED BY <1>5, <1>6, <1>7, <1>8

\* Steps that IInv does not look at.
LEMMA OtherSteps ==
    ASSUME IInv, TypeOK',
           \/ PipelineStops
           \/ Shutdown
           \/ \E i \in DOMAIN pending :
                 Age(i) /\ UNCHANGED <<anchorVars, processVars>>
           \/ UNCHANGED vars
    PROVE  IInv'
<1> USE DEF IInv
<1>1. UNCHANGED <<storeVars, anchorVars, up, accepted, compression, dropped,
                  bpc, candidate, work, prepared, rejected>>
  BY DEF PipelineStops, Shutdown, Age, vars, batcherVars, processVars
<1>2. /\ KeysBelowCounters' /\ OnePayloadPerId'
      /\ NothingLost' /\ ConfirmedIsAnchored' /\ FirstAnchoredInOrder'
  <2>1. KnownBatches' = KnownBatches
    BY <1>1 DEF KnownBatches, StoredBatch, storeVars, anchorVars
  <2>2. KeysBelowCounters' /\ OnePayloadPerId'
    BY <1>1, <2>1, KnownShrinks DEF storeVars
  <2>3. NothingLost'
    BY <1>1 DEF NothingLost, PendingSet, ReadySet, AnchoredSet, StoredMessage,
                storeVars, anchorVars
  <2>4. ConfirmedIsAnchored' /\ FirstAnchoredInOrder'
    BY <1>1 DEF ConfirmedIsAnchored, FirstAnchoredInOrder, storeVars, anchorVars
  <2> QED BY <2>2, <2>3, <2>4
<1>3. PageIsOldestReady' /\ ConfirmAfterFinalized' /\ LimboInOrder'
  BY <1>1 DEF PageIsOldestReady, ConfirmAfterFinalized, LimboInOrder,
              storeVars, anchorVars
<1>4. TasksNeedProcess' /\ PackCoversCandidate' /\ PreparedAsConfigured'
  BY <1>1 DEF TasksNeedProcess, PackCoversCandidate, PreparedAsConfigured,
              anchorVars
<1>5. CandidateStaysPending' /\ FormatDescribesReady'
  BY <1>1 DEF CandidateStaysPending, PendingSet, StoredMessage,
              FormatDescribesReady, storeVars
<1> QED BY <1>2, <1>3, <1>4, <1>5

-----------------------------------------------------------------------------
(***************************************************************************)
(* The invariant and what follows from it.                                 *)
(***************************************************************************)
\* The invariant holds before the first start.
LEMMA InvInit == Init => IInv
<1> SUFFICES ASSUME Init PROVE IInv
  OBVIOUS
<1> USE DEF Init, StoreInit, BatcherOff, AnchorOff
<1>1. TypeOK
  BY TypeInit
<1>2. KnownBatches = {}
  BY DEF KnownBatches, Range
<1>3. KeysBelowCounters /\ OnePayloadPerId
  BY <1>2 DEF KeysBelowCounters, OnePayloadPerId
<1>4. TasksNeedProcess /\ PackCoversCandidate /\ PreparedAsConfigured
  BY DEF TasksNeedProcess, PackCoversCandidate, PreparedAsConfigured
<1>5. CandidateStaysPending /\ NothingLost
  BY DEF CandidateStaysPending, NothingLost, Range
<1>6. PageIsOldestReady /\ ConfirmAfterFinalized /\ LimboInOrder
  BY DEF PageIsOldestReady, ConfirmAfterFinalized, LimboInOrder
<1>7. ConfirmedIsAnchored /\ FirstAnchoredInOrder /\ FormatDescribesReady
  BY DEF ConfirmedIsAnchored, FirstAnchoredInOrder, FormatDescribesReady
<1> QED BY <1>1, <1>3, <1>4, <1>5, <1>6, <1>7 DEF IInv

\* Every step of the path keeps the invariant; one case per action.
LEMMA InvStep ==
    ASSUME IInv, [Next]_vars
    PROVE  IInv'
<1>1. TypeOK'
  BY TypeStep DEF IInv
<1>2. CASE BatcherStep /\ UNCHANGED <<anchorVars, processVars>>
  BY <1>1, <1>2, BatcherPassStep, ScanSelectStep, PackStep, CommitStep
     DEF BatcherStep
<1>3. CASE AnchorStep /\ UNCHANGED <<batcherVars, processVars>>
  BY <1>1, <1>3, AnchorQuietStep, LoadStep, FinalizedStep, ConfirmStep
     DEF AnchorStep
<1>4. CASE ChainStep /\ UNCHANGED <<batcherVars, processVars>>
  BY <1>1, <1>4, FinalizedStep
<1> QED BY <1>1, <1>2, <1>3, <1>4, DeliverStep, StartStep, ProcessEndsStep,
           OtherSteps DEF Next

\* The inductive invariant holds in every reachable state.
THEOREM Invariance == Spec => []IInv
BY InvInit, InvStep, PTL DEF Spec

\* A message push_message accepted is never lost: it stays pending, in a
\* ready batch, on chain, or was given up as unbatchable.
THEOREM NoLoss == Spec => []NothingLost
<1>1. IInv => NothingLost
  BY DEF IInv
<1> QED BY <1>1, Invariance, PTL

\* A batch leaves the store only after it was finalized on chain.
THEOREM ConfirmOnlyAnchored == Spec => []ConfirmedIsAnchored
<1>1. IInv => ConfirmedIsAnchored
  BY DEF IInv
<1> QED BY <1>1, Invariance, PTL

\* Every copy of a batch carries the same bytes, whatever is restarted with
\* whatever compression.
THEOREM StablePayloads == Spec => []OnePayloadPerId
<1>1. IInv => OnePayloadPerId
  BY DEF IInv
<1> QED BY <1>1, Invariance, PTL

\* The chain sees batches for the first time in the order of their ids,
\* although abandoned transactions may surface at any moment.
THEOREM OrderedAnchoring == Spec => []FirstAnchoredInOrder
<1>1. IInv => FirstAnchoredInOrder
  BY DEF IInv
<1> QED BY <1>1, Invariance, PTL

\* The recorded format describes every batch in the store.
THEOREM FormatSound == Spec => []FormatDescribesReady
<1>1. IInv => FormatDescribesReady
  BY DEF IInv
<1> QED BY <1>1, Invariance, PTL

\* commit_batches is never refused with NotPending: what the batcher read
\* is still pending when it commits, whatever was pushed meanwhile.
THEOREM CommitNeverRefused == Spec => []CandidateStaysPending
<1>1. IInv => CandidateStaysPending
  BY DEF IInv
<1> QED BY <1>1, Invariance, PTL

\* Every step adds batches under fresh ids only and rewrites none.
LEMMA ImmutableStep ==
    ASSUME IInv, Next
    PROVE  ReadyOnlyGrowsFresh
<1>1. nextBatchId \in Nat /\ DOMAIN ready \subseteq Nat
  BY DEF IInv, TypeOK, StoreTypeOK
<1>2. CASE UNCHANGED <<ready, nextBatchId>>
  BY <1>1, <1>2 DEF ReadyOnlyGrowsFresh
<1>3. CASE Commit
  <2>1. UNCHANGED storeVars
          \/ \E consumed : CommitBatches(consumed, prepared)
    BY <1>3 DEF Commit
  <2>2. CASE UNCHANGED storeVars
    BY <1>2, <2>2 DEF storeVars
  <2>3. ASSUME NEW consumed, CommitBatches(consumed, prepared)
        PROVE  ReadyOnlyGrowsFresh
    <3>1. prepared \in Seq(Payload) /\ Len(prepared) \in Nat
      BY DEF IInv, TypeOK, BatcherTypeOK
    <3>2. \A id \in DOMAIN ready : id < nextBatchId
      BY KnownIds DEF IInv, KeysBelowCounters
    <3>3. \A id \in FreshIds(Len(prepared)) : id >= nextBatchId /\ id \in Nat
      BY <1>1, <3>1 DEF FreshIds
    <3>4. \A id \in DOMAIN ready : id \notin FreshIds(Len(prepared))
      BY <1>1, <3>2, <3>3
    <3>5. nextBatchId' >= nextBatchId
      BY <1>1, <2>3, <3>1 DEF CommitBatches
    <3> QED BY <2>3, <3>3, <3>4, <3>5 DEF CommitBatches, ReadyOnlyGrowsFresh
  <2> QED BY <2>1, <2>2, <2>3
<1>4. ASSUME NEW id, ConfirmBatch(id)
      PROVE  ReadyOnlyGrowsFresh
  BY <1>1, <1>4 DEF ConfirmBatch, Delete, Restrict, ReadyOnlyGrowsFresh
<1>5. CASE BatcherStep
  BY <1>2, <1>3, <1>5 DEF BatcherStep, ScanIdle, ScanWait, ScanSelect, PackFits,
       PackReject, PackSplit, StepFails, Woken, TimerFires, BeginFlushAll,
       BeginPass, storeVars
<1>6. CASE AnchorStep \/ ChainStep
  BY <1>2, <1>4, <1>6 DEF AnchorStep, ChainStep, Connected, PermanentFailure,
       Load, Notified, Poll, Submit, Finalized, FinalizedDuringDrain,
       TransientFailure, Confirm, StopBetween, DrainExpiresSubmit, DrainExpiresConfirm, LimboFinalized,
       storeVars
<1>7. CASE ~(BatcherStep \/ AnchorStep \/ ChainStep)
  <2>1. UNCHANGED <<ready, nextBatchId>>
    BY <1>7 DEF Next, Deliver, SinkDeliver, PushMessage, PipelineStops, Age,
         Shutdown, Start, StartBatcher, ReconcileFormat, SetFormatDescriptor, Exit, Crash,
         ProcessEnds, storeVars
  <2> QED BY <1>2, <2>1
<1> QED BY <1>5, <1>6, <1>7

\* Batch ids are never reused and stored batches never rewritten.
THEOREM Immutability == Spec => BatchesAreImmutable
<1>1. IInv /\ [Next]_vars => [ReadyOnlyGrowsFresh]_vars
  BY ImmutableStep
<1> QED BY <1>1, Invariance, PTL DEF Spec, BatchesAreImmutable
=============================================================================
