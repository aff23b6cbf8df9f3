------------------------------ MODULE Pipeline ------------------------------
(***************************************************************************)
(* The acceptance pipeline (edge/src/pipeline): one task drains the        *)
(* bounded ingress channel and takes every message through verify,         *)
(* authorize, deduplicate and fan-out.  Each state of `ppc' is a point     *)
(* where the task waits or may be interleaved with the transports, the     *)
(* lookup tasks, the clock and a shutdown.                                 *)
(***************************************************************************)
EXTENDS AuthStage

CONSTANTS
    Authentic,          \* envelopes whose signature verifies
    IngressBuffer,      \* [pipeline] ingress_buffer
    DedupCapacity,      \* [pipeline] dedup_capacity
    Sinks,              \* the sinks in fan-out order
    Required,           \* those whose required() is true
    MaxArrivals         \* bound: messages the transports hand over

ASSUME PipelineConstants ==
    /\ Authentic \subseteq Envelope
    /\ IngressBuffer \in Nat \ {0}
    /\ DedupCapacity \in Nat \ {0}
    /\ Sinks \in Seq(Range(Sinks)) /\ IsInjective(Sinks)
    /\ Required \subseteq Range(Sinks)
    /\ \A r, q \in Required : r = q      \* the batch sink, if there is one
    /\ MaxArrivals \in Nat

VARIABLES
    stopping,       \* ShutdownSignal::is_triggered
    senders,        \* a transport still holds an IngressSender
    ingress,        \* the ingress channel
    arrivals,       \* messages handed over so far
    ppc,            \* where the pipeline task is
    waiting,        \* the message process() holds: <<>> or <<message>>
    granted,        \* authorized messages still to be accepted
    sink,           \* fan_out: index of the sink at hand
    complete,       \* fan_out: no required sink was given up
    order,          \* DedupCache: ids in insertion order
    stale,          \* DedupCache: ids past their TTL
    delivered,      \* history: sink -> messages it accepted, in order
    settled,        \* history: message -> how the pipeline was done with it
    released        \* history: ids the dedup cache dropped by TTL or capacity

dedupVars == <<order, stale, released>>
taskVars  == <<ppc, waiting, granted, sink, complete>>
inputVars == <<stopping, senders, ingress, arrivals>>
pvars     == <<authVars, stageVars, inputVars, taskVars, dedupVars, delivered,
               settled>>

Fate == {"invalid", "denied", "undecided", "duplicate", "stored", "abandoned"}

PipelineTypeOK ==
    /\ AuthTypeOK
    /\ StageTypeOK
    /\ stopping \in BOOLEAN
    /\ senders \in BOOLEAN
    /\ ingress \in Seq(Message)
    /\ arrivals \in Nat
    /\ ppc \in {"run", "admit", "full", "accept", "deliver", "backoff", "ended"}
    /\ waiting \in Seq(Message)
    /\ granted \in Seq(Message)
    /\ sink \in 1 .. Len(Sinks) + 1
    /\ complete \in BOOLEAN
    /\ order \in Seq(Envelope)
    /\ stale \in SUBSET Envelope
    /\ delivered \in [Range(Sinks) -> Seq(Message)]
    /\ DOMAIN settled \in SUBSET Message
    /\ settled \in [DOMAIN settled -> Fate]
    /\ released \in SUBSET Envelope

PipelineInit ==
    /\ AuthInit
    /\ StageInit
    /\ stopping = FALSE
    /\ senders = TRUE
    /\ ingress = <<>>
    /\ arrivals = 0
    /\ ppc = "run"
    /\ waiting = <<>>
    /\ granted = <<>>
    /\ sink = 1
    /\ complete = TRUE
    /\ order = <<>>
    /\ stale = {}
    /\ delivered = [s \in Range(Sinks) |-> <<>>]
    /\ settled = [m \in {} |-> "invalid"]
    /\ released = {}

\* These messages are done with, for this reason.
Settle(messages, fate) ==
    settled' = [m \in DOMAIN settled \cup messages |->
                   IF m \in messages THEN fate ELSE settled[m]]
-----------------------------------------------------------------------------
\* ingest() of a transport: try_send succeeds; the sender is told 202.  On a
\* full or closed channel nothing changes (429, 503).
Ingest(envelope) ==
    /\ senders
    /\ ppc # "ended"
    /\ arrivals < MaxArrivals
    /\ Len(ingress) < IngressBuffer
    /\ ingress' = Append(ingress, [arrival |-> arrivals, envelope |-> envelope])
    /\ arrivals' = arrivals + 1
    /\ UNCHANGED <<authVars, stageVars, stopping, senders, taskVars, dedupVars,
                   delivered, settled>>

\* The HTTP server and the radio task ended, with or without a shutdown.
SendersGone ==
    /\ senders
    /\ senders' = FALSE
    /\ UNCHANGED <<authVars, stageVars, stopping, ingress, arrivals, taskVars,
                   dedupVars, delivered, settled>>

ShutdownTriggered ==
    /\ ~stopping
    /\ stopping' = TRUE
    /\ UNCHANGED <<authVars, stageVars, senders, ingress, arrivals, taskVars,
                   dedupVars, delivered, settled>>
-----------------------------------------------------------------------------
\* run(): receive the next message and verify its signature.
Receive ==
    /\ ppc = "run"
    /\ ingress # <<>>
    /\ ingress' = Tail(ingress)
    /\ IF Head(ingress).envelope \in Authentic
       THEN /\ waiting' = <<Head(ingress)>>
            /\ ppc' = "admit"
            /\ UNCHANGED settled
       ELSE /\ Settle({Head(ingress)}, "invalid")
            /\ UNCHANGED <<waiting, ppc>>
    /\ UNCHANGED <<authVars, stageVars, stopping, senders, arrivals, granted,
                   sink, complete, dedupVars, delivered>>

\* process(): admit() knows the decision.
AdmitDecided ==
    /\ ppc = "admit"
    /\ Live(Sender(waiting[1]))
    /\ TouchCache(Sender(waiting[1]))
    /\ waiting' = <<>>
    /\ IF CachedAllow(Sender(waiting[1]))
       THEN granted' = waiting /\ ppc' = "accept" /\ UNCHANGED settled
       ELSE /\ Settle({waiting[1]}, "denied")
            /\ ppc' = "run"
            /\ UNCHANGED granted
    /\ UNCHANGED <<lookups, chainSaid, stageVars, inputVars, sink, complete,
                   dedupVars, delivered>>

\* process(): admit() parked the message.
AdmitParked ==
    /\ ppc = "admit"
    /\ Join(waiting[1]) \/ Park(waiting[1])
    /\ waiting' = <<>>
    /\ ppc' = "run"
    /\ UNCHANGED <<inputVars, granted, sink, complete, dedupVars, delivered,
                   settled>>

\* process(): the stage is full; hold the message (the module doc: "no
\* shedding"; see CachedNotDelayed for what the configuration says instead).
AdmitOverflow ==
    /\ ppc = "admit"
    /\ Full(waiting[1])
    /\ TouchCache(Sender(waiting[1]))
    /\ ppc' = "full"
    /\ UNCHANGED <<lookups, chainSaid, stageVars, inputVars, waiting,
                   granted, sink, complete, dedupVars, delivered, settled>>

\* process(): shutdown while holding; the message is dropped.
GiveUpHeld ==
    /\ ppc = "full"
    /\ stopping
    /\ Settle({waiting[1]}, "abandoned")
    /\ waiting' = <<>>
    /\ ppc' = "run"
    /\ UNCHANGED <<authVars, stageVars, inputVars, granted, sink, complete,
                   dedupVars, delivered>>

\* Where the task goes once a resolution is dealt with: back to admit() if
\* process() still holds a message.
NextStop == IF waiting = <<>> THEN "run" ELSE "admit"

\* Mutant: lookups are joined in run() only.
ResolveInRunOnly(sensor) ==
    /\ ppc = "run"
    /\ IsBusy
    /\ TakeResolution(sensor)
    /\ IF lookups[sensor] = "allow"
       THEN granted' = parked[sensor] /\ ppc' = "accept" /\ UNCHANGED settled
       ELSE /\ Settle(Range(parked[sensor]),
                      IF lookups[sensor] = "deny" THEN "denied" ELSE "undecided")
            /\ ppc' = NextStop
            /\ UNCHANGED granted
    /\ UNCHANGED <<inputVars, waiting, sink, complete, dedupVars, delivered>>

\* Mutant: process() returns after the resolution, without admit()ting again.
ResolveReturns(sensor) ==
    /\ ppc \in {"run", "full"}
    /\ IsBusy
    /\ TakeResolution(sensor)
    /\ IF lookups[sensor] = "allow"
       THEN granted' = parked[sensor] /\ ppc' = "accept" /\ UNCHANGED settled
       ELSE /\ Settle(Range(parked[sensor]),
                      IF lookups[sensor] = "deny" THEN "denied" ELSE "undecided")
            /\ ppc' = "run"
            /\ UNCHANGED granted
    /\ waiting' = <<>>
    /\ UNCHANGED <<inputVars, sink, complete, dedupVars, delivered>>

\* A lookup was joined, in run() or while process() holds a message.
Resolve(sensor) ==
    /\ ppc \in {"run", "full"}
    /\ IsBusy
    /\ TakeResolution(sensor)
    /\ IF lookups[sensor] = "allow"
       THEN granted' = parked[sensor] /\ ppc' = "accept" /\ UNCHANGED settled
       ELSE /\ Settle(Range(parked[sensor]),
                      IF lookups[sensor] = "deny" THEN "denied" ELSE "undecided")
            /\ ppc' = NextStop
            /\ UNCHANGED granted
    /\ UNCHANGED <<inputVars, waiting, sink, complete, dedupVars, delivered>>
-----------------------------------------------------------------------------
\* prune_expired(): entries are dropped from the front while they are stale.
Pruned(ids) ==
    {SubSeq(ids, n + 1, Len(ids)) :
        n \in {k \in 0 .. Len(ids) :
                  /\ \A i \in 1..k : ids[i] \in stale
                  /\ k < Len(ids) => ids[k + 1] \notin stale}}

\* The next message of a decision, or the end of it.
NextGranted ==
    /\ granted' = Tail(granted)
    /\ ppc' = IF Tail(granted) = <<>> THEN NextStop ELSE "accept"

\* accept(): the id is still remembered.
AcceptDuplicate ==
    /\ ppc = "accept"
    /\ \E ids \in Pruned(order) :
          /\ granted[1].envelope \in Range(ids)
          /\ order' = ids
          /\ released' = released \cup (Range(order) \ Range(ids))
    /\ stale' = stale \cap Range(order')
    /\ Settle({granted[1]}, "duplicate")
    /\ NextGranted
    /\ UNCHANGED <<authVars, stageVars, inputVars, waiting, sink, complete,
                   delivered>>

\* Mutant: the membership test is missing.
AcceptNewUnchecked ==
    /\ ppc = "accept"
    /\ \E ids \in Pruned(order) :
          /\ LET inserted == Append(ids, granted[1].envelope)
             IN  order' = IF Len(inserted) > DedupCapacity THEN Tail(inserted)
                                                           ELSE inserted
          /\ released' = released \cup (Range(order) \ Range(ids))
                                 \cup (Range(ids) \ Range(order'))
    /\ stale' = stale \cap Range(order')
    /\ ppc' = "deliver"
    /\ sink' = 1
    /\ complete' = TRUE
    /\ UNCHANGED <<authVars, stageVars, inputVars, waiting, granted, delivered,
                   settled>>

\* accept(): a new id; insert it, evict the oldest beyond the capacity, and
\* fan out.
AcceptNew ==
    /\ ppc = "accept"
    /\ \E ids \in Pruned(order) :
          /\ granted[1].envelope \notin Range(ids)
          /\ LET inserted == Append(ids, granted[1].envelope)
             IN  order' = IF Len(inserted) > DedupCapacity THEN Tail(inserted)
                                                           ELSE inserted
          /\ released' = released \cup (Range(order) \ Range(ids))
                                 \cup (Range(ids) \ Range(order'))
    /\ stale' = stale \cap Range(order')
    /\ ppc' = "deliver"
    /\ sink' = 1
    /\ complete' = TRUE
    /\ UNCHANGED <<authVars, stageVars, inputVars, waiting, granted, delivered,
                   settled>>

\* fan_out(): the sink at hand accepts the message.
SinkAccepts ==
    /\ ppc = "deliver"
    /\ sink <= Len(Sinks)
    /\ delivered' = [delivered EXCEPT ![Sinks[sink]] = Append(@, granted[1])]
    /\ sink' = sink + 1
    /\ UNCHANGED <<authVars, stageVars, inputVars, ppc, waiting, granted,
                   complete, dedupVars, settled>>

\* fan_out(): the sink fails; an optional one is skipped, a required one is
\* tried again after a delay.
SinkFails ==
    /\ ppc = "deliver"
    /\ sink <= Len(Sinks)
    /\ IF Sinks[sink] \in Required
       THEN ppc' = "backoff" /\ UNCHANGED sink
       ELSE sink' = sink + 1 /\ UNCHANGED ppc
    /\ UNCHANGED <<authVars, stageVars, inputVars, waiting, granted, complete,
                   dedupVars, delivered, settled>>

BackoffEnds ==
    /\ ppc = "backoff"
    /\ ppc' = "deliver"
    /\ UNCHANGED <<authVars, stageVars, inputVars, waiting, granted, sink,
                   complete, dedupVars, delivered, settled>>

\* fan_out(): shutdown during the delay; the remaining sinks still get the
\* message.
BackoffInterrupted ==
    /\ ppc = "backoff"
    /\ stopping
    /\ complete' = FALSE
    /\ sink' = sink + 1
    /\ ppc' = "deliver"
    /\ UNCHANGED <<authVars, stageVars, inputVars, waiting, granted, dedupVars,
                   delivered, settled>>

\* forget(): the queue without this id, which it holds at most once.
Forgotten(id) ==
    IF id \in Range(order)
    THEN RemoveAt(order, CHOOSE i \in DOMAIN order : order[i] = id)
    ELSE order

\* Mutant: a message that missed a required sink stays remembered.
FanOutDoneRemembers ==
    /\ ppc = "deliver"
    /\ sink > Len(Sinks)
    /\ Settle({granted[1]}, IF complete THEN "stored" ELSE "abandoned")
    /\ NextGranted
    /\ sink' = 1
    /\ UNCHANGED <<authVars, stageVars, inputVars, waiting, complete, dedupVars,
                   delivered>>

\* accept(): fan_out returned; a message that missed a required sink is
\* forgotten.
FanOutDone ==
    /\ ppc = "deliver"
    /\ sink > Len(Sinks)
    /\ order' = IF complete THEN order
                ELSE Forgotten(granted[1].envelope)
    /\ stale' = stale \cap Range(order')
    /\ Settle({granted[1]}, IF complete THEN "stored" ELSE "abandoned")
    /\ NextGranted
    /\ sink' = 1
    /\ UNCHANGED <<authVars, stageVars, inputVars, waiting, complete, released,
                   delivered>>

\* The TTL of the oldest remembered id runs out.
TtlLapses ==
    /\ \E i \in DOMAIN order :
          /\ order[i] \notin stale
          /\ \A j \in 1 .. i - 1 : order[j] \in stale
          /\ stale' = stale \cup {order[i]}
    /\ UNCHANGED <<authVars, stageVars, inputVars, taskVars, order, released,
                   delivered, settled>>

\* run(): shutdown, or the channel is closed and drained and the stage empty.
RunEnds ==
    /\ ppc = "run"
    /\ stopping \/ (~senders /\ ingress = <<>> /\ ~IsBusy)
    /\ ppc' = "ended"
    /\ Settle(Range(ingress) \cup UNION {Range(parked[s]) : s \in DOMAIN parked},
              "abandoned")
    /\ ingress' = <<>>
    /\ DropStage
    /\ UNCHANGED <<stopping, senders, arrivals, waiting, granted, sink, complete,
                   dedupVars, delivered>>
-----------------------------------------------------------------------------
PipelineTask ==
    \/ Receive
    \/ AdmitDecided
    \/ AdmitParked
    \/ AdmitOverflow
    \/ GiveUpHeld
    \/ \E sensor \in DOMAIN lookups : Resolve(sensor)
    \/ AcceptDuplicate
    \/ AcceptNew
    \/ SinkAccepts
    \/ SinkFails
    \/ BackoffEnds
    \/ BackoffInterrupted
    \/ FanOutDone
    \/ RunEnds

\* The policy moves without the pipeline.
Around ==
    /\ \/ LookupStep
       \/ \E sensor \in Sensor : DenialLapses(sensor)
    /\ UNCHANGED <<stageVars, inputVars, taskVars, dedupVars, delivered, settled>>

PipelineNext ==
    \/ \E envelope \in Envelope : Ingest(envelope)
    \/ SendersGone
    \/ ShutdownTriggered
    \/ PipelineTask
    \/ Around
    \/ TtlLapses
    \/ ppc = "ended" /\ UNCHANGED pvars

PipelineSpec == PipelineInit /\ [][PipelineNext]_pvars
-----------------------------------------------------------------------------
(***************************************************************************)
(* Safety.                                                                 *)
(***************************************************************************)
ParkedSet == UNION {Range(parked[s]) : s \in DOMAIN parked}

\* Every message a sender was told 202 for is in exactly one place: the
\* channel, process(), the stage, the decision at hand, or it is settled for
\* a reason.  The stage's own count of its messages is part of the balance.
EveryMessageInOnePlace ==
    /\ {m.arrival : m \in Range(ingress) \cup Range(waiting) \cup ParkedSet
                             \cup Range(granted) \cup DOMAIN settled}
          = 0 .. arrivals - 1
    /\ Len(ingress) + Len(waiting) + pendingCount + Len(granted)
          + Cardinality(DOMAIN settled) = arrivals

\* Singleflight: every sensor with parked messages has one lookup, queued or
\* running, never both and never two; no lookup runs for nobody; lookups are
\* queued only while MaxConcurrent of them run.  And "the stage is full, so a
\* lookup is running": process() never waits for a resolution that cannot come.
OneLookupPerSensor ==
    /\ PipelineTypeOK
    /\ DOMAIN parked = Range(queued) \cup DOMAIN lookups
    /\ Range(queued) \cap DOMAIN lookups = {}
    /\ IsInjective(queued)
    /\ Cardinality(DOMAIN lookups) <= MaxConcurrent
    /\ queued # <<>> => Cardinality(DOMAIN lookups) = MaxConcurrent
    /\ \A s \in DOMAIN parked :
          parked[s] # <<>> /\ \A m \in Range(parked[s]) : Sender(m) = s
    /\ ppc = "full" => DOMAIN lookups # {}

\* Fail closed, and only then: whatever reached a sink was signed and had its
\* sensor below the root of some finalized tree; whatever was denied had it
\* outside of one.  A tree that is cut, cyclic or too deep decides nothing.
DecisionsFollowChain ==
    /\ \A s \in Range(Sinks) : \A m \in Range(delivered[s]) :
          m.envelope \in Authentic /\ <<Sender(m), TRUE>> \in chainSaid
    /\ \A m \in DOMAIN settled :
          settled[m] = "denied" => <<Sender(m), FALSE>> \in chainSaid

Stored(envelope) ==
    \A s \in Required : \E m \in Range(delivered[s]) : m.envelope = envelope

\* A message is dropped as a duplicate only if its envelope did reach every
\* required sink: one that a shutdown kept from the store is forgotten.
DuplicateWasStored ==
    \A m \in DOMAIN settled : settled[m] = "duplicate" => Stored(m.envelope)

\* A required sink gets an envelope twice only if the dedup cache let go of
\* it in between, by its TTL or its capacity.
StoredTwiceOnlyIfReleased ==
    \A s \in Required : \A i, j \in DOMAIN delivered[s] :
        i # j /\ delivered[s][i].envelope = delivered[s][j].envelope
            => delivered[s][i].envelope \in released

\* What EdgeApp::start says of the sinks: "The batch sink goes first so an
\* envelope is on disk before any other sink sees it."
OnDiskBeforeOthers ==
    \A s \in Range(Sinks) \ Required : \A m \in Range(delivered[s]) :
        \A r \in Required : m \in Range(delivered[r])

\* What the stage says of the messages of one sensor: they "join it; one
\* chain query decides them all, in arrival order".
SensorInArrivalOrder ==
    \A s \in Required : \A i, j \in DOMAIN delivered[s] :
        i < j /\ Sender(delivered[s][i]) = Sender(delivered[s][j])
            => delivered[s][i].arrival < delivered[s][j].arrival

\* What the configuration says of cps_max_pending: further messages from
\* sensors that are not cached "are dropped, so a flood of unknown sensors
\* cannot [...] delay sensors that are cached".  The pipeline would never wait
\* for the lookups that run while a message of a cached sensor is in the channel.
CachedNotDelayed ==
    ppc = "full" /\ (\A s \in DOMAIN lookups : lookups[s] \notin Decision) =>
        \A m \in Range(ingress) : m.envelope \in Authentic => ~Live(Sender(m))
-----------------------------------------------------------------------------
(***************************************************************************)
(* Liveness.  The task and the lookups are scheduled and lookups end by    *)
(* their timeout (weak fairness); a required sink that keeps being tried   *)
(* accepts in the end (strong fairness).                                   *)
(***************************************************************************)
PipelineFairness ==
    /\ WF_pvars(PipelineTask)
    /\ SF_pvars(SinkAccepts)
    /\ WF_pvars(LookupStep /\ UNCHANGED <<stageVars, inputVars, taskVars,
                                          dedupVars, delivered, settled>>)

PipelineFairSpec == PipelineSpec /\ PipelineFairness

\* Every message that entered the channel is settled in the end: a full
\* stage, a held message or a failing sink never wedges the pipeline.
EveryMessageSettles ==
    \A n \in 0 .. MaxArrivals - 1 :
        arrivals > n ~> \E m \in DOMAIN settled : m.arrival = n
=============================================================================
