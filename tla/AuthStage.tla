----------------------------- MODULE AuthStage -----------------------------
(***************************************************************************)
(* The bounded authorization stage of the pipeline                         *)
(* (edge/src/pipeline/authorize.rs): messages whose decision is not cached *)
(* are parked per sensor behind one lookup, at most MaxConcurrent lookups  *)
(* run, at most MaxPending messages are parked.                            *)
(***************************************************************************)
EXTENDS CpsAuth

CONSTANTS
    Envelope,           \* wire envelopes that decode
    SensorOf,           \* the sensor each of them claims
    MaxConcurrent,      \* AuthLimits::max_concurrent
    MaxPending          \* AuthLimits::max_pending

ASSUME StageConstants ==
    /\ SensorOf \in [Envelope -> Sensor]
    /\ MaxConcurrent \in Nat \ {0}
    /\ MaxPending \in Nat \ {0}

\* A received message: one arrival of an envelope.
Message == [arrival : Nat, envelope : Envelope]

Sender(message) == SensorOf[message.envelope]

VARIABLES
    parked,         \* sensor -> its waiting messages, in arrival order
    queued,         \* sensors whose lookup has not started, oldest first
    pendingCount    \* AuthStage::pending

stageVars == <<parked, queued, pendingCount>>

StageTypeOK ==
    /\ DOMAIN parked \in SUBSET Sensor
    /\ parked \in [DOMAIN parked -> Seq(Message)]
    /\ queued \in Seq(Sensor)
    /\ pendingCount \in Nat

StageInit ==
    /\ parked = [s \in {} |-> <<>>]
    /\ queued = <<>>
    /\ pendingCount = 0
-----------------------------------------------------------------------------
IsBusy == pendingCount > 0

\* start_queued(): spawn lookups for the oldest queued sensors while fewer
\* than MaxConcurrent run.
StartQueued(waiting, running) ==
    \E n \in 0 .. Len(waiting) :
        LET started == Range(SubSeq(waiting, 1, n))
        IN  /\ n = Len(waiting)
                 \/ Cardinality(DOMAIN running) + n = MaxConcurrent
            /\ Cardinality(DOMAIN running) + n <= MaxConcurrent
            /\ queued' = SubSeq(waiting, n + 1, Len(waiting))
            /\ lookups' = [s \in DOMAIN running \cup started |->
                              IF s \in started THEN "start" ELSE running[s]]

\* admit(): no cached decision, room in the stage, the sensor waits already.
Join(message) ==
    /\ ~Live(Sender(message))
    /\ pendingCount < MaxPending
    /\ Sender(message) \in DOMAIN parked
    /\ parked' = [parked EXCEPT ![Sender(message)] = Append(@, message)]
    /\ pendingCount' = pendingCount + 1
    /\ TouchCache(Sender(message))
    /\ UNCHANGED <<queued, lookups, chainSaid>>

\* admit(): likewise, and the sensor needs a lookup of its own.
Park(message) ==
    /\ ~Live(Sender(message))
    /\ pendingCount < MaxPending
    /\ Sender(message) \notin DOMAIN parked
    /\ parked' = [s \in DOMAIN parked \cup {Sender(message)} |->
                     IF s = Sender(message) THEN <<message>> ELSE parked[s]]
    /\ pendingCount' = pendingCount + 1
    /\ StartQueued(Append(queued, Sender(message)), lookups)
    /\ TouchCache(Sender(message))
    /\ UNCHANGED chainSaid

\* admit() returns Overflow.
Full(message) == ~Live(Sender(message)) /\ pendingCount >= MaxPending

\* Mutant: the slot of a finished lookup is not given to the next sensor.
TakeResolutionOnly(sensor) ==
    /\ lookups[sensor] \in Decision
    /\ parked' = Restrict(parked, DOMAIN parked \ {sensor})
    /\ pendingCount' = pendingCount - Len(parked[sensor])
    /\ lookups' = Restrict(lookups, DOMAIN lookups \ {sensor})
    /\ UNCHANGED <<queued, cache, lapsed, chainSaid>>

\* next_resolution(): join a finished task, take its messages out and start
\* the next lookups.
TakeResolution(sensor) ==
    /\ lookups[sensor] \in Decision
    /\ parked' = Restrict(parked, DOMAIN parked \ {sensor})
    /\ pendingCount' = pendingCount - Len(parked[sensor])
    /\ StartQueued(queued, Restrict(lookups, DOMAIN lookups \ {sensor}))
    /\ UNCHANGED <<cache, lapsed, chainSaid>>

\* Dropping the stage aborts every running lookup.
DropStage ==
    /\ parked' = [s \in {} |-> <<>>]
    /\ queued' = <<>>
    /\ pendingCount' = 0
    /\ lookups' = [s \in {} |-> "start"]
    /\ UNCHANGED <<cache, lapsed, chainSaid>>
============================================================================
