------------------------------ MODULE CpsAuth ------------------------------
(***************************************************************************)
(* The `cps' authorization policy (edge/src/auth/cps.rs): a bounded LRU    *)
(* cache of decisions in front of a slow lookup in the finalized CPS tree. *)
(* An allow stays until it is evicted, a denial until its negative_ttl     *)
(* ran out, a failed lookup is never cached.  Lookups run as tasks of the  *)
(* authorization stage; `lookups' holds the ones that are not yet joined.  *)
(***************************************************************************)
EXTENDS Lineage, SequencesExt

CONSTANTS
    Sensor,             \* verified sensor identities
    CacheCapacity       \* [auth] cps_cache_capacity

ASSUME CpsConstants == CacheCapacity \in Nat \ {0}

VARIABLES
    cache,          \* entries [sensor, allowed], least recently used first
    lapsed,         \* sensors whose cached denial is past negative_ttl
    lookups,        \* sensor -> where its lookup task is
    chainSaid         \* history: <<sensor, is it below the root>>, as lookups read it

authVars == <<cache, lapsed, lookups, chainSaid>>

Entry == [sensor : Sensor, allowed : BOOLEAN]

\* The outcome of a joined lookup task: Ok(true), Ok(false) or Err.
Decision == {"allow", "deny", "error"}

AuthTypeOK ==
    /\ cache \in Seq(Entry)
    /\ lapsed \in SUBSET Sensor
    /\ DOMAIN lookups \in SUBSET Sensor
    /\ lookups \in [DOMAIN lookups ->
                       {"start", "query", "found", "absent"} \cup Decision]
    /\ chainSaid \in SUBSET (Sensor \X BOOLEAN)

AuthInit ==
    /\ cache = <<>>
    /\ lapsed = {}
    /\ lookups = [s \in {} |-> "start"]
    /\ chainSaid = {}
-----------------------------------------------------------------------------
\* The cache without the entry of this sensor.
Without(sensor) ==
    IF \E i \in DOMAIN cache : cache[i].sensor = sensor
    THEN RemoveAt(cache, CHOOSE i \in DOMAIN cache : cache[i].sensor = sensor)
    ELSE cache

\* The cache has a decision for this sensor that has not expired.
Live(sensor) == sensor \notin lapsed /\ \E e \in Range(cache) : e.sensor = sensor

CachedAllow(sensor) == [sensor |-> sensor, allowed |-> TRUE] \in Range(cache)

\* cached(): a live entry becomes the most recently used one, an expired one
\* is dropped.
TouchCache(sensor) ==
    /\ cache' = IF Live(sensor)
                THEN Append(Without(sensor), [sensor |-> sensor,
                                              allowed |-> CachedAllow(sensor)])
                ELSE Without(sensor)
    /\ lapsed' = lapsed \ {sensor}

\* store(): put replaces the entry of this sensor, or evicts the least
\* recently used entry of a full cache.
StoreDecision(sensor, allowed) ==
    LET others == Without(sensor)
        kept   == IF Len(others) = CacheCapacity THEN Tail(others) ELSE others
    IN  /\ cache' = Append(kept, [sensor |-> sensor, allowed |-> allowed])
        /\ lapsed' = {s \in lapsed : \E e \in Range(kept) : e.sensor = s}

Advance(sensor, to) == lookups' = [lookups EXCEPT ![sensor] = to]
-----------------------------------------------------------------------------
\* authorize(): another lookup may have filled the cache in the meantime.
LookupHits(sensor) ==
    /\ lookups[sensor] = "start"
    /\ Live(sensor)
    /\ Advance(sensor, IF CachedAllow(sensor) THEN "allow" ELSE "deny")
    /\ TouchCache(sensor)
    /\ UNCHANGED chainSaid

LookupMisses(sensor) ==
    /\ lookups[sensor] = "start"
    /\ ~Live(sensor)
    /\ Advance(sensor, "query")
    /\ TouchCache(sensor)
    /\ UNCHANGED chainSaid

\* lookup(): pin a finalized block and walk up from the sensor's node.  The
\* tree is the chain's and may be another with every block.
LookupReads(sensor) ==
    /\ lookups[sensor] = "query"
    /\ \E result \in LookupResult :
          /\ Advance(sensor, result.found)
          /\ chainSaid' = chainSaid \cup {<<sensor, result.below>>}
    /\ UNCHANGED <<cache, lapsed>>

\* The walk ended in time; the decision is cached before anybody joins the
\* task.
LookupStores(sensor) ==
    /\ lookups[sensor] \in {"found", "absent"}
    /\ StoreDecision(sensor, lookups[sensor] = "found")
    /\ Advance(sensor, IF lookups[sensor] = "found" THEN "allow" ELSE "deny")
    /\ UNCHANGED chainSaid

\* RPC error, chain not ready, the wrong chain or root, or query_timeout; also
\* a task that panicked.  Nothing is cached.
LookupFails(sensor) ==
    /\ lookups[sensor] \in {"start", "query", "found", "absent"}
    /\ Advance(sensor, "error")
    /\ UNCHANGED <<cache, lapsed, chainSaid>>

LookupStep ==
    \E sensor \in DOMAIN lookups :
        \/ LookupHits(sensor)
        \/ LookupMisses(sensor)
        \/ LookupReads(sensor)
        \/ LookupStores(sensor)
        \/ LookupFails(sensor)

\* negative_ttl of a cached denial runs out.
DenialLapses(sensor) ==
    /\ [sensor |-> sensor, allowed |-> FALSE] \in Range(cache)
    /\ lapsed' = lapsed \cup {sensor}
    /\ lapsed' # lapsed
    /\ UNCHANGED <<cache, lookups, chainSaid>>
=============================================================================
