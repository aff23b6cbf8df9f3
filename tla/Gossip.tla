------------------------------- MODULE Gossip -------------------------------
(***************************************************************************)
(* The GossipSub publisher (edge/src/p2p): the swarm's connections and the *)
(* events it reports about them, the reference-counted peer table, the     *)
(* readiness flag of observability/health.rs that is recomputed from the   *)
(* table, and the queue of accepted messages to publish.  The swarm        *)
(* (libp2p) is external: it may open several connections to one peer, and  *)
(* an event is handled some time after what it reports.                    *)
(***************************************************************************)
EXTENDS Integers, FiniteSets, Sequences

CONSTANTS
    Peer,           \* peers that can be connected
    Reserved,       \* the ones the gateway dials
    MaxConnections, \* bound: connections to one peer
    MaxEvents,      \* bound: swarm events not handled yet
    MaxOutbox       \* bound of the pipeline -> publisher channel

ASSUME GossipConstants ==
    /\ Reserved \subseteq Peer
    /\ MaxConnections \in Nat /\ MaxEvents \in Nat /\ MaxOutbox \in Nat

VARIABLES
    dialing,    \* reserved peers with a dial in progress
    open,       \* peer -> its open connections
    events,     \* swarm events to be handled
    table,      \* PeerRegistry: peer -> counted connections, absent is 0
    ready,      \* Health::is_ready
    outbox      \* accepted messages waiting to be published

gossipVars == <<dialing, open, events, table, ready, outbox>>

GossipTypeOK ==
    /\ dialing \subseteq Reserved
    /\ open \in [Peer -> 0 .. MaxConnections]
    /\ events \in Seq({"up", "down"} \X Peer) /\ Len(events) <= MaxEvents
    /\ table \in [Peer -> Nat]
    /\ ready \in BOOLEAN
    /\ outbox \in 0 .. MaxOutbox

\* A process starts with nothing connected and not ready.
GossipInit ==
    /\ dialing = {}
    /\ open = [p \in Peer |-> 0]
    /\ events = <<>>
    /\ table = [p \in Peer |-> 0]
    /\ ready = FALSE
    /\ outbox = 0

GossipReset ==
    /\ dialing' = {}
    /\ open' = [p \in Peer |-> 0]
    /\ events' = <<>>
    /\ table' = [p \in Peer |-> 0]
    /\ ready' = FALSE
    /\ outbox' = 0

\* PeerRegistry::connected_count.
ConnectedCount(t) == Cardinality({p \in Peer : t[p] > 0})
-----------------------------------------------------------------------------
\* run(), before its loop: dial, and publish the first readiness.
GossipStarts(min) ==
    /\ dialing' = Reserved
    /\ ready' = (ConnectedCount(table) >= min)
    /\ UNCHANGED <<open, events, table, outbox>>

\* dial_reserved(), every RECONNECT_INTERVAL.
DialReserved ==
    /\ dialing # Reserved
    /\ dialing' = Reserved
    /\ UNCHANGED <<open, events, table, ready, outbox>>

DialFails(p) ==
    /\ p \in dialing
    /\ dialing' = dialing \ {p}
    /\ UNCHANGED <<open, events, table, ready, outbox>>

\* The swarm: a dial succeeds, or a peer dials in.
SwarmConnects(p) ==
    /\ open[p] < MaxConnections
    /\ Len(events) < MaxEvents
    /\ dialing' = dialing \ {p}
    /\ open' = [open EXCEPT ![p] = @ + 1]
    /\ events' = Append(events, <<"up", p>>)
    /\ UNCHANGED <<table, ready, outbox>>

\* The swarm: one of the connections to a peer closes.
SwarmDisconnects(p) ==
    /\ open[p] > 0
    /\ Len(events) < MaxEvents
    /\ open' = [open EXCEPT ![p] = @ - 1]
    /\ events' = Append(events, <<"down", p>>)
    /\ UNCHANGED <<dialing, table, ready, outbox>>

\* Mutant: the peer is forgotten when any of its connections closes.
ForgetPeer(t, p) == [t EXCEPT ![p] = 0]

OnDisconnected(t, p) == [t EXCEPT ![p] = IF @ = 0 THEN 0 ELSE @ - 1]
OnConnected(t, p) == [t EXCEPT ![p] = @ + 1]

\* on_swarm_event(): count the connection and refresh_readiness().
OnSwarmEvent(min) ==
    /\ events # <<>>
    /\ LET kind == Head(events)[1]
           p == Head(events)[2]
       IN  table' = IF kind = "up" THEN OnConnected(table, p) ELSE OnDisconnected(table, p)
    /\ events' = Tail(events)
    /\ ready' = (ConnectedCount(table') >= min)
    /\ UNCHANGED <<dialing, open, outbox>>

\* publish(): whatever gossipsub answers, the message leaves the queue.
Publish ==
    /\ outbox > 0
    /\ outbox' = outbox - 1
    /\ UNCHANGED <<dialing, open, events, table, ready>>

\* ChannelSink: the pipeline offers an accepted message.
Offer ==
    /\ outbox < MaxOutbox
    /\ outbox' = outbox + 1
    /\ UNCHANGED <<dialing, open, events, table, ready>>
============================================================================
