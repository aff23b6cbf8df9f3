----------------------------- MODULE LightNode -----------------------------
(***************************************************************************)
(* The embedded light client of libcps (libcps/src/light): a status that   *)
(* a monitor task derives from smoldot's lifecycle, a WebSocket server     *)
(* that gives every connection a JSON-RPC session of its own, and the stop *)
(* signal both follow.  Several nodes can exist in one process: the one a  *)
(* supervisor replaced lives on until its last holder lets go of it.       *)
(***************************************************************************)
EXTENDS Integers, FiniteSets

CONSTANTS
    Light,                  \* light nodes that can exist at the same time
    Client,                 \* RPC clients of a node
    MaxConnections,         \* LightNodeConfig::max_connections
    MaxPendingRequests      \* LightNodeConfig::max_pending_requests

ASSUME LightConstants ==
    /\ MaxConnections \in Nat \ {0}
    /\ MaxPendingRequests \in Nat \ {0}

VARIABLES
    status,     \* node -> LightStatus, "none" while there is no such node
    phase,      \* node -> smoldot's lifecycle phase (external)
    fresh,      \* nodes whose lifecycle has a state the monitor has not read
    tasks,      \* node -> its running background tasks
    stop,       \* nodes whose stop channel holds true
    conn,       \* node -> client -> where its connection task is
    pending     \* node -> client -> its queued JSON-RPC requests

lightVars == <<status, phase, fresh, tasks, stop, conn, pending>>

Phase == {"connecting", "syncing", "ready"}
Terminal == {"stopped", "failed"}
Status == {"none", "starting", "rpc-ready", "syncing", "ready"} \cup Terminal

LightTypeOK ==
    /\ status \in [Light -> Status]
    /\ phase \in [Light -> Phase]
    /\ fresh \subseteq Light
    /\ tasks \in [Light -> SUBSET {"monitor", "server"}]
    /\ stop \subseteq Light
    /\ conn \in [Light -> [Client -> {"off", "handshake", "setup", "open", "aborted"}]]
    /\ pending \in [Light -> [Client -> 0 .. MaxPendingRequests]]

LightInit ==
    /\ status = [n \in Light |-> "none"]
    /\ phase = [n \in Light |-> "connecting"]
    /\ fresh = {}
    /\ tasks = [n \in Light |-> {}]
    /\ stop = {}
    /\ conn = [n \in Light |-> [c \in Client |-> "off"]]
    /\ pending = [n \in Light |-> [c \in Client |-> 0]]
-----------------------------------------------------------------------------
\* LightNodeConfig::listen_addr: what start() says to a configuration.
ListenAddr(config) ==
    IF \/ ~config.parses
       \/ ~config.loopback /\ ~config.allow_non_loopback
       \/ config.limits = 0
    THEN "Config" ELSE "Ok"

\* The ways start() fails once the configuration is accepted, and whether
\* classify_light calls them permanent.
StartError == {"Bind", "InvalidChainSpec", "Bootstrap"}
ClassifyLight(error) ==
    IF error \in {"Config", "InvalidChainSpec"} THEN "permanent" ELSE "transient"

\* The connection tasks of a node; each holds one of its slots.
Connections(n) == {c \in Client : conn[n][c] # "off"}

\* A node of this number can be started: there is none, or only the number
\* is left of it.
Vacant(n) == status[n] = "none" \/ (n \in stop /\ tasks[n] = {} /\ Connections(n) = {})

\* start(): the endpoint is bound and the chains run; spawn monitor and
\* server.  smoldot reports its first state at once.
Spawn(n) ==
    /\ Vacant(n)
    /\ status' = [status EXCEPT ![n] = "starting"]
    /\ phase' = [phase EXCEPT ![n] = "connecting"]
    /\ fresh' = fresh \cup {n}
    /\ tasks' = [tasks EXCEPT ![n] = {"monitor", "server"}]
    /\ UNCHANGED <<conn, pending>>

\* start() returns: the status becomes rpc-ready unless it moved already.
Listening(n) ==
    /\ status' = [status EXCEPT ![n] = IF @ = "starting" THEN "rpc-ready" ELSE @]
    /\ UNCHANGED <<phase, fresh, tasks, conn, pending>>
-----------------------------------------------------------------------------
MapState(p) == IF p = "connecting" THEN "rpc-ready" ELSE p

\* monitor(): a lifecycle report.  It is dropped while the node is starting
\* and once the status is terminal.
MonitorReads(n) ==
    /\ "monitor" \in tasks[n]
    /\ n \in fresh
    /\ fresh' = fresh \ {n}
    /\ status' = [status EXCEPT ![n] =
                     IF @ = "starting" \/ @ \in Terminal THEN @
                                                         ELSE MapState(phase[n])]
    /\ UNCHANGED <<phase, tasks, stop, conn, pending>>

\* monitor(): stop was sent, or the lifecycle subscription ended.  Neither
\* touches the status.
MonitorEnds(n) ==
    /\ "monitor" \in tasks[n]
    /\ tasks' = [tasks EXCEPT ![n] = @ \ {"monitor"}]
    /\ UNCHANGED <<status, phase, fresh, stop, conn, pending>>

\* smoldot moves to another phase (external).
PhaseChanges(n) ==
    /\ "monitor" \in tasks[n]
    /\ \E p \in Phase \ {phase[n]} : phase' = [phase EXCEPT ![n] = p]
    /\ fresh' = fresh \cup {n}
    /\ UNCHANGED <<status, tasks, stop, conn, pending>>
-----------------------------------------------------------------------------
\* connection(): the task of this client ends, its session is dropped.
Hangup(n, c) ==
    /\ conn' = [conn EXCEPT ![n][c] = "off"]
    /\ pending' = [pending EXCEPT ![n][c] = 0]
    /\ UNCHANGED <<status, phase, fresh, tasks, stop>>

\* serve(): accept a connection if a slot is free; otherwise it is closed.
Accept(n, c) ==
    /\ "server" \in tasks[n]
    /\ n \notin stop
    /\ conn[n][c] = "off"
    /\ Cardinality(Connections(n)) < MaxConnections
    /\ conn' = [conn EXCEPT ![n][c] = "handshake"]
    /\ UNCHANGED <<status, phase, fresh, tasks, stop, pending>>

\* connection(): the handshake is done, then the frontend is open.
Establish(n, c) ==
    /\ conn[n][c] \in {"handshake", "setup"}
    /\ conn' = [conn EXCEPT ![n][c] = IF @ = "handshake" THEN "setup" ELSE "open"]
    /\ UNCHANGED <<status, phase, fresh, tasks, stop, pending>>

\* connection(), relay(): handshake error or timeout, no frontend, a closed
\* or broken socket.
Disconnect(n, c) ==
    /\ conn[n][c] \notin {"off", "aborted"}
    /\ Hangup(n, c)

\* A connection task that was aborted is dropped when it is scheduled next.
AbortLands(n, c) ==
    /\ conn[n][c] = "aborted"
    /\ Hangup(n, c)

\* relay(): a request is queued; with a full queue the client is told busy.
Request(n, c) ==
    /\ conn[n][c] = "open"
    /\ pending[n][c] < MaxPendingRequests
    /\ pending' = [pending EXCEPT ![n][c] = @ + 1]
    /\ UNCHANGED <<status, phase, fresh, tasks, stop, conn>>

\* relay(): smoldot answers one of the client's requests.
Respond(n, c) ==
    /\ conn[n][c] = "open"
    /\ pending[n][c] > 0
    /\ pending' = [pending EXCEPT ![n][c] = @ - 1]
    /\ UNCHANGED <<status, phase, fresh, tasks, stop, conn>>

\* Mutant: the connection tasks outlive the server.
ServerAbandons(n) ==
    /\ "server" \in tasks[n]
    /\ n \in stop
    /\ tasks' = [tasks EXCEPT ![n] = @ \ {"server"}]
    /\ UNCHANGED <<status, phase, fresh, stop, conn, pending>>

\* serve(): stop was sent; every connection is closed before the task ends.
ServerEnds(n) ==
    /\ "server" \in tasks[n]
    /\ n \in stop
    /\ tasks' = [tasks EXCEPT ![n] = @ \ {"server"}]
    /\ conn' = [conn EXCEPT ![n] = [c \in Client |-> "off"]]
    /\ pending' = [pending EXCEPT ![n] = [c \in Client |-> 0]]
    /\ UNCHANGED <<status, phase, fresh, stop>>

\* fail(): the server panicked.  The JoinSet is dropped with it, which aborts
\* the connection tasks but does not wait for them.
ServerPanics(n) ==
    /\ "server" \in tasks[n]
    /\ tasks' = [tasks EXCEPT ![n] = @ \ {"server"}]
    /\ status' = [status EXCEPT ![n] = IF @ \in Terminal THEN @ ELSE "failed"]
    /\ conn' = [conn EXCEPT ![n] = [c \in Client |-> IF @[c] = "off" THEN "off" ELSE "aborted"]]
    /\ UNCHANGED <<phase, fresh, stop, pending>>

\* shutdown(): both tasks were joined.
Joined(n) ==
    /\ tasks[n] = {}
    /\ status' = [status EXCEPT ![n] = IF @ \in Terminal THEN @ ELSE "stopped"]
    /\ UNCHANGED <<phase, fresh, tasks, stop, conn, pending>>
============================================================================
