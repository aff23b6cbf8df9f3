--------------------------- MODULE ChainRegistry ---------------------------
(***************************************************************************)
(* The two programs that own light nodes.  In the edge daemon a supervisor *)
(* (edge/src/chain.rs) keeps the one shared connection of an endpoint and  *)
(* replaces it when it is lost, while the anchorer waits for it (get) and  *)
(* the authorization policy takes it only when it is in sync (try_get).    *)
(* In `cps light-client` the command itself owns one node and serves its   *)
(* RPC endpoint until Ctrl-C.  A Chain is shared by reference: its light   *)
(* node is asked to stop when the last holder lets go.                     *)
(***************************************************************************)
EXTENDS LightNode

CONSTANTS
    User,       \* callers of get and try_get
    External,   \* the connection to a configured RPC endpoint
    NoChain     \* a holder that holds nothing

ASSUME ChainConstants ==
    /\ External \notin Light
    /\ NoChain \notin Light
    /\ User \cap {"supervisor", "slot"} = {}

VARIABLES
    mode,       \* which program runs, and for the daemon with which endpoint
    slot,       \* the State of the endpoint's slot
    sup,        \* where the supervisor is
    held,       \* holder -> the chain it has a reference to
    waiting,    \* users inside get
    cli,        \* where `cps light-client` is
    synced      \* history: light nodes that have been ready since they started

regVars == <<mode, slot, sup, held, waiting, cli, synced>>
chainVars == <<lightVars, regVars>>

Holder == {"supervisor", "slot"} \cup User
Daemon == mode \in {"embedded", "external"}
Mine == held["supervisor"]

ChainTypeOK ==
    /\ LightTypeOK
    /\ mode \in {"embedded", "external", "cli"}
    /\ slot \in {"none", "connecting", "retrying", "ready", "failed"}
    /\ sup \in {"off", "start", "listen", "sync", "rpc", "hold", "sleep", "done"}
    /\ held \in [Holder -> Light \cup {External, NoChain}]
    /\ waiting \subseteq User
    /\ cli \in {"start", "listen", "watch", "stopping", "exited"}
    /\ synced \subseteq Light

ChainInit ==
    /\ LightInit
    /\ mode \in {"embedded", "external", "cli"}
    /\ slot = "none"
    /\ sup = "off"
    /\ held = [h \in Holder |-> NoChain]
    /\ waiting = {}
    /\ cli = "start"
    /\ synced = {}

\* Drop for LightNode: the nodes that lost their last holder are asked to stop.
DropUnheld ==
    stop' = stop \cup {n \in Light : /\ \E h \in Holder : held[h] = n
                                     /\ \A h \in Holder : held'[h] # n}
-----------------------------------------------------------------------------
\* supervise(), the head of its loop: publish Connecting, which drops the
\* slot's reference, and call the connector.
NextAttempt ==
    /\ slot' = "connecting"
    /\ held' = [held EXCEPT !["slot"] = NoChain, !["supervisor"] = NoChain]
    /\ DropUnheld
    /\ sup' = IF mode = "external" THEN "rpc" ELSE "start"

\* slot(): the first caller creates the slot and its supervisor.
CreateSlot ==
    /\ Daemon
    /\ sup = "off" /\ slot = "none"
    /\ NextAttempt
    /\ UNCHANGED <<status, phase, fresh, tasks, conn, pending, mode, waiting, cli, synced>>

\* supervise(): the attempt failed.
AttemptFails(kind) ==
    /\ held' = [held EXCEPT !["supervisor"] = NoChain]
    /\ DropUnheld
    /\ slot' = IF kind = "permanent" THEN "failed" ELSE "retrying"
    /\ sup' = IF kind = "permanent" THEN "done" ELSE "sleep"
    /\ UNCHANGED <<status, phase, fresh, tasks, conn, pending, mode, waiting, cli, synced>>

\* Chain::connect: LightNode::start spawns a node.
LightStarts(n) ==
    /\ sup = "start"
    /\ Spawn(n)
    /\ stop' = stop \ {n}
    /\ synced' = synced \ {n}
    /\ held' = [held EXCEPT !["supervisor"] = n]
    /\ sup' = "listen"
    /\ UNCHANGED <<mode, slot, waiting, cli>>

LightStartFails ==
    /\ sup = "start"
    /\ \E e \in StartError : AttemptFails(ClassifyLight(e))

LightListens ==
    /\ sup = "listen"
    /\ Listening(Mine)
    /\ sup' = "sync"
    /\ UNCHANGED <<stop, mode, slot, held, waiting, cli, synced>>

\* Mutant: the endpoint is used as soon as it listens.
ConnectUnsynced ==
    /\ sup = "sync"
    /\ sup' = "rpc"
    /\ UNCHANGED <<lightVars, mode, slot, held, waiting, cli, synced>>

\* wait_ready(): the node is ready, or it stopped first.
WaitReady ==
    /\ sup = "sync"
    /\ \/ /\ status[Mine] = "ready"
          /\ sup' = "rpc"
          /\ UNCHANGED <<lightVars, mode, slot, held, waiting, cli, synced>>
       \/ /\ status[Mine] \in Terminal
          /\ AttemptFails("transient")

\* classify: what a failed Cps::connect means for the supervisor.
Classify(error) ==
    IF error \in {"Connection", "Rpc", "Runtime"} THEN "transient" ELSE "permanent"

CpsConnectFails ==
    /\ sup = "rpc"
    /\ \E e \in {"Connection", "Rpc", "Runtime", "Other"} : AttemptFails(Classify(e))

\* supervise(): connected; publish the chain and hold it.
CpsConnects ==
    /\ sup = "rpc"
    /\ LET chain == IF mode = "external" THEN External ELSE Mine
       IN  held' = [held EXCEPT !["supervisor"] = chain, !["slot"] = chain]
    /\ slot' = "ready"
    /\ sup' = "hold"
    /\ UNCHANGED <<lightVars, mode, waiting, cli, synced>>

\* Mutant: only an orderly stop counts as a loss.
LostWhenStopped ==
    /\ sup = "hold"
    /\ mode = "embedded"
    /\ status[Mine] = "stopped"
    /\ NextAttempt
    /\ UNCHANGED <<status, phase, fresh, tasks, conn, pending, mode, waiting, cli, synced>>

\* Mutant: the next node is started while the last one is still held.
RetryEarly ==
    /\ sup = "hold"
    /\ mode = "embedded"
    /\ status[Mine] # "ready"
    /\ sup' = "start"
    /\ UNCHANGED <<lightVars, mode, slot, held, waiting, cli, synced>>

\* lost(): the light node is terminal; an external endpoint is never lost.
ChainLost ==
    /\ sup = "hold"
    /\ mode = "embedded"
    /\ status[Mine] \in Terminal
    /\ NextAttempt
    /\ UNCHANGED <<status, phase, fresh, tasks, conn, pending, mode, waiting, cli, synced>>

\* The delay between two attempts is over.
RetryDue ==
    /\ sup = "sleep"
    /\ NextAttempt
    /\ UNCHANGED <<status, phase, fresh, tasks, conn, pending, mode, waiting, cli, synced>>
-----------------------------------------------------------------------------
\* get(): wait while an attempt is in progress; cancelling only stops waiting.
Get(u) ==
    /\ Daemon
    /\ slot # "none"
    /\ held[u] = NoChain /\ u \notin waiting
    /\ waiting' = waiting \cup {u}
    /\ UNCHANGED <<lightVars, mode, slot, sup, held, cli, synced>>

GetSettles(u) ==
    /\ u \in waiting
    /\ slot # "connecting"
    /\ waiting' = waiting \ {u}
    /\ held' = [held EXCEPT ![u] = held["slot"]]
    /\ UNCHANGED <<lightVars, mode, slot, sup, cli, synced>>

GetCancelled(u) ==
    /\ u \in waiting
    /\ waiting' = waiting \ {u}
    /\ UNCHANGED <<lightVars, mode, slot, sup, held, cli, synced>>

\* Link::in_sync for Chain.
InSync(chain) == IF chain = External THEN TRUE ELSE status[chain] = "ready"

\* try_get(): the connection if it is ready and in sync at this moment.
TryGet(u) ==
    /\ held[u] = NoChain /\ u \notin waiting
    /\ slot = "ready" /\ InSync(held["slot"])
    /\ held' = [held EXCEPT ![u] = held["slot"]]
    /\ UNCHANGED <<lightVars, mode, slot, sup, waiting, cli, synced>>

\* A user is done with the chain.
Release(u) ==
    /\ held[u] # NoChain
    /\ held' = [held EXCEPT ![u] = NoChain]
    /\ DropUnheld
    /\ UNCHANGED <<status, phase, fresh, tasks, conn, pending,
                   mode, slot, sup, waiting, cli, synced>>

\* Drop for Slot: the registry goes away with its last user; the supervisor
\* is aborted wherever it is.
RegistryDropped ==
    /\ Daemon
    /\ sup # "off" /\ slot # "none"
    /\ waiting = {} /\ \A u \in User : held[u] = NoChain
    /\ slot' = "none"
    /\ sup' = "done"
    /\ held' = [h \in Holder |-> NoChain]
    /\ DropUnheld
    /\ UNCHANGED <<status, phase, fresh, tasks, conn, pending, mode, waiting, cli, synced>>
-----------------------------------------------------------------------------
\* The configurations `cps light-client` can be started with: node_config
\* keeps the default limits.
CliConfig ==
    [parses : BOOLEAN, loopback : BOOLEAN, allow_non_loopback : BOOLEAN, limits : {1}]

\* execute(): start the node, or report why it cannot start.
CliStarts(n) ==
    /\ mode = "cli" /\ cli = "start"
    /\ \E config \in CliConfig : ListenAddr(config) = "Ok"
    /\ Spawn(n)
    /\ stop' = stop \ {n}
    /\ cli' = "listen"
    /\ UNCHANGED <<mode, slot, sup, held, waiting, synced>>

CliStartFails ==
    /\ mode = "cli" /\ cli = "start"
    /\ \/ \E config \in CliConfig : ListenAddr(config) # "Ok"
       \/ StartError # {}
    /\ cli' = "exited"
    /\ UNCHANGED <<lightVars, mode, slot, sup, held, waiting, synced>>

CliListens(n) ==
    /\ mode = "cli" /\ cli = "listen" /\ status[n] # "none"
    /\ Listening(n)
    /\ cli' = "watch"
    /\ UNCHANGED <<stop, mode, slot, sup, held, waiting, synced>>

\* execute(): Ctrl-C (at any time) or a terminal status ends the loop, and
\* shutdown() sends stop.
CliStops(n) ==
    /\ cli = "watch" /\ status[n] # "none"
    /\ stop' = stop \cup {n}
    /\ cli' = "stopping"
    /\ UNCHANGED <<status, phase, fresh, tasks, conn, pending,
                   mode, slot, sup, held, waiting, synced>>

\* shutdown(): both tasks were joined; the command ends.
CliExits(n) ==
    /\ cli = "stopping"
    /\ n \in stop
    /\ Joined(n)
    /\ cli' = "exited"
    /\ UNCHANGED <<mode, slot, sup, held, waiting, synced>>
-----------------------------------------------------------------------------
\* The monitor's report that makes a node ready is remembered.
MonitorStep(n) ==
    /\ MonitorReads(n)
    /\ synced' = synced \cup {k \in {n} : status'[n] = "ready"}
    /\ UNCHANGED <<mode, slot, sup, held, waiting, cli>>

LightStep(n) ==
    \/ MonitorStep(n)
    \/ /\ \/ MonitorEnds(n)
          \/ PhaseChanges(n)
          \/ ServerPanics(n)
          \/ ServerEnds(n)
          \/ \E c \in Client :
                /\ mode = "cli"
                /\ \/ Accept(n, c) \/ Establish(n, c) \/ Disconnect(n, c)
                   \/ Request(n, c) \/ Respond(n, c) \/ AbortLands(n, c)
       /\ UNCHANGED regVars

SupervisorStep ==
    \/ LightStartFails \/ LightListens \/ WaitReady
    \/ CpsConnects \/ CpsConnectFails \/ ChainLost \/ RetryDue
    \/ \E n \in Light : LightStarts(n)

ChainNext ==
    \/ CreateSlot
    \/ SupervisorStep
    \/ \E u \in User : Get(u) \/ GetSettles(u) \/ GetCancelled(u) \/ TryGet(u) \/ Release(u)
    \/ RegistryDropped
    \/ \E n \in Light : CliStarts(n) \/ CliListens(n) \/ CliStops(n) \/ CliExits(n)
    \/ CliStartFails
    \/ \E n \in Light : LightStep(n)

ChainSpec == ChainInit /\ [][ChainNext]_chainVars

\* The runtime keeps polling the supervisor, and the tasks of a node that was
\* asked to stop.  Nothing is assumed of smoldot, of users or of clients.
ChainFairSpec ==
    /\ ChainSpec
    /\ WF_chainVars(SupervisorStep)
    /\ \A n \in Light :
          /\ WF_chainVars(ServerEnds(n) /\ UNCHANGED regVars)
          /\ WF_chainVars(n \in stop /\ MonitorEnds(n) /\ UNCHANGED regVars)
          /\ WF_chainVars(CliExits(n))
-----------------------------------------------------------------------------
\* A process never runs two light nodes: whatever was lost, dropped or
\* retried, at most one node is neither terminal nor asked to stop.
OneLiveLight ==
    Cardinality({n \in Light : status[n] \notin Terminal \cup {"none"} /\ n \notin stop}) <= 1

\* get and try_get hand out only chains whose node had synchronized once, so
\* no finalized-state query is answered from the checkpoint of a fresh node.
HandedOutSynced ==
    \A h \in User \cup {"slot"} : held[h] \in Light => held[h] \in synced

\* When `cps light-client` has ended after shutdown(), nothing of the node is
\* left: both tasks are joined, every client connection is closed and the
\* status says so.  Only of a server that panicked, which the status says too,
\* a connection may be left, and that one is aborted.
ShutdownClosesAll ==
    cli = "exited" =>
        \A n \in Light : status[n] # "none" =>
            /\ tasks[n] = {} /\ status[n] \in Terminal
            /\ \A c \in Connections(n) : status[n] = "failed" /\ conn[n][c] = "aborted"

\* The published connection goes to a node that is terminal.
DeadLink ==
    slot = "ready" /\ held["slot"] \in Light /\ status[held["slot"]] \in Terminal

\* A connection whose node is terminal does not stay published: the
\* supervisor replaces it.
DeadLinkReplaced == DeadLink ~> ~DeadLink
============================================================================
