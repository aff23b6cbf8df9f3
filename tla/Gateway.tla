------------------------------ MODULE Gateway ------------------------------
(***************************************************************************)
(* The gateway process (edge/src/app.rs): EdgeApp::start assembles the     *)
(* subsystems in dependency order and may fail at every one of them, run() *)
(* waits for Ctrl-C, and shutdown() joins every task.  What the tasks do   *)
(* is in the modules of the components; here is only what starts them and  *)
(* what ends them: the shutdown signal (which a dropped controller also    *)
(* gives), a closed ingress channel and a closed publish channel.  The     *)
(* process may crash at any step and be started again.                     *)
(***************************************************************************)
EXTENDS GatewayConfig, Gossip

CONSTANTS
    RawConfig,      \* configurations the program can be given
    Seed,           \* node secrets that can be generated
    NoSeed

ASSUME GatewayConstants ==
    /\ RawConfig \subseteq ConfigType
    /\ NoSeed \notin Seed
    /\ Seed \cap {"absent", "partial", "corrupt"} = {}

VARIABLES
    cfg,        \* the configuration
    source,     \* "file": read by `edge gateway`; "api": given to EdgeApp::start
                \* without validation (a valid one would behave as from a file)
    gpc,        \* where start() or run() is
    why,        \* what start() failed with
    running,    \* tasks that run
    shut,       \* the shutdown signal reads as triggered
    senders,    \* who holds a sender of the ingress channel
    sinks,      \* who holds the sinks, and with them the publish channel
    idFile,     \* pubsub.identity_file: a seed, or what is wrong with it
    seed,       \* the seed in use
    peerIds,    \* history: peer ids announced under a configured identity file
    draining,   \* servers that have stopped listening and wait for open requests
    requests    \* of those, the ones at which a client has a request open

served == <<draining, requests>>
gatewayOnly == <<cfg, source, gpc, why, running, shut, senders, sinks, idFile, seed, peerIds,
                 served>>
gatewayVars == <<gossipVars, gatewayOnly>>

Task == {"gossip", "batcher", "anchor", "pipeline", "http", "meshtastic", "ops"}
Server == {"http", "ops"}
Step == {"load", "pubsub", "identity", "write", "build", "anchoring", "policy",
         "http", "meshtastic", "ops", "up", "stopping", "down", "failed"}

\* Two of the three things that can be wrong with a start are outside the
\* program: a file, a socket.  The third is the configuration.
Outside == {"identity", "listen", "key-file", "store", "whitelist", "bind", "signal"}

GatewayTypeOK ==
    /\ GossipTypeOK
    /\ cfg \in RawConfig
    /\ source \in {"file", "api"}
    /\ gpc \in Step
    /\ why \in Outside \cup {"none", "invalid", "multiaddr", "setting"}
    /\ running \subseteq Task
    /\ shut \in BOOLEAN
    /\ senders \subseteq {"start", "http", "meshtastic"}
    /\ sinks \in {"start", "pipeline", "gone"}
    /\ idFile \in Seed \cup {"absent", "partial", "corrupt"}
    /\ seed \in Seed \cup {NoSeed}
    /\ peerIds \subseteq Seed
    /\ draining \subseteq running \cap Server /\ requests \subseteq draining

GatewayInit ==
    /\ GossipInit
    /\ cfg \in RawConfig
    /\ source \in {"file", "api"} /\ (source = "api" => Validate(cfg) # "Ok")
    /\ gpc = "load"
    /\ why = "none"
    /\ running = {}
    /\ shut = FALSE
    /\ senders = {"start"}
    /\ sinks = "start"
    /\ idFile \in {"absent", "corrupt"} /\ (idFile = "corrupt" => cfg.pubsub.identity_file)
    /\ seed = NoSeed
    /\ peerIds = {}
    /\ draining = {} /\ requests = {}
-----------------------------------------------------------------------------
\* An error leaves start(): what it held is dropped, the controller included.
Fail(reason) ==
    /\ why' = reason
    /\ gpc' = "failed"
    /\ shut' = TRUE
    /\ senders' = senders \ {"start"}
    /\ sinks' = IF sinks = "start" THEN "gone" ELSE sinks
    /\ UNCHANGED <<gossipVars, cfg, source, running, idFile, seed, peerIds, served>>

\* start() goes on with more tasks running.
Spawned(tasks, next) ==
    /\ running' = running \cup tasks
    /\ gpc' = next
    /\ UNCHANGED <<cfg, source, why, shut, idFile, seed, served>>

\* run_gateway: a configuration file is validated; an API caller's is not.
Load ==
    /\ gpc = "load"
    /\ \/ /\ source = "file" => Validate(cfg) = "Ok"
          /\ Spawned({}, "pubsub")
          /\ UNCHANGED <<gossipVars, senders, sinks, peerIds>>
       \/ /\ source = "file" /\ Validate(cfg) # "Ok"
          /\ Fail("invalid")

\* GossipConfig::from_pubsub; without pubsub the gateway is ready at once.
StartPubsub ==
    /\ gpc = "pubsub"
    /\ \/ /\ cfg.pubsub.enabled /\ cfg.pubsub.addresses = "parse"
          /\ Spawned({}, "identity")
          /\ UNCHANGED <<gossipVars, senders, sinks, peerIds>>
       \/ /\ cfg.pubsub.enabled /\ cfg.pubsub.addresses # "parse"
          /\ Fail("multiaddr")
       \/ /\ ~cfg.pubsub.enabled
          /\ ready' = TRUE
          /\ Spawned({}, "anchoring")
          /\ UNCHANGED <<dialing, open, events, table, outbox, senders, sinks, peerIds>>

\* Mutant: a fresh identity whenever the daemon starts.
IdentityAlwaysFresh ==
    /\ gpc = "identity"
    /\ seed' \in Seed
    /\ gpc' = "build"
    /\ UNCHANGED <<gossipVars, cfg, source, why, running, shut, senders, sinks, idFile, peerIds, served>>

\* load_or_create_identity: an ephemeral identity, the persisted one, an
\* unusable file, or a new seed to be written.
LoadIdentity ==
    /\ gpc = "identity"
    /\ \/ /\ ~cfg.pubsub.identity_file
          /\ seed' \in Seed
          /\ gpc' = "build"
          /\ UNCHANGED <<gossipVars, cfg, source, why, running, shut, senders, sinks,
                         idFile, peerIds, served>>
       \/ /\ cfg.pubsub.identity_file /\ idFile \in Seed
          /\ seed' = idFile
          /\ gpc' = "build"
          /\ UNCHANGED <<gossipVars, cfg, source, why, running, shut, senders, sinks,
                         idFile, peerIds, served>>
       \/ /\ cfg.pubsub.identity_file /\ idFile \in {"partial", "corrupt"}
          /\ Fail("identity")
       \/ /\ cfg.pubsub.identity_file /\ idFile = "absent"
          /\ seed' \in Seed
          /\ idFile' = "partial"
          /\ gpc' = "write"
          /\ UNCHANGED <<gossipVars, cfg, source, why, running, shut, senders, sinks, peerIds, served>>

\* fs::write creates the file before it has its contents, and may fail.
WriteIdentity ==
    /\ gpc = "write"
    /\ \/ /\ idFile' = seed
          /\ gpc' = "build"
          /\ UNCHANGED <<gossipVars, cfg, source, why, running, shut, senders, sinks,
                         seed, peerIds, served>>
       \/ Fail("identity")

\* GossipNode::new, and its task.
BuildGossip ==
    /\ gpc = "build"
    /\ \/ /\ GossipStarts(cfg.pubsub.min_connected_peers)
          /\ Spawned({"gossip"}, "anchoring")
          /\ peerIds' = peerIds \cup (IF cfg.pubsub.identity_file THEN {seed} ELSE {})
          /\ UNCHANGED <<senders, sinks>>
       \/ Fail("listen")

\* spawn_anchoring checks again what an unvalidated configuration may lack.
AnchoringSettings ==
    /\ cfg.storage_path /\ cfg.blockchain.key_file /\ cfg.blockchain.node_id
    /\ FirstError(ValidateBatcher(cfg.batcher)) = "Ok"

StartAnchoring ==
    /\ gpc = "anchoring"
    /\ \/ /\ cfg.blockchain.enabled => AnchoringSettings
          /\ Spawned(IF cfg.blockchain.enabled THEN {"batcher", "anchor"} ELSE {}, "policy")
          /\ UNCHANGED <<gossipVars, senders, sinks, peerIds>>
       \/ /\ cfg.blockchain.enabled
          /\ IF AnchoringSettings THEN Fail("key-file") \/ Fail("store")
                                  ELSE Fail("setting")

\* auth::from_config: the settings a policy needs.
PolicySettings(auth) ==
    CASE auth.mode = "none" -> TRUE
      [] auth.mode = "whitelist" -> auth.file
      [] auth.mode = "cps" ->
            auth.root /\ ExpectedGenesisHash(auth) = "Ok" /\ auth.limits["cache_capacity"] > 0

\* The policy and the pipeline, which takes the sinks.
StartPipeline ==
    /\ gpc = "policy"
    /\ \/ /\ PolicySettings(cfg.auth)
          /\ Spawned({"pipeline"}, "http")
          /\ sinks' = "pipeline"
          /\ UNCHANGED <<gossipVars, senders, peerIds>>
       \/ ~PolicySettings(cfg.auth) /\ Fail("setting")
       \/ cfg.auth.mode = "whitelist" /\ cfg.auth.file /\ Fail("whitelist")

\* spawn_http_ingress: its router has a sender.
StartHttp ==
    /\ gpc = "http"
    /\ \/ /\ Spawned(IF cfg.http.enabled THEN {"http"} ELSE {}, "meshtastic")
          /\ senders' = senders \cup (IF cfg.http.enabled THEN {"http"} ELSE {})
          /\ UNCHANGED <<gossipVars, sinks, peerIds>>
       \/ cfg.http.enabled /\ Fail("bind")

\* spawn_meshtastic_ingress is given start's own sender.
StartMeshtastic ==
    /\ gpc = "meshtastic"
    /\ Spawned(IF cfg.meshtastic.enabled THEN {"meshtastic"} ELSE {}, "ops")
    /\ senders' = IF cfg.meshtastic.enabled
                  THEN (senders \ {"start"}) \cup {"meshtastic"} ELSE senders
    /\ UNCHANGED <<gossipVars, sinks, peerIds>>

\* spawn_ops_server; start() returns and drops what it still holds.
StartOps ==
    /\ gpc = "ops"
    /\ \/ /\ Spawned({"ops"}, "up")
          /\ senders' = senders \ {"start"}
          /\ UNCHANGED <<gossipVars, sinks, peerIds>>
       \/ Fail("bind")

\* Mutant: the tasks are awaited but never told to stop.
JoinOnly ==
    /\ gpc = "up"
    /\ gpc' = "stopping"
    /\ UNCHANGED <<gossipVars, cfg, source, why, running, shut, senders, sinks,
                   idFile, seed, peerIds, served>>

\* run(): Ctrl-C triggers the shutdown.
CtrlC ==
    /\ gpc = "up"
    /\ gpc' = "stopping"
    /\ shut' = TRUE
    /\ UNCHANGED <<gossipVars, cfg, source, why, running, senders, sinks,
                   idFile, seed, peerIds, served>>

\* run(): the signal handler cannot be installed; the app is dropped.
CtrlCFails ==
    /\ gpc = "up"
    /\ Fail("signal")

\* shutdown(): every task was joined.
AllJoined ==
    /\ gpc = "stopping" /\ running = {}
    /\ gpc' = "down"
    /\ UNCHANGED <<gossipVars, cfg, source, why, running, shut, senders, sinks,
                   idFile, seed, peerIds, served>>

\* The process ends, in order or by a crash at any step, and is started again.
Restart ==
    /\ gpc # "load"
    /\ GossipReset
    /\ gpc' = "load"
    /\ why' = "none"
    /\ running' = {}
    /\ shut' = FALSE
    /\ senders' = {"start"}
    /\ sinks' = "start"
    /\ seed' = NoSeed
    /\ draining' = {} /\ requests' = {}
    /\ UNCHANGED <<cfg, source, idFile, peerIds>>
-----------------------------------------------------------------------------
TaskEnds(task) ==
    /\ task \in running
    /\ running' = running \ {task}
    /\ senders' = senders \ {task}
    /\ UNCHANGED <<cfg, source, gpc, why, shut, idFile, seed, peerIds>>

\* The batcher and the anchor end on the signal; the anchor also gives up on a
\* permanent chain error.
SignalledEnds(task) ==
    /\ task \in {"batcher", "anchor"}
    /\ shut \/ task = "anchor"
    /\ TaskEnds(task)
    /\ UNCHANGED <<gossipVars, sinks, served>>

\* with_graceful_shutdown: on the signal a server stops listening; a client
\* may have a request open by then.
StopsListening(server) ==
    /\ shut /\ server \in (running \cap Server) \ draining
    /\ draining' = draining \cup {server}
    /\ requests' \in {requests, requests \cup {server}}
    /\ UNCHANGED <<gossipVars, cfg, source, gpc, why, running, shut, senders, sinks,
                   idFile, seed, peerIds>>

\* The last request is answered, or its client goes away: when, is up to the
\* client, who may take for ever to send a body.
RequestsEnd(server) ==
    /\ server \in requests
    /\ requests' = requests \ {server}
    /\ UNCHANGED <<gossipVars, cfg, source, gpc, why, running, shut, senders, sinks,
                   idFile, seed, peerIds, draining>>

\* The task of a server ends with its last open request, however long that takes.
ServerEnds(server) ==
    /\ server \in draining \ requests
    /\ TaskEnds(server)
    /\ draining' = draining \ {server}
    /\ UNCHANGED <<gossipVars, sinks, requests>>

\* Pipeline::run: the signal, or no ingress sender is left.
PipelineEnds ==
    /\ shut \/ senders = {}
    /\ TaskEnds("pipeline")
    /\ sinks' = "gone"
    /\ UNCHANGED <<gossipVars, served>>

\* The Meshtastic transport: the signal, or the pipeline is gone.
MeshtasticEnds ==
    /\ shut \/ "pipeline" \notin running
    /\ TaskEnds("meshtastic")
    /\ UNCHANGED <<gossipVars, sinks, served>>

\* GossipNode::run: the signal, or the publish channel is closed and drained.
\* The swarm goes with it; the peer table and the readiness flag stay.
GossipEnds ==
    /\ shut \/ (sinks = "gone" /\ outbox = 0)
    /\ TaskEnds("gossip")
    /\ dialing' = {}
    /\ open' = [p \in Peer |-> 0]
    /\ events' = <<>>
    /\ UNCHANGED <<table, ready, outbox, sinks, served>>

GossipStep ==
    /\ "gossip" \in running
    /\ \/ DialReserved
       \/ \E p \in Peer : DialFails(p) \/ SwarmConnects(p) \/ SwarmDisconnects(p)
       \/ OnSwarmEvent(cfg.pubsub.min_connected_peers)
       \/ Publish
       \/ "pipeline" \in running /\ Offer
    /\ UNCHANGED gatewayOnly

StartStep ==
    \/ Load \/ StartPubsub \/ LoadIdentity \/ WriteIdentity \/ BuildGossip
    \/ StartAnchoring \/ StartPipeline \/ StartHttp \/ StartMeshtastic \/ StartOps

EndStep ==
    \/ \E task \in Task : SignalledEnds(task)
    \/ \E server \in Server :
          StopsListening(server) \/ RequestsEnd(server) \/ ServerEnds(server)
    \/ PipelineEnds \/ MeshtasticEnds \/ GossipEnds

GatewayNext ==
    \/ StartStep
    \/ CtrlC \/ CtrlCFails \/ AllJoined
    \/ Restart
    \/ EndStep
    \/ GossipStep

GatewaySpec == GatewayInit /\ [][GatewayNext]_gatewayVars

\* The runtime polls start() and every task that can end; the operator need
\* not press Ctrl-C, peers need not come, and a client need not end its request.
GatewayFairSpec ==
    /\ GatewaySpec
    /\ WF_gatewayVars(StartStep)
    /\ WF_gatewayVars(AllJoined)
    /\ \A task \in Task : WF_gatewayVars(SignalledEnds(task))
    /\ \A server \in Server :
          /\ WF_gatewayVars(StopsListening(server))
          /\ WF_gatewayVars(ServerEnds(server))
    /\ WF_gatewayVars(PipelineEnds)
    /\ WF_gatewayVars(MeshtasticEnds)
    /\ WF_gatewayVars(GossipEnds)
-----------------------------------------------------------------------------
\* /ready tells the truth: once the swarm's reports are handled, the flag says
\* whether enough distinct peers have an open connection, however many
\* connections each of them opened and closed.
ReadinessTracksPeers ==
    "gossip" \in running /\ events = <<>> =>
        (ready <=> Cardinality({p \in Peer : open[p] > 0}) >= cfg.pubsub.min_connected_peers)

\* With an identity file the node announces one peer id for ever, over crashes
\* and restarts, in whatever state a crash leaves the file.
StablePeerId == Cardinality(peerIds) <= 1

\* A configuration file that `edge config check` accepts gives the pipeline
\* and the batcher usable limits, and starts unless an address does not parse
\* or the outside world (a file, a socket) is in the way: nothing that
\* start() checks again is missed by validate().
AcceptedConfigStarts ==
    source = "file" =>
        /\ why # "setting"
        /\ gpc \notin {"load", "failed"} /\ cfg.auth.mode = "cps" =>
              \A l \in CpsLimit : cfg.auth.limits[l] > 0

\* Once start() failed or shutdown() began, every task that had been spawned
\* ends by itself, except a server for as long as a client has a request open:
\* whenever the last request of a server ends, so does the server.  With such a
\* client shutdown() waits, without a time limit.
EveryTaskEnds == gpc \in {"failed", "stopping"} ~> running \subseteq requests
============================================================================
