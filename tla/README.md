# Robins in TLA+

TLA+ specifications of the Robonomics gateway in this repository
(`crates/edge`, with the `libcps` client library and the `mqtt-bridge`), the
TLC instances that check them, and TLAPS proofs of all the safety properties
that the runs check.

A sensor's signed envelope enters the edge gateway through HTTP or a
Meshtastic radio, is verified, authorized against a tree on the Robonomics
chain and deduplicated, and is then handed to the sinks: a durable batch store
and a gossip network. A batcher packs the stored envelopes into batches and an
anchor submits the batches, one transaction at a time, to the chain. The
gateway promises two things: what was persisted is anchored or
explicitly given up, whatever crashes or fails on the way; and only what an
authorized sensor signed is ever forwarded.

## 1. Inventory

### Edge gateway (`crates/edge/src`)

| component | state | operations | what is hard about it |
|---|---|---|---|
| batch store (`batch_store`) | redb tables `pending`, `ready`, the counters, the format descriptor | `push_message`, `pending_messages`, `commit_batches`, `ready_batches`, `confirm_batch`, `set_format_descriptor`, `reconcile_format` | several tasks share it; a crash falls between any two transactions; a batch must keep its bytes after an upgrade that changes compression |
| batcher (`batcher`) | the task's position, candidate and prepared batches; a permit of `Notify` | sink `deliver`, `step`, `flush_all`, `pack`, `pack_into`, the worker loop | messages arrive between the scan and the commit; half of a batch may be undecodable or oversized; wake-ups may be lost; storage errors mid-step |
| anchor (`anchor`) | the page of ready batches in memory, the transaction in flight | load, poll, submit, confirm, retry, drain at shutdown | a transaction that timed out may still be included; confirmation and a crash; the cached page goes stale |
| shutdown (`shutdown.rs`, `app.rs`) | a watch flag, the `Notify` permit, the task set | trigger, `recv`, start and stop order | tasks see the flag at different moments |
| pipeline (`pipeline/mod.rs`) | the bounded ingress channel, the message in hand | `run`, `process`, `resolve`, `accept`, `fan_out` | back-pressure without deadlock; a failing required sink during shutdown |
| authorization stage (`pipeline/authorize.rs`) | parked messages per sensor, queued sensors, running lookups, a counter | `admit`, `next_resolution`, `start_queued` | one lookup per sensor; a counter beside the map it counts; a stage at its limit |
| dedup cache (`pipeline/dedup.rs`) | ids in insertion order with expiry | `insert_if_new`, `forget`, prune, evict | a message that was not stored must not stay remembered |
| CPS policy (`auth/cps.rs`) | an LRU cache of decisions, denials with a TTL | `try_authorize`, `authorize`, the walk up the tree | decisions cached before the asker learns of them; failures must not be cached; the tree changes meanwhile |
| HTTP ingress (`ingress/http.rs`) | none of its own | decode, `try_send`, status codes | a full channel |
| Meshtastic ingress (`ingress/meshtastic`) | partial assemblies, counters per sender, the connection | `accept`, `sweep_expired`, connect, serve, reconnect | lost, duplicated, reordered fragments; limits; two time-outs |
| chain registry (`chain.rs`) | per endpoint: Connecting, Retrying, Ready, Failed | `resolve`, `get`, `try_get`, the supervisor | waiters during reconnection; permanent failure |
| gossip node (`p2p`) | peers with connection counts, readiness, the command queue | swarm events, publish, dial | several connections per peer; readiness flaps |
| configuration (`config.rs`) | the parsed file | defaults, `validate`, `edge config check/generate` | limits checked in one place and relied on in a dozen others |
| gateway process (`app.rs`, `cli/mod.rs`) | the started tasks, the shutdown controller, the identity file | `EdgeApp::start`, `run`, `shutdown` | a start that fails half way; tasks that end each other through channels; a crash while a file is written |
| protocol (`protocol`) | none | sign, verify, encode | structure limits |
| tools (`cli/{message,envelope,batch,key,sensor}.rs`) | the output of the previous command; for `sensor meshtastic` the fragment it waits for | encode, encrypt, sign, convert, pack, read, send | one form of text that reads as two formats; late and repeated acknowledgements; saturating fields |
| observability | the readiness flag, counters | `/health`, `/ready`, `/metrics` | readiness is recomputed from another component's table |

### Client library (`crates/libcps`)

| component | state | operations | what is hard about it |
|---|---|---|---|
| light node (`light`) | a status, two tasks, connections and their request queues, the stop flag | `start`, `wait_ready`, `wait`, `shutdown`, drop, `serve`, `relay`, `monitor` | a status that several tasks write; stop against handshakes; references that keep a node alive |
| CPS client (`cps.rs`, `transaction.rs`, `read.rs`, `node`) | a connection; one pending transaction per caller | pinned reads, build, submit, wait, watch | what an error says of a transaction; nonces shared by callers; reorganizations |
| encryption (`crypto`) | keypairs | encrypt, decrypt | scheme and algorithm mismatches |
| permits, scopes, identities, addresses | none of their own; a permit travels as a file | issue, load, check and use a permit; grants; account views | a permit is checked against one block and used in a later one: it expires, or the scope is a new one by then |
| command line (`cli`) | one invocation | show, get, set, create, delete, grant, watch, ... | several reads that must agree; waiting policies |

### MQTT bridge (`crates/mqtt-bridge`)

Subscriptions that write MQTT messages into CPS nodes, and publications that
forward finalized node payloads to topics, each a task with an MQTT event loop.
The event loop is not polled while an update awaits finality, and a session
that breaks takes its subscription and what was in flight with it; the task does
not subscribe again.

### How the parts interact

* transports -> pipeline: a bounded `mpsc` channel, `try_send` (never waits);
* pipeline -> policy: `try_authorize` on the pipeline task, `authorize` on
  spawned tasks that the stage joins; both share the cache under a mutex;
* pipeline -> sinks: `deliver`, awaited in order, retried if `required`;
* batch sink -> batcher: the store, and a `Notify` permit;
* batcher -> anchor: only through the store;
* anchor, policy -> chain: through a `ChainRegistry` handle and subxt, with a
  time limit on every call;
* anchor, policy <- registry: shared references to a `Chain`; the last one that
  is dropped stops the light node behind it;
* gossip -> operations server: the readiness flag;
* bridge, command line -> chain: through `libcps`, as independent callers that
  may sign for the same account;
* sensor tool -> gateway: fragments over a mesh, acknowledged one by one;
* everybody <- shutdown: a watch channel.

The properties that make each part correct are the ones in section 4; the
hazards they guard against are listed with their lines in `PROJECT.json`.

## 2. Modules

| module | models | state and actions against the code |
|---|---|---|
| `Signals` | `shutdown.rs`, the `Notify` between sink and batcher | `shutdown` is the watch flag, `permit` the stored permit: `notify_one` twice leaves one |
| `Encoding` | `batch_store` codec | a payload is a sequence of messages with a compression; `PayloadLen` is its encoded length. An envelope's own encoding may be shorter than the bytes received, since the batcher re-encodes it |
| `BatchStore` | `batch_store/{mod,redb}.rs` | `pending` and `ready` are the tables as functions, `nextSequence` and `nextBatchId` the counters, `format` the descriptor. One action per redb transaction, which is atomic and durable: a crash falls before or after it |
| `Batcher` | `batcher/{mod,worker}.rs`, the batch sink | `bpc` is the position of the worker: in `step` before the scan, packing, in the `select!` of `run`, or stopped; `force` is `flush_all`. `pack_into`'s recursion is the stack `work` and one action per slice, so messages arrive and the process dies in the middle of a pack |
| `Anchor` | `anchor/{mod,worker}.rs` | `apc` is connect, load, idle, submit, inflight, confirm, stopped or failed; `page` is the page in memory; `limbo` the transactions given up on that the chain may still include; `finalized` the chain |
| `EdgeAnchoring` | `app.rs`: `spawn_anchoring`, start, shutdown | composes the four with the process: `Start` with any compression, graceful `Shutdown` and `Exit`, `Crash` anywhere |
| `AnchoredQueue` | (abstract) | what the durable path promises: messages are accepted, and later anchored, or dropped if they cannot be batched; none of the three sets ever shrinks |
| `CpsAuth` | `auth/cps.rs` | `cache` in LRU order, `lapsed` the denials past `negative_ttl`, `lookups` the position of each task, `chainSaid` what the lookups read (history) |
| `Lineage` | the walk of `CpsAuth::lookup` | a snapshot maps nodes to parents, and need not be a tree; `Lookup` is the loop's result, `Below` what it should decide, `LookupResult` every outcome on every snapshot |
| `AuthStage` | `pipeline/authorize.rs` | `parked`, `queued`, `pendingCount` as in the struct; `running` is `DOMAIN lookups` |
| `Pipeline` | `pipeline/{mod,dedup}.rs`, the ingress channel | `ppc` is where the task awaits; `waiting` is the message `process` holds while the stage is full, `granted` the messages of a decision being accepted, `order` the dedup cache |
| `Reassembly` | `ingress/meshtastic/reassembly.rs`, `frame.rs` | `assemblies` and `pendingPerSender` as in the struct; one operator per outcome of `accept`; `idle` and `overdue` hold the assemblies past a time-out |
| `MeshtasticIngress` | `ingress/meshtastic/mod.rs` | `spc` is where the reconnect loop or the session waits, `outbox` the message `tx.send` waits with |
| `LightNode` | `libcps/src/light` | `status`, `stop` as in the code, `tasks` the running monitor and server, `conn` and `pending` per client the connection and its queue, a connection whose task was aborted included; smoldot's `phase` is external |
| `ChainRegistry` | `chain.rs`, `cps light-client` | `slot` the published `State`, `sup` where `supervise` is, `held` who holds which `Arc<Chain>`; a node is asked to stop when nobody holds it |
| `GatewayConfig` | `config.rs`, `batcher/config.rs`, `cli/config.rs` | the sections as records; `Validate` gives the first error in the code's order |
| `Gossip` | `p2p`, `observability/health.rs` | `open` the swarm's connections (external), `events` its reports not handled yet, the reference counts of `PeerRegistry`, `ready`, the publish queue |
| `Gateway` | `app.rs`, `cli/mod.rs` | `gpc` the position in `start`, `run` or `shutdown`, `running` the spawned tasks, `draining` the servers that stopped listening, `requests` those with a request open (clients are external); the identity file is absent, broken or whole |
| `CpsChain` | the Robonomics chain (external) | finalized blocks, best blocks that may be taken back, a pool; a transaction carries its signer's nonce; the CPS pallet with nested scopes, grants, identities and permits |
| `CpsClient` | `libcps/src/{cps,transaction,read,error,node,permit,identity,types}` | `job` a caller's transaction from the precondition check to the receipt, `told` the definite answers given (history); reads are operators of a tree; a signature is the record of who signed what |
| `MqttBridge` | `mqtt-bridge/src/bridge.rs` | `sub`, `pub` the two tasks, `broker` and `outq` the MQTT side, `log` what was published (history) |
| `CpsCommands` | `libcps/src/cli` | `cli` one invocation after another: pin, read, show, or resolve, submit, wait; `file` the permit the last `identity permit` printed |
| `Sealing` | `libcps/src/crypto` | symbolic key agreement and sealing |
| `SensorMessage` | `cli/message.rs` | `Parse` from arguments to a message, `PrintMessage` back to readings; fields saturate at `MaxI32` and `MaxU32`. The vectors that `parse` fills are functions on the positions of the arguments, so a reading can be traced to what it was written as |
| `SignedEnvelopes` | `protocol`, `cli/{format,envelope,batch,key}.rs` | documents are a wire record in a representation; sniffing as the code orders it |
| `SensorTools` | `cli/sensor.rs`, `frame.rs` | a script of commands; `ran`, `outs` what succeeded and what it wrote, `origin` the command each output goes back to (history); `snd` the sending command, `mesh` packets and replies on the air, and the gateway's `Reassembly` at the other end |
| `EdgeAnchoringProofs`, `EdgeAnchoringOrder` | | the proofs about `EdgeAnchoring`, the second extending the first |
| `PipelineProofs`, `MeshtasticProofs`, `ChainRegistryProofs`, `GatewayProofs`, `CpsProofs`, `SensorToolsProofs` | | the proofs about `Pipeline`, `MeshtasticIngress`, `ChainRegistry`, `Gateway`, `CpsCommands`, `SensorTools` |
| `MCBatcher`, `MCEdgeAnchoring`, `MCPipeline`, `MCMeshtastic`, `MCChain`, `MCGateway`, `MCCps`, `MCSensorTools` | | the instances |

`EdgeAnchoring` extends `Batcher` and `Anchor`, which both extend
`BatchStore` and `Signals`; `Pipeline` extends `AuthStage`, which extends
`CpsAuth`, which extends `Lineage`; `MeshtasticIngress` extends `Reassembly`;
`ChainRegistry` extends `LightNode`; `Gateway` extends `GatewayConfig` and
`Gossip`; `CpsCommands` extends `MqttBridge`, `CpsClient` and `CpsChain` in
turn; `SensorTools` extends `Reassembly` and, through `SignedEnvelopes` and
`SensorMessage`, `Sealing`. The operators whose comment begins with "Mutant:" are plausible
wrong versions of the operator after them. No specification uses them; they
exist to show that the properties can fail.

### Abstractions

* A message is its sequence number and a member of a small set of envelopes;
  sizes are given by tables. Compression is a function from length to length.
* `aged` collects the messages whose `max_batch_age` has passed, and only
  grows: a wall clock that is set back is not modelled.
* What happens to a transaction the anchor gave up on (time-out, lost
  connection, crash) is over-approximated: it sits in `limbo` and may be
  finalized at any later time or never. The pool and the account's nonce
  would rule some of these orders out. Anchoring is therefore at least once,
  which is what the code claims too.
* A start that fails after its tasks were spawned looks like `Crash`.
* Every lookup may read another finalized tree: the result is chosen among those
  of all snapshots. The walk is one step, since all its reads are pinned to one
  block. Signature verification in the pipeline is membership in `Authentic`.
* A Meshtastic payload is the sequence of its fragment bodies. The truncated
  SHA-256 is an operator of the payload; two payloads never share an id in the
  instance. Lost packets are packets that are not heard.
* The history `heard` of the Meshtastic session forgets the frames of an
  assembly that is gone, so what it says of a payload is said of the
  assembly that produced it, and not of the session as a whole.
* A configuration is a record of its sections in which an optional path or id is
  a Boolean. What the outside world can refuse (a file, a socket, a device) may
  be refused at every start. The `[pipeline]` section is not modelled: `channel`
  and the deduplication cache raise its limits to one (`max(1)`).
* The chain executes the calls the client can build on a tree of a few nodes;
  a node that is deleted and created again keeps its number. Whether the id of
  a new node or scope can be decoded from the events is left open. MQTT is QoS 0
  with a clean session, as the bridge configures it.
* `BlockWatcher` drops an event it cannot decode without an error. Such a block
  is passed over like one that could not be read, and both are in `faulty`.
* Plain messages that are not UTF-8 grow when the bridge makes them text
  (`m.longer`); replacement characters are otherwise left out.
* `wait_for_ack` checks neither who sent a routing packet nor what it says unless
  it is an error. That only the addressee of a packet answers it without an error
  is an assumption about the mesh, and `DeliveredMeansReceived` rests on it.
* Cryptography is symbolic. The bytes of an envelope are its length and, in
  fragments, the positions they come from; fields hold a few values so that
  saturation happens.
* Metrics and logs are left out.

## 3. Runs

| run | instance and bounds | question |
|---|---|---|
| `batcher` | 4 kinds of envelope (small, compressible only, undecodable, shrinking when re-encoded), 3 pushes, batches of up to 3 messages and 3 units, one compression chosen at start | does packing keep every message and the order, while messages arrive, ages run out and the worker stops? |
| `anchoring` | 2 envelopes, 2 pushes, 3 starts with either compression, with fairness | the durable path through crashes, restarts, lost and late transactions; does every persisted message reach the chain in the end? |
| `pipeline` | 2 sensors, 3 envelopes, one of them forged, 3 arrivals, one concurrent lookup, 2 parked messages, caches of size 1, snapshots of 4 nodes and walks of at most 2 reads, with fairness | authorization, deduplication and fan-out with all tasks interleaved; does every message get an answer? |
| `pipeline_disk` | 1 sensor, 2 envelopes | is an envelope on disk before another sink sees it? (no) |
| `pipeline_order` | 1 sensor, 2 envelopes | are the messages of a sensor decided in arrival order? (no) |
| `pipeline_overflow` | 2 sensors, 3 envelopes, 4 arrivals, one parked message | are cached sensors spared from waiting for unknown ones? (no) |
| `meshtastic` | 2 senders, 3 message ids, payloads of up to four fragments, room for 3 assemblies, 2 per sender, with fairness | reassembly and the session under everything the air does to frames |
| `chain` | 2 light nodes, 2 users, 2 RPC clients of a node that admits one, 2 queued requests, with fairness | is one node alive at a time, is only a synchronized one handed out, is a dead one replaced? |
| `gateway` | 24 configurations, among them each wrong or extreme setting; 2 peers, 2 connections each, 2 events under way; 2 secrets; a request may be open at each server; crashes and restarts unbounded, with fairness | does what is accepted start, does what started end, is readiness true? |
| `cps_mqtt` | 2 nodes and one a command adds, 3 accounts, permits of at most one block, 3 finalized blocks of up to 2 transactions, one best block, 2 arrivals, 31 scripts of one or two commands, 3 configurations | what callers are told, what is written and published, and what is shown |
| `mqtt_reconnect` | the instance of `cps_mqtt` without commands | does the bridge hear its topic again after a broken connection? (no) |
| `sensor_tools` | all messages of up to 2 of 16 arguments (3 without reading back), all conversions between 3 formats, envelopes of 5 to 17 bytes in fragments of 4, 4 replies, 2 tries | do the tools understand each other, and does "delivered" mean received? |

Why the bounds are enough for the interesting cases. Three messages are the
fewest that `pack_into` splits unevenly and the fewest of which a middle one
can be rejected. Two messages give two batches, hence two ids, a page with a
successor, and a late transaction for the first while the second is in
flight. Three starts allow a crash, a restart with another compression and a
second crash during recovery. In the pipeline every limit is at one or two, so
every limit is reached: the third arrival finds the stage full, the second
sensor waits for the first one's slot and evicts its cache entry. The radio's
instance has a payload that just fits, one that is a fragment too long, a
garbled last fragment, a garbled count, and one sender with more payloads than
its limit; nothing bounds how often they are heard. The named
bounds are `MaxPushed`, `MaxStarts`, `MaxArrivals`, `MaxFinal`, `MaxBest`,
`MaxPerBlock`, `MaxEvents`, `MaxReplies` and `MaxTries`; none of them exists in
the code.

Four nodes are enough for the walk: a sensor's node, two ancestors and the root
give the direct child, the grandchild, a node at the depth limit, a cycle with
and without the sensor in it, a missing ancestor and a tree that ends elsewhere.
Two light nodes are the current one and one that a user keeps alive. Three
blocks allow an update, a second one signed over the same nonce, and one that
follows a reorganization. The envelope lengths lie on both sides of the single
frame, of each fragment boundary, of the gateway's limits and of the limit on
the number of fragments.

The proofs of section 5 hold for every value of the bounds.

### Stopping

The `batcher`, `meshtastic`, `chain`, `gateway`, `cps_mqtt` and `sensor_tools`
instances run with deadlock checking off: a task that saw the shutdown signal, a
supervisor that failed permanently, a process that has ended, a chain at its
last block and a script that is done have nothing left to do. In the other
instances the model always has a step, so deadlock is checked.

## 4. Properties

Durable path (`EdgeAnchoring`, `Batcher`):

* `NothingLost`: a message that `push_message` returned for is pending, in a
  ready batch, on chain, or given up.
* `BatchedOnce`: no message is in two batches, and none is both pending and
  batched: `commit_batches` moves, and a scan taken before a failed
  commit is not used after it.
* `ConfirmedIsAnchored`: a batch leaves the store only after it was finalized.
* `OnePayloadPerId`, `BatchesAreImmutable`: every copy of a batch, anywhere
  and at any time, has the same bytes; an id is never reused, not even when
  the table is empty after a restart.
* `FirstAnchoredInOrder`: batches are finalized for the first time in id order.
* `FormatDescribesReady`: a start with another compression is refused as long
  as batches wait in the old format, so the descriptor describes all of them.
* `KeepsPromise`: the path implements `AnchoredQueue`.
* `CandidateStaysPending`, `RejectsOnlyUnbatchable`, `ReadyInIngressOrder`:
  what the batcher packs is what it scanned, in order, less what cannot be
  batched.
* `FlushAllEnds`, `EventuallyAnchored`: liveness.

Pipeline:

* `EveryMessageInOnePlace`: a message answered with 202 is in one place, or was
  settled for one reason; the stage's counter agrees with its map.
* `OneLookupPerSensor`: the stage is single-flight, its counter and queue agree
  with its map, and "the stage is full, so a lookup is running" holds whenever
  the pipeline relies on it.
* `DecisionsFollowChain`: what is decided, cached or delivered for a sensor is
  what some finalized tree that a lookup read says of it, by reachability; a
  tree that is broken, cyclic or too deep decides nothing, and neither do
  expiry, eviction, time-outs and panics.
* `DuplicateWasStored`: nothing is suppressed as the duplicate of a message
  that was not stored.
* `StoredTwiceOnlyIfReleased`: a second copy is stored only after the cache let
  the first go.
* `EveryMessageSettles`: liveness.

Meshtastic transport:

* `SlotsAccounted`: the counters agree with the table, and both with the limits;
  no path out of an assembly leaks a slot or frees one twice, and `complete`
  never meets an empty slot.
* `HandedOverWasHeard`: a payload handed over consists of fragments heard from
  its sender since its assembly began, and is the one its id was computed from.
* `AssemblyEnds`, `MeshEnds`: liveness.

Chain connection:

* `OneLiveLight`: a process never runs two light nodes, however the old one was
  lost and whoever still holds it.
* `HandedOutSynced`: nobody is given a node that has not synchronized once.
* `ShutdownClosesAll`: after `cps light-client` ended its node has stopped with no
  task and no connection left, other than those whose tasks a panic of the
  server aborted and which end by themselves.
* `DeadLinkReplaced`: a connection whose node is terminal does not stay published.

Gateway process:

* `ReadinessTracksPeers`: with no report outstanding, `/ready` is whether enough
  distinct peers are connected, whatever connections came and went.
* `StablePeerId`: one peer id for ever, over crashes in the middle of writing it.
* `AcceptedConfigStarts`: a file that `edge config check` accepts is not refused
  by a constructor and gives no component a limit of zero.
* `EveryTaskEnds`: liveness of a failed start and of a shutdown. A server ends
  when its last request does; one whose client never finishes keeps
  `EdgeApp::shutdown` waiting, which joins every task without a time limit.

CPS client, bridge and command line:

* `OutcomeIsTrue`: an answer about a transaction awaited to finality, unless it is
  a `Transaction` error, is what the finalized chain holds. Success means that
  it was executed, and so does a `Runtime` error: the id of the new node or scope
  could not be decoded (`transaction.rs`, `decode_result`). A caller who takes it
  for a failure and submits again makes a second node.
* `WritesFollowReceipts`: the payloads the bridge wrote follow the order of its
  messages, each at most once, although a failed update may be included later.
* `PublishedInBlockOrder`: what is published is what each watched block set, in
  order, and no readable update is missed except in blocks that failed.
* `ShownIsOneBlock`: what a command shows is the state of one block.

Sensor tools:

* `DeliveredMeansReceived`: a delivery that was reported is complete at the
  gateway, within its limits, and nothing else ever is.
* `AddresseesRead`: an addressee reads exactly what was said to him, as the
  nearest value the field can hold, and nobody else does.
* `OutputReadsBack`: what one command writes the next one understands.

### Fairness

`anchoring`: tokio schedules a task whose future is ready, timers fire and
time passes: weak fairness of the worker's and the anchor's steps, of ageing,
and of the end of the process once its tasks have ended. The anchor retries a
failed submission for ever, and the worker's `select!` polls its branches in
random order, so of two branches that stay ready both are taken: strong
fairness of `Finalized` and of `BeginFlushAll`. An operator restarts a stopped
gateway with the compression it ran with. The property assumes that the store
fails only finitely often, and allows the anchor to have ended in the permanent
failure the code defines. Crashes are bounded by `MaxStarts`.

`pipeline`: the pipeline task runs, lookups end (each is under
`query_timeout`), and a required sink that is tried again and again accepts in
the end, or a shutdown ends the wait.

`meshtastic`: tasks run, the sweep ticks, the absolute time-out passes, and the
send ends because the pipeline reads or is gone. Connecting ends, since the
code hands that to the serial library and has no time limit of its own.
Strong fairness of the sweep and of shutdown is the random order of `select!`.

`batcher`: as for `anchoring`, of the worker alone.

`chain`: the runtime polls the supervisor, and the tasks of a node that was asked
to stop. Nothing is assumed of smoldot, of users or of RPC clients.

`gateway`: `start` goes on, and the batcher, the anchor, the pipeline, the radio
and the gossip node end when their signal was given or their channel closed,
since every one of them selects on it. The HTTP and the operations server stop
listening on the signal and end once no request is open
(`with_graceful_shutdown`). No fairness is assumed of the clients.

`cps_mqtt` and `sensor_tools` check safety only, since neither the chain nor
the mesh promises progress.

### Disagreements between the code and its documentation

1. `OnDiskBeforeOthers`: "an envelope is on disk before any other sink sees
   it" fails when a shutdown interrupts the retries of the batch sink: `fan_out`
   goes on to the gossip sink.
2. `SensorInArrivalOrder`: "one chain query decides them all, in arrival order"
   fails when a message arrives after the lookup cached its decision and before
   the pipeline joined it: it overtakes the parked ones.
3. `CachedNotDelayed`: `config.rs` says of `cps_max_pending` that further messages
   of sensors that are not cached "are dropped, so a flood of unknown sensors
   cannot grow memory or delay sensors that are cached". The code holds the
   message and stops reading the channel until a lookup ends, so cached sensors
   wait. That is what `authorize.rs` ("no shedding") and the gateway's own README
   ("beyond it ingestion pauses") say, and what `EveryMessageInOnePlace` is about.
4. `SubscribedWhenConnected`: the bridge "automatically reconnects on connection
   failures", but asks for its topic only once, before its loop. With a clean
   session, the default of the MQTT client, the broker forgets the subscription
   with the connection, so a reconnected bridge hears nothing any more.

Met while modelling and read off the code, without a run: the rustdoc of `pack`
promises "the fewest batches", while `pack_into` halves a slice that is too large,
so that one small and two large messages become three batches where two would do;
the bridge says that "algorithm and scheme are auto-detected from encrypted data",
while the publish task decrypts with an SR25519 keypair whatever the scheme
(`NodeDataToString`); a comment in `pipeline/mod.rs` says that
HTTP answers 503 while the stage is full, where `http.rs` answers 429; the help of `edge message` gives
pressure in hPa, while the value is stored as tenths of a Pascal and printed in
Pa; it names the range of a 16-bit temperature, while the field has 32 bits; the
rustdoc of `sign_message` says that `verify_envelope` accepts its result, while a
nonce given by the caller is not checked for its length.

## 5. Proofs

Every theorem below holds for all values of the constants that the modules'
assumptions admit: any number of messages, nodes, peers, clients and blocks, any
sizes, limits and bounds. Each group rests on an inductive invariant,
proved as a theorem of its own; TLC checked the invariants on small instances
before they were proved.

| module | theorem | property |
|---|---|---|
| `EdgeAnchoringProofs` | `TypeCorrect` | `TypeOK` |
| | `Invariance` | `IInv` |
| | `NoLoss` | `NothingLost` |
| | `ConfirmOnlyAnchored` | `ConfirmedIsAnchored` |
| | `StablePayloads` | `OnePayloadPerId` |
| | `OrderedAnchoring` | `FirstAnchoredInOrder` |
| | `FormatSound` | `FormatDescribesReady` |
| | `CommitNeverRefused` | `CandidateStaysPending`: the store's check that every consumed message is still pending never fails |
| | `Immutability` | `BatchesAreImmutable` |
| `EdgeAnchoringOrder` | `OrderInvariance` | `OrderInv` |
| | `AtMostOnce` | `BatchedOnce` |
| | `IngressOrderKept` | `ReadyInIngressOrder` |
| | `GivesUpOnlyUnbatchable` | `RejectsOnlyUnbatchable` |
| | `Refinement` | `KeepsPromise`: the durable path implements `AnchoredQueue` |
| `PipelineProofs` | `WalkDecides` | the walk allows exactly the sensors below the root, on every snapshot |
| | `PipelineInvariant` | `PipelineIInv` |
| | `Singleflight` | `OneLookupPerSensor` |
| | `FailClosed` | `DecisionsFollowChain` |
| | `DuplicatesAreStored` | `DuplicateWasStored` |
| | `StoredOnce` | `StoredTwiceOnlyIfReleased` |
| | `NothingLost` | `EveryMessageInOnePlace` |
| `MeshtasticProofs` | `MeshInvariant` | `MeshInv` |
| | `SlotsStayAccounted` | `SlotsAccounted` |
| | `OnlyWhatWasHeard` | `HandedOverWasHeard` |
| `ChainRegistryProofs` | `ChainInvariant` | `ChainIInv` |
| | `LightExclusion` | `OneLiveLight` |
| | `SyncBeforeUse` | `HandedOutSynced` |
| | `CleanShutdown` | `ShutdownClosesAll` |
| `GatewayProofs` | `GatewayInvariant` | `GatewayIInv` |
| | `ReadinessTrue` | `ReadinessTracksPeers` |
| | `PeerIdNeverChanges` | `StablePeerId` |
| | `ValidationSuffices` | `AcceptedConfigStarts` |
| `CpsProofs` | `CpsInvariant`, `AnswerInvariant`, `TopicInvariant` | `CpsInv`, `AnswerInv`, `TopicInv` |
| | `OneBlockShown` | `ShownIsOneBlock` |
| | `PublishesInOrder` | `PublishedInBlockOrder` |
| | `AnswersAreTrue` | `OutcomeIsTrue` |
| | `WritesInOrder` | `WritesFollowReceipts` |
| `SensorToolsProofs` | `ScriptInvariant` | `DeliveryInv`, `ToolsInv` |
| | `ReportedIsReceived` | `DeliveredMeansReceived` |
| | `EnvelopesReadBack` | `OutputReadsBack` |
| | `OnlyAddresseesRead` | `AddresseesRead` |

### The durable path

None of the properties is inductive alone. `IInv` adds what the steps rely on:

* `KeysBelowCounters`: the counters exceed every key in use and every id that
  exists anywhere, so a fresh id cannot meet an old copy
  (`OnePayloadPerId` and `BatchesAreImmutable` need it);
* `CandidateStaysPending`, `PackCoversCandidate`: from scan to commit the
  batcher's candidate stays pending, and every message of it is still to be
  packed, prepared, or rejected; so what a commit removes it also stores
  (`NothingLost`);
* `PreparedAsConfigured`: what will be committed is of the process's format
  (`FormatDescribesReady`);
* `PageIsOldestReady`: the anchor's memory is the head of the ready queue
  even as the batcher appends, hence what is submitted next is the
  oldest id not confirmed;
* `ConfirmAfterFinalized`, `LimboInOrder`: a confirmation follows the
  finalization it saw, and a transaction that was given up was submitted when
  everything before it was already on chain (`ConfirmedIsAnchored`,
  `FirstAnchoredInOrder`);
* `TasksNeedProcess`: no task outlives its process.

The preservation proof has one lemma per group of actions. Most of them change
little of what `KnownBatches` collects, so they share lemmas that reduce a
step to a subset of the known batches; the interesting cases are `Commit`
(messages move and ids are handed out), `Load` and `Confirm` (the page against
the store) and `AbandonTransaction` (the page's head enters limbo).

`OrderInv` adds order to `IInv`: the candidate is the oldest of what is pending
(`CandidateIsOldest`); what was prepared and the slices still on the stack follow
each other in ingress order (`PackInOrder`), since the left half is packed first;
ids are handed out in ingress order, also among batches that have left the
store, and what is pending is younger than all that was consumed
(`BatchesInOrder`). From that no message is in two batches, and with
`OnlyAccepted` every step maps to a step of `AnchoredQueue` or a stutter.

### The pipeline

`WalkDecides` is about `Lineage` alone. The recursive function behind the walk
exists, by the least length at which it would not, and by the same argument it
reaches a node exactly if there is a path of parents to it.

`PipelineIInv` says where a message can be and what each place knows:
`PlacesApart` and `PendingCounted` for `EveryMessageInOnePlace`; `TaskShape` for
what the task holds at each await; `DecisionsOnTheWay` (a decision is recorded as
the chain's before it is cached, joined or applied) for `DecisionsFollowChain`;
`DedupKnows` and `FanOutKnows` for the duplicates: what the dedup cache remembers
has reached the required sink, except for the envelope in fan-out, and that one
only up to the sink. This needs that at most one sink is required, and the
batch sink is the only one that is (`pipeline/batch_sink.rs`); with two of them
a shutdown could give up on the second after the first had stored.

### The Meshtastic transport

`MeshInv`: every assembly's counters agree with its slots and at least one slot is
missing (`AssembliesSound`), a sender's count is the number of its assemblies
(`CountsSound`), every filled slot holds a body heard in a frame of that sender,
message, index and count (`SlotsWereHeard`). The byte count is a sum over the
slots, so the module first proves what `MapThenSumSet` computes: a sum can be
taken apart at any element, whichever one the recursion picks.

### The chain connection

`ChainIInv` says who may hold which node at each stop of the supervisor:
between two attempts the registry holds nothing, during an attempt only
the supervisor holds the new node, afterwards it is also published
(`SupervisorShape`); a held node was started and not asked to stop, and the
supervisor holds every live one (`HeldAlive`). Two live nodes would both be the
supervisor's. `CliShape` and `DaemonShape` separate the registry from
`cps light-client`, which has one node and no supervisor.

### The gateway process

`QueueLeadsToOpen` is the heart of `ReadinessTracksPeers`: counting the reports
still queued leads from the peer table to the connections that are open, one
report at a time. With an empty queue the table is what is connected, and
`FlagOfTable` keeps the flag with the table. `OneIdentity`: a seed is in use only
once it is what the file holds, and a file that holds one is never replaced.
`ValidatedFile` with a lemma per section gives `AcceptedConfigStarts`:
"Ok" means that each check of each section passed.

### The CPS client, the bridge and the commands

`CpsInv`: the finalized chain only grows, a reading command's values are answers
of its pinned block, and what was published lies in order below the block the
watcher has seen; each block passed was published or there is a reason why not.

`AnswerInv` is about the ledger, the finalized blocks followed by the best ones.
`Ledger` says that along it nonces only rise, that an executed transaction is
below its signer's nonce ever after, and that an account's transactions are
executed in the order of their nonces. So a block that is built repeats none,
finalizing leaves the ledger as it is, and a reorganization falls back to a
prefix of it. An outcome that was told from a finalized block can then never be
joined by a second one. `BlockExtends` proves what the recursion of `BlockOn`
computes, from `Executable` and the fact that the pallet changes no nonces.

`TopicInv`: of the bridge's updates that are in the pool or in a block, the one
with the later message has the larger nonce. When the next one is signed, its
nonce is the finalized one, hence not below any other, and it is refused if it
equals that of one in the pool and if it is below the best one. So an
update that was reported as failed and is executed after all is still executed
before its successors.

### The sensor tools

`DeliveryInv` follows one envelope of `n` bytes from the command to the gateway.
`Prepared` and `OnTrack`: the command is the one at the head of the script, and
of its frames the first `at - 1` were acknowledged. `RepliesTrue`: a reply
without an error is about a packet that was received, and `Kept`: what was
received is in the gateway's queue, in its assembly, or was used up by a payload
that is complete, unless a sweep or a limit came between. Ids distinguish the
packets of all runs of the command, so a late reply to an earlier run answers
nothing (`PacketIds`). `OneAssembly`: all fragments, of both runs, meet in one
assembly, whose byte count is that of full bodies less what the last one lacks;
it can therefore neither be refused nor poisoned while the envelope is within
the limits. When all fragments are in, their bodies are the chunks of
`encode_frames` in order, so they lie end to end (`PayloadWhole`) and their hash
is the id.

`ToolsInv` says of the finished commands what later ones need to know.
`Recorded` and `Pending`: commands name outputs that exist. `Sourced`: every
output goes back to the command that `origin` names, which means that whatever
message is in it, inside an envelope or not, is what that command parsed.
Messages and envelopes are nested without a bound on the depth and no induction
over data is available, so `Traced` says this with a set of wires that is closed
under taking the message out of an envelope (`Closed`). `Understood` is
`OutputReadsBack` over the record.

`AddresseesRead` needs no invariant beyond `Sourced`. The rest are facts about the
operators: rounding and saturating finds the nearest multiple of the unit
within the field, and there is only one such (`RoundedNearest`,
`NearestUnique`); the groups partition the private arguments by recipient, each
named by its least member (`GroupsSplit`); an entry opens for exactly the key
that the recipient's address stands for (`Opens`).

### Assumptions

They are the named ASSUMEs of the modules, and TLC evaluates them in the runs.
Limits, sizes and bounds are natural numbers, positive where the configuration
check makes them so. Beyond that:

* `EdgeConstants`: `MaxBatchSize <= MaxPayload` (`batcher/config.rs`);
* `PipelineConstants`: at most one sink is required (`pipeline/batch_sink.rs`);
* `GatewayConstants`: a configuration has the fields and types of the structs in
  `config.rs` (`ConfigType`); values are not restricted;
* `ReassemblyConstants`: the limit on fragments is between 1 and what the wire can
  count, as `config.rs` checks, and the wire can count to two;
* `ScriptConstants` of `CpsCommands`: a command is one that the command line
  parses, with or without an account;
* `CpsChainConstants`: the genesis state gives every account a nonce;
* `BridgeConstants`: the bridge's account is an account.
* `KeyConstants`, `FieldConstants`: a public key is a curve point, and "no key"
  is not a key;
* `FrameConstants`, `BodyConstants`: a single frame has room for at least a
  fragment's body, as in `frame.rs`; the script's radio is the only one that the
  gateway hears; a fragment body has as many bytes as it spans positions, and
  the id of a payload does not depend on how it was cut. Other senders are in
  `MeshtasticIngress`, whose assemblies are apart by sender;
* `ScriptConstants` of `SensorTools`: a command is one that clap lets through,
  and takes the outputs of commands before it.

The theorems of `SensorToolsProofs` have one hypothesis more, `WireLengths`: bytes
have a length, and those of an envelope, of a batch with an envelope in it and of
a compressed one are not empty. It quantifies over all bytes, which TLC cannot;
in the instance `MCWireLen` is defined to satisfy it.

`EdgeAnchoring`, `Pipeline`, `ChainRegistry`, `Gateway` and `MeshtasticIngress`
have a specification without fairness (`Spec`, `PipelineSpec`, `ChainSpec`,
`GatewaySpec`, `MeshSpec`), which the theorems are about, and one with it
(`FairSpec`, `PipelineFairSpec`, `ChainFairSpec`, `GatewayFairSpec`,
`MeshFairSpec`), which the runs of liveness properties use and which implies the
former.

### Only model-checked

* Liveness: `FlushAllEnds`, `EventuallyAnchored`, `EveryMessageSettles`,
  `AssemblyEnds`, `MeshEnds`, `DeadLinkReplaced`, `EveryTaskEnds`. Fairness and
  ENABLED are out of the prover's reach.

Every invariant and every action property of a passing run, and the refinement,
is a theorem above.

What a recursive function computes can be proved where its value exists at all:
induction is replaced by the least counterexample, from the library's theorems on
well-founded relations (`LeastNumber` in `CpsProofs` and its likes). Operators of
the community modules that recurse over sequences cannot be unfolded; where a
conversion keeps the order of a vector, it is a function on positions instead.

Two habits keep the provers fast. A lemma whose conclusion mixes function
application with arithmetic is stated as one named operator (`Joins`,
`ExecutesAll`, `Splits`, `Gains`, `Holds`, `ShownTo`) and unfolded where it is used. A sequence of
anything is `IsSeq`, so that no type of block, message or call is needed.

## 6. Not modelled

* Whitelist and none policies: pure lookups in a fixed set; their decisions
  are a special case of a cache that never expires.
* The `tree`, profile, status and local key commands of `cps`, JSON forms of
  messages, SCALE and protobuf encodings: data transformations without state.
* Metrics, the texts of the operations server, output formats.
* smoldot, subxt, libp2p, redb, rumqttc and tokio: libraries; what the code
  relies on is stated above.
* How long a message waits for the age trigger, which is measured from the first
  message by sequence and not by receive time: it needs clocks and the pipeline
  composed with the batcher. That it is anchored in the end is checked.

## 7. Plan

Done, most important behaviour first: the durable path with its proofs; the
acceptance pipeline and the walk; the Meshtastic transport; the chain connection
over the light node; the gateway process with its configuration and gossip
node; the CPS client with the bridge and the commands; the sensor's tools.

Proved: every safety property of the eight passing runs and the refinement of
`AnchoredQueue`.

Left: the liveness properties stay with TLC. A composition of the pipeline with
the batcher over real receive times would be needed to say how long a message
waits (section 6).
