--------------------------- MODULE GatewayProofs ---------------------------
(***************************************************************************)
(* The safety of the gateway process for every set of peers, every bound   *)
(* on connections and events, every configuration and any number of        *)
(* crashes and restarts.                                                   *)
(***************************************************************************)
EXTENDS Gateway, FiniteSetTheorems, WellFoundedInduction, TLAPS

\* start() has not reached the node's task yet.
BeforeGossip == {"load", "pubsub", "identity", "write", "build"}

\* Until then nothing runs and nothing was ever connected.
QuietStart ==
    gpc \in BeforeGossip =>
        /\ running = {} /\ events = <<>>
        /\ open = [p \in Peer |-> 0] /\ table = [p \in Peer |-> 0]

\* What on_swarm_event makes of one report.
Counted(t, event) ==
    IF event[1] = "up" THEN OnConnected(t, event[2]) ELSE OnDisconnected(t, event[2])

\* Counting the reports that are still queued leads from the table to the
\* connections that are open: w[i] is the table after the first i of them.
QueueLeadsToOpen ==
    "gossip" \in running =>
        \E w \in [0 .. Len(events) -> [Peer -> 0 .. MaxConnections]] :
            /\ w[0] = table
            /\ w[Len(events)] = open
            /\ \A i \in 1 .. Len(events) : w[i] = Counted(w[i - 1], events[i])

\* The flag is never behind the table.
FlagOfTable ==
    "gossip" \in running =>
        ready = (ConnectedCount(table) >= cfg.pubsub.min_connected_peers)

\* A seed is in use only once it is what the identity file holds, the file is
\* never replaced once it has one, and ids are announced only after that.
OneIdentity ==
    /\ gpc \in {"write", "build"} => seed \in Seed
    /\ gpc = "write" => idFile = "partial"
    /\ gpc = "build" /\ cfg.pubsub.identity_file => idFile = seed
    /\ peerIds \subseteq {idFile}

\* What `edge gateway` runs with passed validation.
ValidatedFile ==
    /\ source = "file" /\ gpc \notin {"load", "failed"} => Validate(cfg) = "Ok"
    /\ source = "file" => why # "setting"

GatewayIInv ==
    /\ GatewayTypeOK
    /\ QuietStart
    /\ QueueLeadsToOpen
    /\ FlagOfTable
    /\ OneIdentity
    /\ ValidatedFile
-----------------------------------------------------------------------------
(***************************************************************************)
(* Validation: "Ok" means that every check of every section passed.        *)
(***************************************************************************)
ErrorName ==
    {"blockchain.endpoint", "auth.file", "cps_root_node_id",
     "cps_expected_genesis_hash", "cps limit", "ipfs.providers",
     "unknown ipfs provider", "ipfs.durability", "meshtastic.transport",
     "meshtastic.device", "meshtastic.max_reassembled_bytes",
     "meshtastic.max_fragments", "meshtastic limit",
     "meshtastic.reconnect_min_secs", "meshtastic.reconnect_max_secs",
     "max_batch_age_secs", "max_messages", "max_batch_size", "CPS payload limit",
     "blockchain.key_file", "blockchain.node_id", "storage.path",
     "blockchain.retry"}
CheckList == Seq([fails : BOOLEAN, error : ErrorName])
Passed(checks) == \A i \in DOMAIN checks : ~checks[i].fails

\* Every set of positions has a first one.
LEMMA LeastElement ==
    ASSUME NEW T, T \subseteq Nat, T # {}
    PROVE  \E x \in T : \A y \in T : x <= y
<1>1. IsWellFoundedOn(OpToRel(<, Nat), Nat)
  BY NatLessThanWellFounded
<1>2. PICK x \in T : \A y \in T : ~ (<<y, x>> \in OpToRel(<, Nat))
  BY <1>1, WFMin
<1>3. \A y \in T : ~ (y < x)
  BY <1>2 DEF OpToRel
<1> QED BY <1>3

LEMMA SeqElements ==
    ASSUME NEW S, NEW s \in Seq(S) PROVE \A i \in DOMAIN s : s[i] \in S
OBVIOUS

\* FirstError says "Ok" exactly when nothing failed.
LEMMA FirstErrorOk ==
    ASSUME NEW checks \in CheckList
    PROVE  FirstError(checks) = "Ok" <=> Passed(checks)
<1> DEFINE failing == {i \in DOMAIN checks : checks[i].fails}
<1>1. failing = {} <=> Passed(checks)
  BY DEF Passed
<1>2. ASSUME failing # {} PROVE checks[Min(failing)].error # "Ok"
  <2>1. failing \subseteq Nat
    BY DEF CheckList
  <2> HIDE DEF failing
  <2>2. \E x \in failing : \A y \in failing : x <= y
    BY <1>2, <2>1, LeastElement
  <2>3. Min(failing) \in failing
    BY <2>2 DEF Min
  <2>4. \A i \in failing : checks[i].error \in ErrorName
    <3>1. \A i \in DOMAIN checks : checks[i] \in [fails : BOOLEAN, error : ErrorName]
      BY SeqElements DEF CheckList
    <3>2. failing \subseteq DOMAIN checks
      BY DEF failing
    <3> QED BY <3>1, <3>2
  <2>5. "Ok" \notin ErrorName
    BY DEF ErrorName
  <2> QED BY <2>3, <2>4, <2>5
<1> QED BY <1>1, <1>2 DEF FirstError

LEMMA ConcatPassed ==
    ASSUME NEW s \in CheckList, NEW t \in CheckList
    PROVE  /\ s \o t \in CheckList
           /\ Passed(s \o t) <=> Passed(s) /\ Passed(t)
<1>1. s \o t \in CheckList
  BY DEF CheckList
<1>2. ASSUME Passed(s \o t) PROVE Passed(s) /\ Passed(t)
  <2>1. ASSUME NEW i \in DOMAIN s PROVE ~s[i].fails
    <3>1. i \in DOMAIN (s \o t) /\ (s \o t)[i] = s[i]
      BY DEF CheckList
    <3> QED BY <1>2, <3>1 DEF Passed
  <2>2. ASSUME NEW i \in DOMAIN t PROVE ~t[i].fails
    <3>1. Len(s) + i \in DOMAIN (s \o t) /\ (s \o t)[Len(s) + i] = t[i]
      BY DEF CheckList
    <3> QED BY <1>2, <3>1 DEF Passed
  <2> QED BY <2>1, <2>2 DEF Passed
<1>3. ASSUME Passed(s), Passed(t), NEW i \in DOMAIN (s \o t)
      PROVE  ~(s \o t)[i].fails
  <2>1. CASE i <= Len(s)
    <3>1. i \in DOMAIN s /\ (s \o t)[i] = s[i]
      BY <2>1 DEF CheckList
    <3> QED BY <1>3, <3>1 DEF Passed
  <2>2. CASE i > Len(s)
    <3>1. i - Len(s) \in DOMAIN t /\ (s \o t)[i] = t[i - Len(s)]
      BY <2>2 DEF CheckList
    <3> QED BY <1>3, <3>1 DEF Passed
  <2>3. i \in Nat /\ Len(s) \in Nat
    BY DEF CheckList
  <2> QED BY <2>1, <2>2, <2>3
<1> QED BY <1>1, <1>2, <1>3 DEF Passed

\* The checks of a section, as a list.
LEMMA SectionLists ==
    ASSUME NEW c \in ConfigType
    PROVE  /\ ValidateCpsAuth(c.auth) \in CheckList
           /\ ValidateIpfs(c.ipfs) \in CheckList
           /\ ValidateMeshtastic(c.meshtastic) \in CheckList
           /\ ValidateBatcher(c.batcher) \in CheckList
           /\ ValidateBlockchain(c) \in CheckList
<1> USE DEF Check, CheckList, ErrorName
<1>1. ValidateCpsAuth(c.auth) \in CheckList
  BY DEF ValidateCpsAuth
<1>2. ValidateIpfs(c.ipfs) \in CheckList
  BY DEF ValidateIpfs
<1>3. ValidateMeshtastic(c.meshtastic) \in CheckList
  BY DEF ValidateMeshtastic
<1>4. ValidateBatcher(c.batcher) \in CheckList
  BY DEF ValidateBatcher
<1>5. ValidateBlockchain(c) \in CheckList
  BY DEF ValidateBlockchain
<1> QED BY <1>1, <1>2, <1>3, <1>4, <1>5

\* What an accepted configuration has: the lookup limits, and everything
\* spawn_anchoring and auth::from_config ask for.
LEMMA AcceptedSettings ==
    ASSUME NEW c \in ConfigType, Validate(c) = "Ok"
    PROVE  /\ c.auth.mode = "cps" => Passed(ValidateCpsAuth(c.auth))
           /\ c.auth.mode = "whitelist" => c.auth.file
           /\ Passed(ValidateBatcher(c.batcher))
           /\ c.blockchain.enabled => Passed(ValidateBlockchain(c))
<1> DEFINE first ==
        << Check(c.blockchain.endpoint \notin {"none", "ws", "wss"},
                 "blockchain.endpoint"),
           Check(c.auth.mode = "whitelist" /\ ~c.auth.file, "auth.file") >>
           auth == IF c.auth.mode = "cps" THEN ValidateCpsAuth(c.auth) ELSE <<>>
           ipfs == IF c.ipfs.enabled THEN ValidateIpfs(c.ipfs) ELSE <<>>
           mesh == IF c.meshtastic.enabled THEN ValidateMeshtastic(c.meshtastic)
                                           ELSE <<>>
           batcher == ValidateBatcher(c.batcher)
           chain == IF c.blockchain.enabled THEN ValidateBlockchain(c) ELSE <<>>
<1>1. first \in CheckList
  BY DEF Check, CheckList, ErrorName
<1>2. /\ auth \in CheckList /\ ipfs \in CheckList /\ mesh \in CheckList
      /\ batcher \in CheckList /\ chain \in CheckList
  <2>1. <<>> \in CheckList
    BY DEF CheckList
  <2> QED BY <2>1, SectionLists
<1>3. FirstError(first \o auth \o ipfs \o mesh \o batcher \o chain) = "Ok"
  BY DEF Validate
<1>4. Passed(first) => (c.auth.mode = "whitelist" => c.auth.file)
  <2>1. 2 \in DOMAIN first
        /\ first[2].fails = (c.auth.mode = "whitelist" /\ ~c.auth.file)
    BY DEF Check
  <2> QED BY <2>1 DEF Passed
<1>5. Passed(first) /\ Passed(auth) /\ Passed(batcher) /\ Passed(chain)
  <2> HIDE DEF first, auth, ipfs, mesh, batcher, chain
  <2>1. /\ first \o auth \in CheckList
        /\ first \o auth \o ipfs \in CheckList
        /\ first \o auth \o ipfs \o mesh \in CheckList
        /\ first \o auth \o ipfs \o mesh \o batcher \in CheckList
        /\ first \o auth \o ipfs \o mesh \o batcher \o chain \in CheckList
    BY <1>1, <1>2, ConcatPassed
  <2>2. Passed(first \o auth \o ipfs \o mesh \o batcher \o chain)
    BY <1>3, <2>1, FirstErrorOk
  <2>3. Passed(first \o auth \o ipfs \o mesh \o batcher) /\ Passed(chain)
    BY <1>2, <2>1, <2>2, ConcatPassed
  <2>4. Passed(first \o auth \o ipfs \o mesh) /\ Passed(batcher)
    BY <1>2, <2>1, <2>3, ConcatPassed
  <2>5. Passed(first \o auth \o ipfs)
    BY <1>2, <2>1, <2>4, ConcatPassed
  <2>6. Passed(first \o auth)
    BY <1>2, <2>1, <2>5, ConcatPassed
  <2>7. Passed(first) /\ Passed(auth)
    BY <1>1, <1>2, <2>6, ConcatPassed
  <2> QED BY <2>3, <2>4, <2>7
<1> QED BY <1>4, <1>5

\* start() has nothing to add to what validate() accepted.
LEMMA AcceptedStarts ==
    ASSUME NEW c \in ConfigType, Validate(c) = "Ok"
    PROVE  /\ PolicySettings(c.auth)
           /\ c.auth.mode = "cps" => \A l \in CpsLimit : c.auth.limits[l] > 0
           /\ c.blockchain.enabled =>
                 /\ c.storage_path /\ c.blockchain.key_file /\ c.blockchain.node_id
                 /\ FirstError(ValidateBatcher(c.batcher)) = "Ok"
<1>1. c.auth.limits \in [CpsLimit -> Nat] /\ c.auth.mode \in {"none", "whitelist", "cps"}
  BY DEF ConfigType
<1>2. c.auth.mode = "cps" =>
          /\ c.auth.root /\ ExpectedGenesisHash(c.auth) = "Ok"
          /\ \A l \in CpsLimit : c.auth.limits[l] > 0
  <2> SUFFICES ASSUME c.auth.mode = "cps"
               PROVE  /\ c.auth.root /\ ExpectedGenesisHash(c.auth) = "Ok"
                      /\ \A l \in CpsLimit : c.auth.limits[l] > 0
    OBVIOUS
  <2> DEFINE list == ValidateCpsAuth(c.auth)
  <2> DEFINE zero == \E l \in CpsLimit : c.auth.limits[l] = 0
  <2>1. /\ DOMAIN list = 1 .. 3
        /\ list[1].fails <=> ~c.auth.root
        /\ list[2].fails <=> ExpectedGenesisHash(c.auth) # "Ok"
        /\ list[3].fails <=> zero
    <3>1. list = << Check(~c.auth.root, "cps_root_node_id"),
                    Check(ExpectedGenesisHash(c.auth) # "Ok",
                          "cps_expected_genesis_hash"),
                    Check(zero, "cps limit") >>
      BY DEF ValidateCpsAuth
    <3>2. zero \in BOOLEAN /\ c.auth.root \in BOOLEAN
      BY DEF ConfigType
    <3>3. DOMAIN list = 1 .. 3
      BY DEF ValidateCpsAuth
    <3> HIDE DEF list, zero
    <3>4. list[1].fails <=> ~c.auth.root
      BY <3>1 DEF Check
    <3>5. list[2].fails <=> ExpectedGenesisHash(c.auth) # "Ok"
      BY <3>1 DEF Check
    <3>6. list[3].fails = zero
      BY <3>1, <3>2 DEF Check
    <3> QED BY <3>3, <3>4, <3>5, <3>6
  <2>2. ~list[1].fails /\ ~list[2].fails /\ ~list[3].fails
    BY <2>1, AcceptedSettings DEF Passed
  <2> QED BY <1>1, <2>1, <2>2
<1>3. PolicySettings(c.auth)
  <2>1. "cache_capacity" \in CpsLimit
    BY DEF CpsLimit
  <2> QED BY <1>1, <1>2, <2>1, AcceptedSettings DEF PolicySettings
<1>4. FirstError(ValidateBatcher(c.batcher)) = "Ok"
  BY AcceptedSettings, SectionLists, FirstErrorOk
<1>5. c.blockchain.enabled =>
          c.storage_path /\ c.blockchain.key_file /\ c.blockchain.node_id
  <2> SUFFICES ASSUME c.blockchain.enabled
               PROVE  c.storage_path /\ c.blockchain.key_file /\ c.blockchain.node_id
    OBVIOUS
  <2> DEFINE list == ValidateBlockchain(c)
  <2>1. /\ DOMAIN list = 1 .. 4
        /\ list[1].fails = (~c.blockchain.key_file)
        /\ list[2].fails = (~c.blockchain.node_id)
        /\ list[3].fails = (~c.storage_path)
    BY DEF ValidateBlockchain, Check
  <2>2. ~list[1].fails /\ ~list[2].fails /\ ~list[3].fails
    BY <2>1, AcceptedSettings DEF Passed
  <2> QED BY <2>1, <2>2
<1> QED BY <1>2, <1>3, <1>4, <1>5
-----------------------------------------------------------------------------
(***************************************************************************)
(* The invariant holds at first, and every step keeps it.                  *)
(***************************************************************************)
LEMMA GatewayInitInvariant == GatewayInit => GatewayIInv
<1> SUFFICES ASSUME GatewayInit PROVE GatewayIInv
  OBVIOUS
<1> USE GatewayConstants, GossipConstants DEF GatewayInit, GossipInit
<1>1. GossipTypeOK
  <2>1. ready \in BOOLEAN
    OBVIOUS
  <2> QED BY <2>1 DEF GossipTypeOK
<1>2. GatewayTypeOK
  BY <1>1 DEF GatewayTypeOK, Step, Task, Outside
<1>3. QuietStart /\ QueueLeadsToOpen /\ FlagOfTable /\ OneIdentity /\ ValidatedFile
  BY DEF QuietStart, QueueLeadsToOpen, FlagOfTable, OneIdentity, ValidatedFile,
         BeforeGossip
<1> QED BY <1>2, <1>3 DEF GatewayIInv

\* A step that leaves the peers alone and starts no gossip task keeps what is
\* said of them, once start() is past it or nothing runs.
LEMMA PeersFrame ==
    ASSUME GatewayIInv,
           UNCHANGED <<dialing, open, events, table, outbox, cfg>>,
           "gossip" \in running' => "gossip" \in running /\ ready' = ready,
           gpc' \in BeforeGossip => gpc \in BeforeGossip /\ running' = {}
    PROVE  QuietStart' /\ QueueLeadsToOpen' /\ FlagOfTable'
<1>1. QuietStart'
  BY DEF GatewayIInv, QuietStart
<1>2. QueueLeadsToOpen'
  BY ZenonT(40) DEF GatewayIInv, QueueLeadsToOpen, Counted, OnConnected, OnDisconnected
<1>3. FlagOfTable'
  BY DEF GatewayIInv, FlagOfTable, ConnectedCount
<1> QED BY <1>1, <1>2, <1>3

\* An error ends start() or run(): nothing of what matters changes.
LEMMA FailKeeps ==
    ASSUME GatewayIInv, NEW reason, Fail(reason),
           reason \in Outside \cup {"invalid", "multiaddr"}
              \/ (reason = "setting" /\ source = "api")
    PROVE  GatewayIInv'
<1> USE DEF GatewayIInv
<1>1. GatewayTypeOK'
  BY DEF Fail, GatewayTypeOK, served, GossipTypeOK, gossipVars, Step
<1>2. QuietStart' /\ QueueLeadsToOpen' /\ FlagOfTable'
  BY PeersFrame DEF Fail, gossipVars, BeforeGossip
<1>3. OneIdentity' /\ ValidatedFile'
  BY DEF Fail, OneIdentity, ValidatedFile, Outside, GatewayTypeOK
<1> QED BY <1>1, <1>2, <1>3

LEMMA LoadKeeps ==
    ASSUME GatewayIInv, Load PROVE GatewayIInv'
<1>1. CASE Fail("invalid")
  BY <1>1, FailKeeps
<1>2. CASE /\ source = "file" => Validate(cfg) = "Ok"
           /\ Spawned({}, "pubsub")
           /\ UNCHANGED <<gossipVars, senders, sinks, peerIds>>
  <2> USE <1>2 DEF GatewayIInv, Spawned, gossipVars
  <2>1. GatewayTypeOK'
    BY DEF GatewayTypeOK, served, GossipTypeOK, Step
  <2>2. QuietStart' /\ QueueLeadsToOpen' /\ FlagOfTable'
    BY PeersFrame DEF Load, BeforeGossip, QuietStart
  <2>3. OneIdentity' /\ ValidatedFile'
    BY DEF OneIdentity, ValidatedFile
  <2> QED BY <2>1, <2>2, <2>3
<1> QED BY <1>1, <1>2 DEF Load

LEMMA StartPubsubKeeps ==
    ASSUME GatewayIInv, StartPubsub PROVE GatewayIInv'
<1>1. CASE Fail("multiaddr")
  BY <1>1, FailKeeps
<1>2. CASE /\ Spawned({}, "identity") \/ (Spawned({}, "anchoring") /\ ready' = TRUE)
           /\ UNCHANGED <<dialing, open, events, table, outbox, senders, sinks, peerIds>>
           /\ ready' = ready \/ ready' = TRUE
  <2> USE <1>2 DEF GatewayIInv, Spawned
  <2>1. GatewayTypeOK'
    BY DEF GatewayTypeOK, served, GossipTypeOK, Step
  <2>2. gpc = "pubsub" /\ running = {} /\ running' = {}
    BY DEF StartPubsub, QuietStart, BeforeGossip
  <2>3. QuietStart' /\ QueueLeadsToOpen' /\ FlagOfTable'
    BY <2>2, PeersFrame DEF BeforeGossip
  <2>4. OneIdentity' /\ ValidatedFile'
    BY <2>2 DEF OneIdentity, ValidatedFile
  <2> QED BY <2>1, <2>3, <2>4
<1> QED BY <1>1, <1>2 DEF StartPubsub, gossipVars

LEMMA LoadIdentityKeeps ==
    ASSUME GatewayIInv, LoadIdentity PROVE GatewayIInv'
<1>1. CASE Fail("identity")
  BY <1>1, FailKeeps DEF Outside
<1>2. CASE ~Fail("identity")
  <2> USE <1>2, GatewayConstants DEF GatewayIInv, LoadIdentity, gossipVars
  <2>1. GatewayTypeOK'
    BY DEF GatewayTypeOK, served, GossipTypeOK, Step
  <2>2. QuietStart' /\ QueueLeadsToOpen' /\ FlagOfTable'
    BY PeersFrame DEF BeforeGossip, QuietStart
  <2>3. OneIdentity'
    BY DEF OneIdentity, GatewayTypeOK
  <2>4. ValidatedFile'
    BY DEF ValidatedFile
  <2> QED BY <2>1, <2>2, <2>3, <2>4
<1> QED BY <1>1, <1>2

LEMMA WriteIdentityKeeps ==
    ASSUME GatewayIInv, WriteIdentity PROVE GatewayIInv'
<1>1. CASE Fail("identity")
  BY <1>1, FailKeeps DEF Outside
<1>2. CASE ~Fail("identity")
  <2> USE <1>2, GatewayConstants DEF GatewayIInv, WriteIdentity, gossipVars
  <2>1. GatewayTypeOK'
    BY DEF GatewayTypeOK, served, GossipTypeOK, Step, OneIdentity
  <2>2. QuietStart' /\ QueueLeadsToOpen' /\ FlagOfTable'
    BY PeersFrame DEF BeforeGossip, QuietStart
  <2>3. OneIdentity'
    BY DEF OneIdentity, GatewayTypeOK
  <2>4. ValidatedFile'
    BY DEF ValidatedFile
  <2> QED BY <2>1, <2>2, <2>3, <2>4
<1> QED BY <1>1, <1>2

\* The node's task starts with an empty table, no connection and no report.
LEMMA BuildGossipKeeps ==
    ASSUME GatewayIInv, BuildGossip PROVE GatewayIInv'
<1>1. CASE Fail("listen")
  BY <1>1, FailKeeps DEF Outside
<1>2. CASE ~Fail("listen")
  <2> USE <1>2, GatewayConstants, GossipConstants
      DEF GatewayIInv, BuildGossip, GossipStarts, Spawned
  <2>1. GossipTypeOK'
    <3>1. ready' = (ConnectedCount(table) >= cfg.pubsub.min_connected_peers)
      OBVIOUS
    <3>2. ready' \in BOOLEAN
      BY ONLY <3>1
    <3> QED BY <3>2 DEF GatewayTypeOK, GossipTypeOK
  <2>2. GatewayTypeOK'
    BY <2>1 DEF GatewayTypeOK, served, Step, Task, OneIdentity
  <2>3. QuietStart'
    BY DEF QuietStart, BeforeGossip
  <2>4. QueueLeadsToOpen'
    <3>1. events' = <<>> /\ table' = open' /\ open' \in [Peer -> 0 .. MaxConnections]
      BY DEF QuietStart, BeforeGossip, GatewayTypeOK, GossipTypeOK
    <3> DEFINE w == [i \in 0 .. Len(events') |-> open']
    <3>2. /\ w \in [0 .. Len(events') -> [Peer -> 0 .. MaxConnections]]
          /\ w[0] = table' /\ w[Len(events')] = open'
          /\ \A i \in 1 .. Len(events') : w[i] = Counted(w[i - 1], events'[i])
      BY <3>1
    <3> QED BY <3>2 DEF QueueLeadsToOpen, Counted, OnConnected, OnDisconnected
  <2>5. FlagOfTable'
    BY DEF FlagOfTable, ConnectedCount
  <2>6. OneIdentity'
    BY DEF OneIdentity, GatewayTypeOK
  <2>7. ValidatedFile'
    BY DEF ValidatedFile
  <2> QED BY <2>2, <2>3, <2>4, <2>5, <2>6, <2>7
<1> QED BY <1>1, <1>2

LEMMA StartAnchoringKeeps ==
    ASSUME GatewayIInv, StartAnchoring PROVE GatewayIInv'
<1>1. cfg \in ConfigType
  BY GatewayConstants DEF GatewayIInv, GatewayTypeOK
<1>2. ASSUME cfg.blockchain.enabled, ~AnchoringSettings PROVE source = "api"
  BY <1>1, <1>2, AcceptedStarts
     DEF AnchoringSettings, GatewayIInv, ValidatedFile, StartAnchoring,
         GatewayTypeOK
<1>3. CASE Fail("key-file") \/ Fail("store")
  BY <1>3, FailKeeps DEF Outside
<1>4. CASE cfg.blockchain.enabled /\ ~AnchoringSettings /\ Fail("setting")
  BY <1>2, <1>4, FailKeeps
<1>5. CASE /\ Spawned(IF cfg.blockchain.enabled THEN {"batcher", "anchor"} ELSE {},
                      "policy")
           /\ UNCHANGED <<gossipVars, senders, sinks, peerIds>>
  <2> USE <1>5 DEF GatewayIInv, Spawned, gossipVars, StartAnchoring
  <2>1. GatewayTypeOK'
    BY DEF GatewayTypeOK, served, GossipTypeOK, Step, Task
  <2>2. QuietStart' /\ QueueLeadsToOpen' /\ FlagOfTable'
    BY PeersFrame DEF BeforeGossip
  <2>3. OneIdentity' /\ ValidatedFile'
    BY DEF OneIdentity, ValidatedFile
  <2> QED BY <2>1, <2>2, <2>3
<1> QED BY <1>3, <1>4, <1>5 DEF StartAnchoring

LEMMA StartPipelineKeeps ==
    ASSUME GatewayIInv, StartPipeline PROVE GatewayIInv'
<1>1. cfg \in ConfigType
  BY GatewayConstants DEF GatewayIInv, GatewayTypeOK
<1>2. ASSUME ~PolicySettings(cfg.auth) PROVE source = "api"
  BY <1>1, <1>2, AcceptedStarts
     DEF GatewayIInv, ValidatedFile, StartPipeline, GatewayTypeOK
<1>3. CASE Fail("whitelist")
  BY <1>3, FailKeeps DEF Outside
<1>4. CASE ~PolicySettings(cfg.auth) /\ Fail("setting")
  BY <1>2, <1>4, FailKeeps
<1>5. CASE /\ Spawned({"pipeline"}, "http")
           /\ sinks' = "pipeline"
           /\ UNCHANGED <<gossipVars, senders, peerIds>>
  <2> USE <1>5 DEF GatewayIInv, Spawned, gossipVars, StartPipeline
  <2>1. GatewayTypeOK'
    BY DEF GatewayTypeOK, served, GossipTypeOK, Step, Task
  <2>2. QuietStart' /\ QueueLeadsToOpen' /\ FlagOfTable'
    BY PeersFrame DEF BeforeGossip
  <2>3. OneIdentity' /\ ValidatedFile'
    BY DEF OneIdentity, ValidatedFile
  <2> QED BY <2>1, <2>2, <2>3
<1> QED BY <1>3, <1>4, <1>5 DEF StartPipeline

\* The transports and the operations server, and what run() and shutdown() do.
LEMMA LaterStepKeeps ==
    ASSUME GatewayIInv,
           \/ StartHttp \/ StartMeshtastic \/ StartOps
           \/ CtrlC \/ CtrlCFails \/ AllJoined
    PROVE  GatewayIInv'
<1>1. CASE Fail("bind") \/ Fail("signal")
  BY <1>1, FailKeeps DEF Outside
<1>2. CASE ~Fail("bind") /\ ~Fail("signal")
  <2> USE <1>2 DEF GatewayIInv, Spawned, gossipVars, StartHttp, StartMeshtastic,
                   StartOps, CtrlC, CtrlCFails, AllJoined
  <2>1. GatewayTypeOK'
    BY DEF GatewayTypeOK, served, GossipTypeOK, Step, Task
  <2>2. QuietStart' /\ QueueLeadsToOpen' /\ FlagOfTable'
    BY PeersFrame DEF BeforeGossip
  <2>3. OneIdentity' /\ ValidatedFile'
    BY DEF OneIdentity, ValidatedFile
  <2> QED BY <2>1, <2>2, <2>3
<1> QED BY <1>1, <1>2

\* A crash forgets everything but the file, and what was announced.
LEMMA RestartKeeps ==
    ASSUME GatewayIInv, Restart PROVE GatewayIInv'
<1> USE GossipConstants DEF GatewayIInv, Restart, GossipReset
<1>1. GossipTypeOK'
  <2>1. ready' \in BOOLEAN
    OBVIOUS
  <2> QED BY <2>1 DEF GossipTypeOK
<1>2. GatewayTypeOK'
  BY <1>1 DEF GatewayTypeOK, served, Step
<1>3. QuietStart' /\ QueueLeadsToOpen' /\ FlagOfTable'
  BY DEF QuietStart, QueueLeadsToOpen, FlagOfTable
<1>4. OneIdentity' /\ ValidatedFile'
  BY DEF OneIdentity, ValidatedFile
<1> QED BY <1>2, <1>3, <1>4

LEMMA EndStepKeeps ==
    ASSUME GatewayIInv, EndStep PROVE GatewayIInv'
<1> USE DEF GatewayIInv, TaskEnds
<1>1. CASE GossipEnds
  <2> USE <1>1, GossipConstants DEF GossipEnds
  <2>1. GatewayTypeOK'
    BY DEF GatewayTypeOK, served, GossipTypeOK, Server
  <2>2. QuietStart' /\ QueueLeadsToOpen' /\ FlagOfTable'
    BY DEF QuietStart, QueueLeadsToOpen, FlagOfTable
  <2>3. OneIdentity' /\ ValidatedFile'
    BY DEF OneIdentity, ValidatedFile
  <2> QED BY <2>1, <2>2, <2>3
<1>2. CASE PipelineEnds \/ MeshtasticEnds \/ \E task \in Task : SignalledEnds(task)
  <2> USE <1>2 DEF PipelineEnds, MeshtasticEnds, SignalledEnds, gossipVars
  <2>1. GatewayTypeOK'
    BY DEF GatewayTypeOK, served, GossipTypeOK, Server
  <2>2. QuietStart' /\ QueueLeadsToOpen' /\ FlagOfTable'
    BY PeersFrame DEF BeforeGossip, QuietStart
  <2>3. OneIdentity' /\ ValidatedFile'
    BY DEF OneIdentity, ValidatedFile
  <2> QED BY <2>1, <2>2, <2>3
<1>3. CASE \E server \in Server : StopsListening(server)
  <2> USE <1>3 DEF StopsListening, gossipVars
  <2>1. GatewayTypeOK'
    BY DEF GatewayTypeOK, served, GossipTypeOK, Server
  <2>2. QuietStart' /\ QueueLeadsToOpen' /\ FlagOfTable'
    BY PeersFrame DEF BeforeGossip, QuietStart
  <2>3. OneIdentity' /\ ValidatedFile'
    BY DEF OneIdentity, ValidatedFile
  <2> QED BY <2>1, <2>2, <2>3
<1>4. CASE \E server \in Server : RequestsEnd(server)
  <2> USE <1>4 DEF RequestsEnd, gossipVars
  <2>1. GatewayTypeOK'
    BY DEF GatewayTypeOK, served, GossipTypeOK, Server
  <2>2. QuietStart' /\ QueueLeadsToOpen' /\ FlagOfTable'
    BY PeersFrame DEF BeforeGossip, QuietStart
  <2>3. OneIdentity' /\ ValidatedFile'
    BY DEF OneIdentity, ValidatedFile
  <2> QED BY <2>1, <2>2, <2>3
<1>5. CASE \E server \in Server : ServerEnds(server)
  <2> USE <1>5 DEF ServerEnds, gossipVars
  <2>1. GatewayTypeOK'
    BY DEF GatewayTypeOK, served, GossipTypeOK, Server
  <2>2. QuietStart' /\ QueueLeadsToOpen' /\ FlagOfTable'
    BY PeersFrame DEF BeforeGossip, QuietStart
  <2>3. OneIdentity' /\ ValidatedFile'
    BY DEF OneIdentity, ValidatedFile
  <2> QED BY <2>1, <2>2, <2>3
<1> QED BY <1>1, <1>2, <1>3, <1>4, <1>5 DEF EndStep

\* The swarm opens or closes a connection and queues its report: counting
\* one more report leads from what was open to what is open now.
LEMMA ReportQueued ==
    ASSUME GatewayIInv, "gossip" \in running, NEW event \in {"up", "down"} \X Peer,
           events' = Append(events, event), open' = Counted(open, event),
           open' \in [Peer -> 0 .. MaxConnections],
           UNCHANGED <<table, running>>
    PROVE  QueueLeadsToOpen'
<1>1. events \in Seq({"up", "down"} \X Peer)
  BY DEF GatewayIInv, GatewayTypeOK, GossipTypeOK
<1>2. PICK w \in [0 .. Len(events) -> [Peer -> 0 .. MaxConnections]] :
            /\ w[0] = table
            /\ w[Len(events)] = open
            /\ \A i \in 1 .. Len(events) : w[i] = Counted(w[i - 1], events[i])
  BY DEF GatewayIInv, QueueLeadsToOpen
<1> DEFINE v == [i \in 0 .. Len(events') |-> IF i = Len(events') THEN open' ELSE w[i]]
<1>3. Len(events') = Len(events) + 1 /\ Len(events) \in Nat
  BY <1>1
<1>4. v \in [0 .. Len(events') -> [Peer -> 0 .. MaxConnections]]
  BY <1>2, <1>3
<1>5. v[0] = table' /\ v[Len(events')] = open'
  BY <1>2, <1>3
<1>6. ASSUME NEW i \in 1 .. Len(events')
      PROVE  v[i] = Counted(v[i - 1], events'[i])
  <2>1. CASE i = Len(events')
    <3>1. events'[i] = event /\ v[i] = open' /\ v[i - 1] = open
      BY <1>1, <1>2, <1>3, <2>1
    <3> QED BY <3>1
  <2>2. CASE i # Len(events')
    <3>1. events'[i] = events[i] /\ v[i] = w[i] /\ v[i - 1] = w[i - 1]
      BY <1>1, <1>2, <1>3, <2>2, SMTT(40)
    <3>2. i \in 1 .. Len(events)
      BY <1>3, <2>2
    <3> QED BY <1>2, <3>1, <3>2
  <2> QED BY <2>1, <2>2
<1> HIDE DEF v
<1> QED BY <1>4, <1>5, <1>6 DEF QueueLeadsToOpen, Counted, OnConnected, OnDisconnected

\* on_swarm_event counts the oldest report: the rest still leads to what is
\* open.
LEMMA ReportHandled ==
    ASSUME GatewayIInv, "gossip" \in running, events # <<>>,
           table' = Counted(table, Head(events)), events' = Tail(events),
           UNCHANGED <<open, running>>
    PROVE  QueueLeadsToOpen' /\ table' \in [Peer -> Nat]
<1>1. events \in Seq({"up", "down"} \X Peer)
  BY DEF GatewayIInv, GatewayTypeOK, GossipTypeOK
<1>2. PICK w \in [0 .. Len(events) -> [Peer -> 0 .. MaxConnections]] :
            /\ w[0] = table
            /\ w[Len(events)] = open
            /\ \A i \in 1 .. Len(events) : w[i] = Counted(w[i - 1], events[i])
  BY DEF GatewayIInv, QueueLeadsToOpen
<1>3. /\ Len(events) \in Nat \ {0} /\ Len(events') = Len(events) - 1
      /\ Head(events) = events[1]
      /\ \A i \in 1 .. Len(events') : events'[i] = events[i + 1]
  BY <1>1
<1> DEFINE v == [i \in 0 .. Len(events') |-> w[i + 1]]
<1>4. v \in [0 .. Len(events') -> [Peer -> 0 .. MaxConnections]]
  BY <1>2, <1>3
<1>5. w[1] = Counted(w[0], events[1])
  BY <1>2, <1>3
<1>6. v[0] = table' /\ v[Len(events')] = open'
  BY <1>2, <1>3, <1>5
<1>7. ASSUME NEW i \in 1 .. Len(events')
      PROVE  v[i] = Counted(v[i - 1], events'[i])
  <2>1. v[i] = w[i + 1] /\ v[i - 1] = w[i] /\ i + 1 \in 1 .. Len(events)
    BY <1>3
  <2>2. w[i + 1] = Counted(w[(i + 1) - 1], events[i + 1])
    BY <1>2, <2>1
  <2> QED BY <1>3, <2>1, <2>2
<1>8. table' \in [Peer -> Nat]
  <2>1. 0 .. MaxConnections \subseteq Nat /\ 0 \in 0 .. Len(events')
    BY GossipConstants, <1>3
  <2> QED BY <1>4, <1>6, <2>1
<1> HIDE DEF v
<1> QED BY <1>4, <1>6, <1>7, <1>8
        DEF QueueLeadsToOpen, Counted, OnConnected, OnDisconnected

LEMMA GossipStepKeeps ==
    ASSUME GatewayIInv, GossipStep PROVE GatewayIInv'
<1> USE DEF GatewayIInv
<1>1. "gossip" \in running /\ gpc \notin BeforeGossip /\ UNCHANGED gatewayOnly
  BY DEF GossipStep, QuietStart
<1>2. ASSUME GossipTypeOK', QueueLeadsToOpen', FlagOfTable' PROVE GatewayIInv'
  <2>1. GatewayTypeOK'
    BY <1>1, <1>2 DEF gatewayOnly, GatewayTypeOK, served
  <2>2. QuietStart' /\ OneIdentity' /\ ValidatedFile'
    BY <1>1 DEF gatewayOnly, QuietStart, OneIdentity, ValidatedFile
  <2> QED BY <1>2, <2>1, <2>2
<1>3. CASE \/ DialReserved \/ Publish \/ Offer
           \/ \E p \in Peer : DialFails(p)
  <2> USE <1>3 DEF DialReserved, Publish, Offer, DialFails
  <2>1. GossipTypeOK'
    BY GossipConstants DEF GatewayTypeOK, GossipTypeOK
  <2>2. QueueLeadsToOpen' /\ FlagOfTable'
    <3>1. UNCHANGED <<open, events, table, ready, running, cfg>>
      BY <1>1 DEF gatewayOnly
    <3>2. QueueLeadsToOpen'
      BY ONLY <1>1, <3>1, GatewayIInv, ZenonT(40)
         DEF GatewayIInv, QueueLeadsToOpen, Counted, OnConnected, OnDisconnected
    <3> QED BY <3>1, <3>2 DEF FlagOfTable, ConnectedCount
  <2> QED BY <1>2, <2>1, <2>2
<1>4. ASSUME NEW p \in Peer, SwarmConnects(p) PROVE GatewayIInv'
  <2> USE <1>4 DEF SwarmConnects
  <2>1. GossipTypeOK'
    BY GossipConstants DEF GatewayTypeOK, GossipTypeOK
  <2>2. QueueLeadsToOpen'
    <3>1. open' = Counted(open, <<"up", p>>)
      BY DEF Counted, OnConnected
    <3> QED BY <1>1, <2>1, <3>1, ReportQueued DEF gatewayOnly, GossipTypeOK
  <2>3. FlagOfTable'
    BY <1>1 DEF gatewayOnly, FlagOfTable, ConnectedCount
  <2> QED BY <1>2, <2>1, <2>2, <2>3
<1>5. ASSUME NEW p \in Peer, SwarmDisconnects(p) PROVE GatewayIInv'
  <2> USE <1>5 DEF SwarmDisconnects
  <2>1. GossipTypeOK'
    BY GossipConstants DEF GatewayTypeOK, GossipTypeOK
  <2>2. QueueLeadsToOpen'
    <3>1. open' = Counted(open, <<"down", p>>)
      <4>1. open[p] # 0 /\ open \in [Peer -> 0 .. MaxConnections]
        BY GossipConstants DEF GatewayTypeOK, GossipTypeOK
      <4>2. Counted(open, <<"down", p>>) = OnDisconnected(open, p)
        BY DEF Counted
      <4> QED BY <4>1, <4>2 DEF OnDisconnected
    <3> QED BY <1>1, <2>1, <3>1, ReportQueued DEF gatewayOnly, GossipTypeOK
  <2>3. FlagOfTable'
    BY <1>1 DEF gatewayOnly, FlagOfTable, ConnectedCount
  <2> QED BY <1>2, <2>1, <2>2, <2>3
<1>6. CASE OnSwarmEvent(cfg.pubsub.min_connected_peers)
  <2> USE <1>6 DEF OnSwarmEvent
  <2>1. table' = Counted(table, Head(events))
    BY DEF Counted
  <2>2. QueueLeadsToOpen' /\ table' \in [Peer -> Nat]
    BY <1>1, <2>1, ReportHandled DEF gatewayOnly
  <2>3. ready' = (ConnectedCount(table') >= cfg.pubsub.min_connected_peers)
    OBVIOUS
  <2>4. ready' \in BOOLEAN
    BY ONLY <2>3
  <2>5. GossipTypeOK'
    <3>1. events' \in Seq({"up", "down"} \X Peer) /\ Len(events') <= MaxEvents
      BY GossipConstants DEF GatewayTypeOK, GossipTypeOK
    <3> QED BY <2>2, <2>4, <3>1 DEF GatewayTypeOK, GossipTypeOK
  <2>6. FlagOfTable'
    BY <1>1, <2>3 DEF gatewayOnly, FlagOfTable, ConnectedCount
  <2> QED BY <1>2, <2>2, <2>5, <2>6
<1> QED BY <1>3, <1>4, <1>5, <1>6 DEF GossipStep
-----------------------------------------------------------------------------
\* The invariant holds in every reachable state.
THEOREM GatewayInvariant == GatewaySpec => []GatewayIInv
<1>1. GatewayInit => GatewayIInv
  BY GatewayInitInvariant
<1>2. GatewayIInv /\ [GatewayNext]_gatewayVars => GatewayIInv'
  <2> SUFFICES ASSUME GatewayIInv, [GatewayNext]_gatewayVars PROVE GatewayIInv'
    OBVIOUS
  <2>1. CASE StartStep
    BY <2>1, LoadKeeps, StartPubsubKeeps, LoadIdentityKeeps, WriteIdentityKeeps,
       BuildGossipKeeps, StartAnchoringKeeps, StartPipelineKeeps, LaterStepKeeps
       DEF StartStep
  <2>2. CASE CtrlC \/ CtrlCFails \/ AllJoined
    BY <2>2, LaterStepKeeps
  <2>3. CASE Restart
    BY <2>3, RestartKeeps
  <2>4. CASE EndStep
    BY <2>4, EndStepKeeps
  <2>5. CASE GossipStep
    BY <2>5, GossipStepKeeps
  <2>6. CASE UNCHANGED gatewayVars
    <3> USE <2>6 DEF gatewayVars, gatewayOnly, gossipVars, GatewayIInv
    <3>1. GatewayTypeOK'
      BY DEF GatewayTypeOK, served, GossipTypeOK
    <3>2. QuietStart' /\ QueueLeadsToOpen' /\ FlagOfTable'
      BY PeersFrame DEF QuietStart
    <3>3. OneIdentity' /\ ValidatedFile'
      BY DEF OneIdentity, ValidatedFile
    <3> QED BY <3>1, <3>2, <3>3
  <2> QED BY <2>1, <2>2, <2>3, <2>4, <2>5, <2>6 DEF GatewayNext
<1> QED BY <1>1, <1>2, PTL DEF GatewaySpec

\* /ready is true to the open connections whenever no report is queued.
THEOREM ReadinessTrue == GatewaySpec => []ReadinessTracksPeers
<1>1. GatewayIInv => ReadinessTracksPeers
  <2> SUFFICES ASSUME GatewayIInv, "gossip" \in running, events = <<>>
               PROVE  ready <=> Cardinality({p \in Peer : open[p] > 0})
                                  >= cfg.pubsub.min_connected_peers
    BY DEF ReadinessTracksPeers
  <2>1. Len(events) = 0
    OBVIOUS
  <2>2. table = open
    BY <2>1 DEF GatewayIInv, QueueLeadsToOpen
  <2> QED BY <2>2 DEF GatewayIInv, FlagOfTable, ConnectedCount
<1> QED BY <1>1, GatewayInvariant, PTL

\* One peer id for ever, wherever the process crashes.
THEOREM PeerIdNeverChanges == GatewaySpec => []StablePeerId
<1>1. GatewayIInv => StablePeerId
  <2> SUFFICES ASSUME GatewayIInv PROVE Cardinality(peerIds) <= 1
    BY DEF StablePeerId
  <2>1. CASE peerIds = {}
    BY <2>1, FS_EmptySet
  <2>2. CASE peerIds = {idFile}
    <3>1. Cardinality({idFile}) = 1
      BY FS_Singleton
    <3> QED BY <2>2, <3>1
  <2> QED BY <2>1, <2>2 DEF GatewayIInv, OneIdentity
<1> QED BY <1>1, GatewayInvariant, PTL

\* What validate() accepts, start() accepts.
THEOREM ValidationSuffices == GatewaySpec => []AcceptedConfigStarts
<1>1. GatewayIInv => AcceptedConfigStarts
  <2> SUFFICES ASSUME GatewayIInv PROVE AcceptedConfigStarts
    OBVIOUS
  <2>1. cfg \in ConfigType
    BY GatewayConstants DEF GatewayIInv, GatewayTypeOK
  <2> QED BY <2>1, AcceptedStarts DEF GatewayIInv, ValidatedFile, AcceptedConfigStarts
<1> QED BY <1>1, GatewayInvariant, PTL
============================================================================
