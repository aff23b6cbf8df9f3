--------------------------- MODULE GatewayConfig ---------------------------
(***************************************************************************)
(* The gateway's configuration file (edge/src/config.rs): its sections     *)
(* with their defaults, and the checks Config::validate makes, in the      *)
(* order in which it makes them.  An optional path or id is a Boolean:     *)
(* whether it is there.                                                    *)
(***************************************************************************)
EXTENDS Integers, FiniteSets, FiniteSetsExt, Sequences

CONSTANTS
    MaxPayloadSize,     \* libcps::MAX_PAYLOAD_SIZE
    MaxFragmentCount    \* the wire limit on fragments

ASSUME GatewayConfigConstants ==
    /\ MaxPayloadSize \in Nat \ {0}
    /\ MaxFragmentCount \in Nat \ {0}

CpsLimit == {"cache_capacity", "negative_ttl_secs", "query_timeout_secs",
             "max_concurrent_lookups", "max_pending"}
MeshLimit == {"max_reassembled_bytes", "max_pending", "max_pending_per_sender",
              "reassembly_timeout_secs", "reassembly_absolute_timeout_secs"}

DefaultHttp == [enabled |-> TRUE, public |-> FALSE]
DefaultAuth ==
    [mode |-> "none", file |-> FALSE, root |-> FALSE, genesis |-> "missing",
     limits |-> [l \in CpsLimit |-> 1]]
DefaultPubsub ==
    [enabled |-> TRUE, addresses |-> "parse", min_connected_peers |-> 0,
     identity_file |-> FALSE]
DefaultMeshtastic ==
    [enabled |-> FALSE, transport |-> "serial", device |-> TRUE,
     limits |-> [l \in MeshLimit |-> 1], max_fragments |-> MaxFragmentCount,
     reconnect_min_secs |-> 1, reconnect_max_secs |-> 30]
DefaultIpfs == [enabled |-> FALSE, providers |-> <<>>, durability |-> "none"]
DefaultBlockchain ==
    [enabled |-> FALSE, endpoint |-> "none", key_file |-> FALSE, node_id |-> FALSE,
     retry_min_secs |-> 1, retry_max_secs |-> 60]
DefaultBatcher ==
    [max_batch_age_secs |-> 30, max_messages |-> 100, max_batch_size |-> MaxPayloadSize]

DefaultConfig ==
    [http |-> DefaultHttp, auth |-> DefaultAuth, pubsub |-> DefaultPubsub,
     meshtastic |-> DefaultMeshtastic, ipfs |-> DefaultIpfs,
     blockchain |-> DefaultBlockchain, batcher |-> DefaultBatcher,
     storage_path |-> FALSE]

\* What a file can say once it was read: every field has the type of its
\* struct, and nothing was validated yet.
ConfigType ==
    [http : [enabled : BOOLEAN, public : BOOLEAN],
     auth : [mode : {"none", "whitelist", "cps"}, file : BOOLEAN, root : BOOLEAN,
             genesis : STRING, limits : [CpsLimit -> Nat]],
     pubsub : [enabled : BOOLEAN, addresses : STRING, min_connected_peers : Nat,
               identity_file : BOOLEAN],
     meshtastic : [enabled : BOOLEAN, transport : STRING, device : BOOLEAN,
                   limits : [MeshLimit -> Nat], max_fragments : Nat,
                   reconnect_min_secs : Nat, reconnect_max_secs : Nat],
     ipfs : [enabled : BOOLEAN, providers : Seq(STRING), durability : STRING],
     blockchain : [enabled : BOOLEAN, endpoint : STRING, key_file : BOOLEAN,
                   node_id : BOOLEAN, retry_min_secs : Nat, retry_max_secs : Nat],
     batcher : [max_batch_age_secs : Nat, max_messages : Nat, max_batch_size : Nat],
     storage_path : BOOLEAN]
-----------------------------------------------------------------------------
\* Checks are made in order: the first that fails names the error.
FirstError(checks) ==
    LET failing == {i \in DOMAIN checks : checks[i].fails}
    IN  IF failing = {} THEN "Ok" ELSE checks[Min(failing)].error

Check(fails, error) == [fails |-> fails, error |-> error]

\* AuthConfig::expected_genesis_hash.
ExpectedGenesisHash(auth) ==
    IF auth.genesis \in {"missing", "no-prefix", "not-hex", "short"} THEN auth.genesis ELSE "Ok"

\* Mutant: the limits of the lookup queue are taken as they come.
CpsAuthNoLimits(auth) ==
    << Check(~auth.root, "cps_root_node_id"),
       Check(ExpectedGenesisHash(auth) # "Ok", "cps_expected_genesis_hash") >>

ValidateCpsAuth(auth) ==
    << Check(~auth.root, "cps_root_node_id"),
       Check(ExpectedGenesisHash(auth) # "Ok", "cps_expected_genesis_hash"),
       Check(\E l \in CpsLimit : auth.limits[l] = 0, "cps limit") >>

ValidateIpfs(ipfs) ==
    << Check(ipfs.providers = <<>>, "ipfs.providers"),
       Check(\E i \in DOMAIN ipfs.providers : ipfs.providers[i] \notin {"pinata", "kubo"},
             "unknown ipfs provider"),
       Check(ipfs.durability \notin {"none", "any", "all", "quorum"}, "ipfs.durability") >>

ValidateMeshtastic(mesh) ==
    << Check(mesh.transport # "serial", "meshtastic.transport"),
       Check(~mesh.device, "meshtastic.device"),
       Check(mesh.limits["max_reassembled_bytes"] = 0, "meshtastic.max_reassembled_bytes"),
       Check(mesh.max_fragments \notin 1 .. MaxFragmentCount, "meshtastic.max_fragments"),
       Check(\E l \in MeshLimit : mesh.limits[l] = 0, "meshtastic limit"),
       Check(mesh.reconnect_min_secs = 0, "meshtastic.reconnect_min_secs"),
       Check(mesh.reconnect_max_secs < mesh.reconnect_min_secs, "meshtastic.reconnect_max_secs") >>

\* BatcherConfig::validate.
ValidateBatcher(batcher) ==
    << Check(batcher.max_batch_age_secs = 0, "max_batch_age_secs"),
       Check(batcher.max_messages = 0, "max_messages"),
       Check(batcher.max_batch_size = 0, "max_batch_size"),
       Check(batcher.max_batch_size > MaxPayloadSize, "CPS payload limit") >>

ValidateBlockchain(c) ==
    << Check(~c.blockchain.key_file, "blockchain.key_file"),
       Check(~c.blockchain.node_id, "blockchain.node_id"),
       Check(~c.storage_path, "storage.path"),
       Check(c.blockchain.retry_min_secs = 0
               \/ c.blockchain.retry_max_secs < c.blockchain.retry_min_secs,
             "blockchain.retry") >>

\* Config::validate: "Ok" or the first error.
Validate(c) ==
    FirstError(
        << Check(c.blockchain.endpoint \notin {"none", "ws", "wss"}, "blockchain.endpoint"),
           Check(c.auth.mode = "whitelist" /\ ~c.auth.file, "auth.file") >>
        \o (IF c.auth.mode = "cps" THEN ValidateCpsAuth(c.auth) ELSE <<>>)
        \o (IF c.ipfs.enabled THEN ValidateIpfs(c.ipfs) ELSE <<>>)
        \o (IF c.meshtastic.enabled THEN ValidateMeshtastic(c.meshtastic) ELSE <<>>)
        \o ValidateBatcher(c.batcher)
        \o (IF c.blockchain.enabled THEN ValidateBlockchain(c) ELSE <<>>))

\* Config::http_open_relay: worth a warning, never an error.
HttpOpenRelay(c) == c.http.enabled /\ c.http.public /\ c.auth.mode = "none"
-----------------------------------------------------------------------------
\* edge config check and print: the exit code, and whether check warns.
ConfigCheck(c, readable) ==
    IF ~readable \/ Validate(c) # "Ok" THEN [code |-> 2, warns |-> FALSE]
                                       ELSE [code |-> 0, warns |-> HttpOpenRelay(c)]

\* edge config generate: the defaults are validated before they are written,
\* and a file is only overwritten with --force.
ConfigGenerate(exists, force, writable) ==
    CASE Validate(DefaultConfig) # "Ok" -> 1
      [] exists /\ ~force -> 2
      [] ~writable -> 1
      [] OTHER -> 0
============================================================================
