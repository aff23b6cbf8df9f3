----------------------------- MODULE MCGateway -----------------------------
(***************************************************************************)
(* A small gateway: the sections switched on and off, and every            *)
(* section with each of the settings that are wrong or at a boundary.      *)
(***************************************************************************)
EXTENDS Gateway

CompleteAuth == [DefaultAuth EXCEPT !.mode = "cps", !.root = TRUE, !.genesis = "32 bytes"]
CompleteChain == [DefaultBlockchain EXCEPT !.enabled = TRUE, !.key_file = TRUE, !.node_id = TRUE]
Mesh == [DefaultMeshtastic EXCEPT !.enabled = TRUE]

\* Everything on; two peers are needed to be ready.
Complete ==
    [DefaultConfig EXCEPT
        !.auth = CompleteAuth, !.blockchain = CompleteChain, !.storage_path = TRUE,
        !.meshtastic = Mesh,
        !.pubsub = [DefaultPubsub EXCEPT !.min_connected_peers = 2, !.identity_file = TRUE]]

\* One section switched off, and no transport at all.
Enabled ==
    {[Complete EXCEPT !.blockchain.enabled = FALSE],
     [Complete EXCEPT !.pubsub.enabled = FALSE],
     [Complete EXCEPT !.pubsub.enabled = FALSE, !.meshtastic.enabled = FALSE],
     [Complete EXCEPT !.blockchain.enabled = FALSE, !.http.enabled = FALSE,
                      !.meshtastic.enabled = FALSE]}

AuthCase ==
    {[CompleteAuth EXCEPT !.mode = "whitelist", !.file = f] : f \in BOOLEAN}
    \cup {[CompleteAuth EXCEPT !.root = FALSE]}
    \cup {[CompleteAuth EXCEPT !.genesis = g] : g \in {"missing", "short"}}
    \cup {[CompleteAuth EXCEPT !.limits[l] = 0] : l \in {"cache_capacity", "max_pending"}}
MeshCase ==
    {[Mesh EXCEPT !.transport = "ble"], [Mesh EXCEPT !.device = FALSE],
     [Mesh EXCEPT !.max_fragments = MaxFragmentCount + 1],
     [Mesh EXCEPT !.limits["max_pending"] = 0], [Mesh EXCEPT !.reconnect_max_secs = 0]}
ChainCase ==
    {[CompleteChain EXCEPT !.key_file = FALSE], [CompleteChain EXCEPT !.retry_min_secs = 0],
     [CompleteChain EXCEPT !.endpoint = "http"]}

\* A section that is wrong, in a gateway without pubsub.
Quiet == [Complete EXCEPT !.pubsub.enabled = FALSE]
Config ==
    {DefaultConfig} \cup Enabled
    \cup {[Quiet EXCEPT !.auth = a] : a \in AuthCase}
    \cup {[Quiet EXCEPT !.meshtastic = m] : m \in MeshCase}
    \cup {[Quiet EXCEPT !.blockchain = b] : b \in ChainCase}
    \cup {[Quiet EXCEPT !.batcher.max_batch_size = MaxPayloadSize + 1],
          [Quiet EXCEPT !.storage_path = FALSE],
          [Complete EXCEPT !.pubsub.addresses = "broken"],
          [Quiet EXCEPT !.ipfs = [enabled |-> TRUE, providers |-> <<"kubo", "s3">>,
                                  durability |-> "any"]]}
============================================================================
