CONSTANTS
    None = None
    alice = alice
    bob = bob
    carol = carol
    Account = {alice, bob, carol}
    Node = {1, 2, 3}
    Genesis <- MCGenesis
    ThisChain = "robonomics"
    MaxPermitTtl = 1
    Client = {"sub", "cli"}
    MaxFinal = 3
    MaxBest = 1
    MaxPerBlock = 2
    Config <- MCConfig
    Message <- MCMessage
    BridgeNode = 2
    BridgeAccount = bob
    MaxArrivals = 2
    QueueCap = 1
    Script <- NoScript
SPECIFICATION Spec
INVARIANT SubscribedWhenConnected
CHECK_DEADLOCK FALSE
