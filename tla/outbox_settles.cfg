SPECIFICATION FairSpec
CONSTANTS
    p = p
    q = q
    Msgs = {1}
    Peers = {p}
    PeerOf <- AllToP
    Node = node
    Builds = {TRUE, FALSE}
    Large = {}
    Tickets = {FALSE}
    SavedKeys <- AllKeys
    Readers = {hub}
    DIRECT_DEADLINE = 8
    PROP_DEADLINE = 2
    PROOF_TIMEOUT = 1
    LINK_RETRY = 1
    KEY_RETRY = 1
    DELIVERY_RETRY = 1
    RESOURCE_RETRY = 2
    PENDING_LINK_EXPIRY = 1
    MAX_ATTEMPTS = 1
    MAX_ROUTE_TRIES = 1
    MAX_LINK_TRIES = 1
    MAX_DIRECT_ROUNDS = 1
    Reachable = {p, node}
    Prompt = FALSE
    Costs = {0}
    MaxEvents = 1
PROPERTY EveryMessageSettles
CHECK_DEADLOCK FALSE
