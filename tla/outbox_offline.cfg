SPECIFICATION PromptSpec
CONSTANTS
    p = p
    q = q
    Msgs = {1, 2}
    Peers = {p, q}
    PeerOf <- OneEach
    Node = node
    Builds = {TRUE}
    Large = {}
    Tickets = {FALSE}
    SavedKeys <- AllKeys
    Readers = {hub}
    DIRECT_DEADLINE = 4
    PROP_DEADLINE = 8
    PROOF_TIMEOUT = 2
    LINK_RETRY = 2
    KEY_RETRY = 1
    DELIVERY_RETRY = 1
    RESOURCE_RETRY = 2
    PENDING_LINK_EXPIRY = 2
    MAX_ATTEMPTS = 2
    MAX_ROUTE_TRIES = 1
    MAX_LINK_TRIES = 1
    MAX_DIRECT_ROUNDS = 1
    Reachable = {node}
    Prompt = TRUE
    Costs = {0}
    MaxEvents = 0
PROPERTIES StoredWhenOffline
CHECK_DEADLOCK FALSE
