SPECIFICATION FairSpec
CONSTANTS
    Msgs = {m1, m2}
    Readers = {hub}
    Hub = hub
    SYNC_DEADLINE_SECS = 1
    SYNC_ROUTE_RETRY_SECS = 1
    SYNC_ROUTE_TRIES = 1
    PN_PROBE_RETRY_SECS = 1
    MaxLinks = 5
    MaxRequests = 1
    MaxEvents = 1
INVARIANTS TypeOK DeletedWasDelivered OneLinkToNode NoLostLinkUp AnswerAsAsked
PROPERTIES EverySyncEnds FetchedWhenCalm
