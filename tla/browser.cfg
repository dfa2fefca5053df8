SPECIFICATION FairSpec
CONSTANTS
    Pages = {p1, p2}
    NoPage = none
    Readers = {hub}
    Hub = hub
    PAGE_DEADLINE_SECS = 1
    BROWSER_ROUTE_RETRY_SECS = 1
    BROWSER_ROUTE_TRIES = 1
    BACK_STACK_MAX = 2
    MaxLinks = 5
    MaxActs = 3
INVARIANTS ScreenIsTrue AnonymousUnlessOrphaned
PROPERTIES HistoryAsWanted EveryFetchEnds
