SPECIFICATION Spec
CONSTANTS
    a = a
    b = b
    Msgs = {1, 2}
    Peers = {a, b}
    Sender <- FromAB
    Welcome = welcome
    Readers = {hub, local}
    MAX_RECENT = 1
    MaxArrivals = 3
    MaxUiOps = 2
    MaxCrashes = 1
INVARIANTS TypeOK NoDuplicate RightThreadUnlessRaced KeptWhenQuiet BadgeIsTrue
    ClearedIsGone
SYMMETRY ReaderSymmetry
CHECK_DEADLOCK FALSE
