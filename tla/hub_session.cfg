SPECIFICATION FairSpec
CONSTANTS
    Writers = {"pump"}
    Watchers = {"menu", "wifi", "resume"}
    CanBlock = {"pump"}
    MaxFaults = 2
INVARIANTS SessionCoherent WatchdogArmed
PROPERTY StaysUp
