SPECIFICATION FairSpec
CONSTANTS
    c1 = c1
    r1 = r1
    m1 = m1
    Caps = {c1}
    Relays = {r1}
    Monitors = {m1}
    Operators = {}
    Event <- OneEvent
    Issue <- OneIssue
    Fips <- InArea
    Coverage <- CoverA
    Bypass = {}
    Upgrade = {}
    Undated = {}
    Terminal = {}
    Filtered = {}
    Replaces <- NoChain
    MaxHeard = 1
    MaxCrashes = 1
    NoAlert = NoAlert
INVARIANTS
    AiredOnce
PROPERTIES
    EveryAlertDecided
    HoldEnds
    LockFreed
CHECK_DEADLOCK FALSE
