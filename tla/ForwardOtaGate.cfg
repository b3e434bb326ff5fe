SPECIFICATION Spec
CONSTANTS
    m1 = m1
    o1 = o1
    o2 = o2
    r1 = r1
    Caps = {}
    Relays = {r1}
    Monitors = {m1}
    Operators = {o1, o2}
    Event <- OneEvent
    Issue <- OneIssue
    Fips <- InArea
    Coverage <- CoverA
    Bypass = {}
    Upgrade = {}
    Undated = {}
    Terminal = {}
    Filtered = {}
    Replaces <- NoChain
    MaxHeard = 2
    MaxCrashes = 1
    NoAlert = NoAlert
INVARIANTS
    TypeOK
PROPERTIES
    CancelInTimeIsFinal
    HoldOffHonoured
SYMMETRY Interchangeable
CHECK_DEADLOCK FALSE
