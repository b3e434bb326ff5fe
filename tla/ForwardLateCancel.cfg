SPECIFICATION Spec
CONSTANTS
    c1 = c1
    o1 = o1
    Caps = {c1}
    Relays = {}
    Monitors = {}
    Operators = {o1}
    Event <- OneEvent
    Issue <- OneIssue
    Fips <- InArea
    Coverage <- CoverA
    Bypass = {}
    Upgrade = {}
    Undated = {}
    Terminal = {}
    Filtered = {}
    Replaces <- NoChain
    MaxHeard = 1
    MaxCrashes = 0
    NoAlert = NoAlert
PROPERTIES
    CancelIsFinal
CHECK_DEADLOCK FALSE
