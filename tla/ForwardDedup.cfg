SPECIFICATION Spec
CONSTANTS
    c1 = c1
    c2 = c2
    c3 = c3
    m1 = m1
    r1 = r1
    Caps = {c1, c2, c3}
    Relays = {r1}
    Monitors = {m1}
    Operators = {}
    Event <- OneEvent
    Issue <- OneIssue
    Fips <- InArea
    Coverage <- CoverA
    Bypass = {c1, c2, c3, r1}
    Upgrade = {}
    Undated = {c3}
    Terminal = {c3}
    Filtered = {}
    Replaces <- Chain
    MaxHeard = 1
    MaxCrashes = 0
    NoAlert = NoAlert
INVARIANTS
    LockedCheckStaysTrue
    DuplicateHasOriginal
CHECK_DEADLOCK FALSE
