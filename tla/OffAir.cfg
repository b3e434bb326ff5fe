SPECIFICATION FairSpec
CONSTANTS
    lp1 = lp1
    lp2 = lp2
    a = a
    b = b
    lone = lone
    Sources = {lp1, lp2}
    Programme <- TwoAndOne
    Event <- Distinct
    Local = {b}
    Bursts = 2
    PreRoll = 1
    CaptureMax = 5
    Steady = {lp2}
    MaxOutages = 1
    MaxBad = 1
    NoAlert = NoAlert
INVARIANTS TypeOK RecordingWhole StartsAtHeader ForwardedWasHeard OnceUnlessTimedOut
PROPERTIES ParkedIsDispatched
