SPECIFICATION FairSpec
CONSTANTS
    relay = relay
    lamp = lamp
    f = f
    w = w
    Broadcasts = {f, w}
    Forwarded = {f}
    Pins = {relay, lamp}
    Matrix <- RelayAndLamp
    Buzzer = lamp
    Commanded = {lamp}
    MaxEvents = 1
    None = None
INVARIANTS
    TypeOK
    KeyHasOwner
    HeldIsKeyed
PROPERTIES
    MarkerOutlivesOthers
    RelayComesDown
CHECK_DEADLOCK FALSE
