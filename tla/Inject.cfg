CONSTANTS
    relay = relay
    signoff = signoff
    Forwarded = {relay}
    Commanded = {}
    Signoffs = {signoff}
    Chunks = 2
    MaxLive = 2
SPECIFICATION Spec
INVARIANTS TypeOK Sequenced OnlyFirstLost OneStray GateHeld
