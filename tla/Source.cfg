SPECIFICATION Spec
CONSTANTS
    n1 = n1
    n2 = n2
    Adapters <- TwoAdapters
    Loops = {n1, n2}
    MaxCommands = 1
    MaxFaults = 1
    None = None
CONSTRAINT SomeStrict
INVARIANTS TypeOK OneLoop 
CHECK_DEADLOCK FALSE
