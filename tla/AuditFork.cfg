SPECIFICATION Spec
CONSTANTS
    w1 = w1
    w2 = w2
    w3 = w3
    a1 = a1
    Writers = {w1, w2, w3}
    Activations = {a1}
    Legacy = 1
    MaxId = 5
    None = None
INVARIANTS NoFork
CHECK_DEADLOCK FALSE
