SPECIFICATION Spec
CONSTANTS
    g1 = g1
    g2 = g2
    b = b
    Schedulers = {g1, g2}
    Buttons = {b}
    Weeks = 2
    Minutes = 4
    Windows <- TwoDays
    MaxFaults = 2
    None = None
INVARIANTS TypeOK OncePerWeek SentIfDue
SYMMETRY Interchangeable
CHECK_DEADLOCK FALSE
