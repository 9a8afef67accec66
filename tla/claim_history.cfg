SPECIFICATION PageSpec
CONSTANTS
    Account = {a1, a2}
    None = None
    Limit = 2
    Seed = 1
    MaxSubmits = 0
    MaxOthers = 0
    MaxClicks = 2
    PageFaults = {}
INVARIANTS
    HistoryShowsCurrent
CHECK_DEADLOCK FALSE
