SPECIFICATION PageSpec
CONSTANTS
    Account = {a1, a2}
    None = None
    Limit = 2
    Seed = 6
    MaxSubmits = 0
    MaxOthers = 0
    MaxClicks = 2
    PageFaults = {"fail"}
INVARIANTS
    LoadMoreAppendsNext
CHECK_DEADLOCK FALSE
