SPECIFICATION PageSpec
CONSTANTS
    Account = {a1}
    None = None
    Limit = 2
    Seed = 4
    MaxSubmits = 1
    MaxOthers = 1
    MaxClicks = 2
    PageFaults = {"fail"}
INVARIANTS
    PagesOnceEach
    FreshAfterPost
CHECK_DEADLOCK FALSE
