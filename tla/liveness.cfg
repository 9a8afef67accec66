SPECIFICATION FairSpec
CONSTANTS
    None = None
    Request = {r1, r2}
    AccountId <- MCAccountId
    External = 0
    Seed <- MCSeed
    SeedAccount <- MCSeedAccount
    SeedAmount = 2
    Key <- MCKey
    Calls <- LiveCalls
    NumericMax = 5
    Faults = {"lookup", "stmt", "conn", "commit", "audit", "crash"}
PROPERTIES
    EveryCallAnswered
    LocksReleased
