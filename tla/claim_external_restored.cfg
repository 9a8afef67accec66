SPECIFICATION MigrationsSpec
CONSTANTS
    AccountId <- MCAccountId
    External = 0
    Request = {r1, r2}
    Seed <- MCSeed
    SeedAccount <- MCSeedAccount
    SeedAmount = 2
    Key = {k1, k2}
    NumericMax = 9
    None = None
    Directions = {"up", "down"}
    MaxRuns = 5
INVARIANTS
    ExternalRestored
CHECK_DEADLOCK FALSE
