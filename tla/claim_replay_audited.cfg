SPECIFICATION Spec
CONSTANTS
    None = None
    Request = {r1, r2}
    AccountId <- MCAccountId
    External = 0
    Seed <- MCSeed
    SeedAccount <- MCSeedAccount
    SeedAmount = 2
    Key <- MCKey
    Calls <- DrainCalls
    NumericMax = 5
    Faults = {}
SYMMETRY Symmetry
INVARIANTS
    ReplayedIsAudited
