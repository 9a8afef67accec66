SPECIFICATION HttpSpec
CONSTANTS
    None = None
    Request = {r1, r2}
    AccountId <- MCAccountId
    External = 0
    Seed <- MCSeed
    SeedAccount <- MCSeedAccount
    SeedAmount = 2
    Key <- MCKey
    Calls <- MCCalls
    Wire <- MCWire
    NumericMax = 5
    Faults = {"lookup", "stmt", "commit", "conn", "audit", "uuid", "crash"}
SYMMETRY Symmetry
INVARIANTS
    StatusIsTruth
    ConflictIsFinal
    ListAddsUp
    NoStaleRead
    TriggerIsBackstop
    SuccessIsCommitted
PROPERTIES
    AppendOnly
    ImplementsAtomicLedger
