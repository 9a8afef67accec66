SPECIFICATION FairSpec
CONSTANTS
    Worker = {w1, w2}
    Iters = 2
    OpeningSrc = 2
    OpeningDst = 0
    Faults = {"timeout", "error", "commit", "expire"}
INVARIANTS
    DifferenceIsExplained
    ExitZeroIsEarned
    BalancesBounded
PROPERTIES
    TestEnds
CHECK_DEADLOCK FALSE
