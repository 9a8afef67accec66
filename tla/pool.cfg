SPECIFICATION PoolFairSpec
CONSTANTS
    Slot = {h1, h2, h3}
    MaxConns = 2
    Row = {1, 2}
    MaxList = 1
    Outside = {}
INVARIANTS
    NoHoldAndWait
PROPERTIES
    EveryRequestServed
