SPECIFICATION PoolFairSpec
CONSTANTS
    Slot = {h1, h2}
    MaxConns = 1
    Row = {1, 2}
    MaxList = 1
    Outside = {1}
PROPERTIES
    UnrelatedNotStarved
