SPECIFICATION MoneySpec
CONSTANTS
    Junk = Junk
    MaxText = 260
    Opening = 10
INVARIANTS
    RoundedOnce
    PostsNearest
    ShownIsStored
CHECK_DEADLOCK FALSE
