SPECIFICATION Spec
CONSTANTS
    Junk = Junk
    Txn = {1, 2, 3, 4}
    Seed = {1, 2}
    Account = {a1}
    Kinds = {"DEPOSIT"}
    MaxTime = 2
    Default = 2
    Cap = 3
    Reads = {}
INVARIANTS
    NewestOnTop
