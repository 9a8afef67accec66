SPECIFICATION Spec
CONSTANTS
    Junk = Junk
    Txn = {1, 2, 3}
    Seed = {2}
    Account = {a1}
    Kinds = {"DEPOSIT"}
    MaxTime = 1
    Default = 1
    Cap = 2
    Reads = {"pages", "history", "audit"}
INVARIANTS
    NoRowSkipped
    ListedWhole
PROPERTIES
    DisplacedByNewer
    MoreAskedMoreShown
