SPECIFICATION SchemaSpec
CONSTANTS
    Session = {s1, s2}
    EntryId = {e1, e2}
    Tx = {t1, t2}
    Account = {a1}
    MaxAmount = 3
    Sql = {"insert", "amount", "move", "delete"}
    NoRow = NoRow
INVARIANTS
    KeptLegsBalance
SYMMETRY Symmetry
CHECK_DEADLOCK FALSE
