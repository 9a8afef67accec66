SPECIFICATION SchemaSpec
CONSTANTS
    Session = {s1, s2}
    EntryId = {e1, e2, e3}
    Tx = {t1}
    Account = {a1, a2}
    MaxAmount = 2
    Sql = {"insert"}
    NoRow = NoRow
INVARIANTS
    BalanceEnforced
SYMMETRY Symmetry
CHECK_DEADLOCK FALSE
