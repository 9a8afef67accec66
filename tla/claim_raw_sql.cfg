SPECIFICATION SchemaSpec
CONSTANTS
    Session = {s1, s2}
    EntryId = {e1, e2, e3}
    Tx = {t1}
    Account = {a1}
    MaxAmount = 2
    Sql = {"insert", "delete"}
    NoRow = NoRow
INVARIANTS
    RawSqlBalances
SYMMETRY Symmetry
CHECK_DEADLOCK FALSE
