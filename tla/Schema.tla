------------------------------- MODULE Schema -------------------------------
(***************************************************************************)
(* What the schema (migrations/0001_init.up.sql) enforces by itself:       *)
(* sessions run any SQL of the kinds in Sql under READ COMMITTED, with the *)
(* table constraints, row locks, and the deferred constraint trigger on    *)
(* entries, and without the service's code.                                *)
(***************************************************************************)
EXTENDS Integers, FiniteSets, TLC

CONSTANTS
    Session,
    EntryId,    \* entries.id, a BIGSERIAL: bounds the rows ever inserted
    Tx,         \* transactions.id of existing headers
    Account,    \* existing accounts, whose balances nobody updates
    MaxAmount,
    Sql,        \* statements the sessions use: "insert", "amount", "move",
                \* "delete", all on entries
    NoRow       \* no such row

Row == [tx : Tx, account : Account, dir : {"DEBIT", "CREDIT"},
        amount : 1 .. MaxAmount]

VARIABLES
    rows,      \* entries as committed; NoRow before INSERT and after DELETE
    own,       \* the entries a session has written, by id
    queue,     \* trigger events of a session, by NEW.transaction_id
    ending,    \* sessions inside COMMIT
    lost       \* history: transactions that a commit took a leg from

schemaVars == <<rows, own, queue, ending, lost>>

\* The sum of the legs ids of a table, credits minus debits; as in Tables, a
\* sum is counted unit by unit.
LegUnits(table, ids, dir) ==
    {u \in ids \X (1 .. MaxAmount) :
        table[u[1]].dir = dir /\ u[2] <= table[u[1]].amount}
Net(table, ids) == Cardinality(LegUnits(table, ids, "CREDIT"))
                       - Cardinality(LegUnits(table, ids, "DEBIT"))

Legs(table, ids, tx) == {i \in ids : table[i] # NoRow /\ table[i].tx = tx}
SumOf(table, tx) == Net(table, Legs(table, EntryId, tx))
BookOf(table, a) ==
    Net(table, {i \in EntryId : table[i] # NoRow /\ table[i].account = a})

\* What a statement of s sees: committed rows under its own writes.
View(s) == [i \in EntryId |-> IF i \in DOMAIN own[s] THEN own[s][i] ELSE rows[i]]

Locked(s, i) == \E t \in Session \ {s} : i \in DOMAIN own[t]

\* AFTER INSERT OR UPDATE ON entries.
Fires(stmt) == stmt \in {"insert", "amount", "move"}

\* A statement of s on entries: it waits for the row lock, writes its version
\* of the row and queues the trigger, once for the row's new transaction_id.
Write(s, stmt, i, row) ==
    /\ stmt \in Sql /\ s \notin ending /\ ~Locked(s, i)
    /\ own' = [own EXCEPT ![s] = [j \in DOMAIN @ \cup {i} |->
                                     IF j = i THEN row ELSE @[j]]]
    /\ queue' = IF Fires(stmt) THEN [queue EXCEPT ![s] = @ \cup {row.tx}]
                ELSE queue
    /\ UNCHANGED <<rows, ending, lost>>

Insert(s, i, row) ==
    /\ rows[i] = NoRow /\ \A t \in Session : i \notin DOMAIN own[t]
    /\ Write(s, "insert", i, row)

UpdateAmount(s, i, n) ==
    View(s)[i] # NoRow /\ Write(s, "amount", i, [View(s)[i] EXCEPT !.amount = n])

UpdateTransactionId(s, i, tx) ==
    View(s)[i] # NoRow /\ Write(s, "move", i, [View(s)[i] EXCEPT !.tx = tx])

Delete(s, i) == View(s)[i] # NoRow /\ Write(s, "delete", i, NoRow)

-----------------------------------------------------------------------------
Begin(s) == \* a commit or rollback leaves the session as it started
    /\ own' = [own EXCEPT ![s] = <<>>]
    /\ queue' = [queue EXCEPT ![s] = {}] /\ ending' = ending \ {s}

StartCommit(s) ==
    /\ s \notin ending /\ ending' = ending \cup {s}
    /\ UNCHANGED <<rows, own, queue, lost>>

\* check_double_entry_balance for one event, on a snapshot of its own.
CheckDoubleEntry(s, tx) ==
    /\ s \in ending /\ tx \in queue[s] /\ SumOf(View(s), tx) = 0
    /\ queue' = [queue EXCEPT ![s] = @ \ {tx}]
    /\ UNCHANGED <<rows, own, ending, lost>>

\* RAISE EXCEPTION, or ROLLBACK by the client.
Rollback(s) ==
    /\ s \in ending => \E tx \in queue[s] : SumOf(View(s), tx) # 0
    /\ Begin(s) /\ UNCHANGED <<rows, lost>>

Commit(s) ==
    /\ s \in ending /\ queue[s] = {}
    /\ rows' = View(s)
    /\ lost' = lost \cup {rows[i].tx : i \in {j \in DOMAIN own[s] :
                   rows[j] # NoRow /\ (own[s][j] = NoRow \/ own[s][j].tx # rows[j].tx)}}
    /\ Begin(s)

SchemaInit ==
    /\ rows = [i \in EntryId |-> NoRow]
    /\ own = [s \in Session |-> <<>>]
    /\ queue = [s \in Session |-> {}] /\ ending = {} /\ lost = {}

SchemaNext ==
    \E s \in Session :
        \/ \E i \in EntryId :
              \/ \E row \in Row : Insert(s, i, row)
              \/ \E n \in 1 .. MaxAmount : UpdateAmount(s, i, n)
              \/ \E tx \in Tx : UpdateTransactionId(s, i, tx)
              \/ Delete(s, i)
        \/ StartCommit(s) \/ Rollback(s) \/ Commit(s)
        \/ \E tx \in queue[s] : CheckDoubleEntry(s, tx)

\* Sessions, entry ids, headers and accounts are only compared for equality.
Symmetry == Permutations(Session) \cup Permutations(EntryId)
    \cup Permutations(Tx) \cup Permutations(Account)

SchemaSpec == SchemaInit /\ [][SchemaNext]_schemaVars

-----------------------------------------------------------------------------
(* Properties *)

\* As long as no leg is deleted or moved away from it, a transaction that has
\* been committed balances, whatever several sessions insert, amend and delete
\* at once: the trigger sees the session's own rows, and the rows of others
\* only once they have passed it.
KeptLegsBalance == \A tx \in Tx \ lost : SumOf(rows, tx) = 0

\* docs/ARCHITECTURE.md: "Even if the application code is buggy, even if a DBA
\* runs raw SQL, the database itself rejects unbalanced transactions at
\* COMMIT."  No trigger fires on DELETE.
RawSqlBalances == \A tx \in Tx : SumOf(rows, tx) = 0

\* README: the CHECK and the trigger "mean the DB will reject any commit that
\* leaves the balance inconsistent, even if a future code change forgets the
\* UPDATE".  Here accounts.balance stays 0, and no constraint looks at both.
BalanceEnforced == \A a \in Account : BookOf(rows, a) = 0
=============================================================================
