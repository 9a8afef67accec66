----------------------------- MODULE Migrations -----------------------------
(***************************************************************************)
(* The data migrations (0002, 0003) in both directions and run again, with *)
(* postings in between.  golang-migrate sends a file as one multi-         *)
(* statement query, so its statements take effect together or not at all.  *)
(***************************************************************************)
EXTENDS AtomicLedger

CONSTANTS
    Directions,   \* subset of {"up", "down"}
    MaxRuns       \* migrations run after the first two

\* 0003 seeds at least Alice's deposit.
ASSUME MigrationsAssumption == MaxRuns \in Nat /\ Seed # {}

VARIABLES
    level,        \* schema_migrations.version: 1, 2 or 3
    ran,          \* the file that ran last
    runs,         \* migrations run
    posted        \* history: something was posted or opened by a client

vars == <<tables, level, ran, runs, posted>>

Demo == {SeedAccount[s] : s \in Seed}

\* A file runs at the version before it, or it is the last one and runs again:
\* after a kill between its statements and the version's clean mark, an operator
\* forces the version.  A server that was up meanwhile went on serving.
Runs(file, before, after) ==
    /\ level = before \/ ran = file
    /\ level' = after /\ ran' = file
    /\ runs < MaxRuns + 2 /\ runs' = runs + 1
    /\ UNCHANGED posted

\* 0002 up: INSERT ... ON CONFLICT DO NOTHING.
Up2 ==
    /\ Runs("up2", 1, 2)
    /\ exists' = exists \cup {External}
    /\ balance' = IF External \in exists THEN balance
                  ELSE [balance EXCEPT ![External] = 0]
    /\ UNCHANGED <<txns, entries>>

SeedDebits == {Entry(s, External, "DEBIT", SeedAmount) : s \in Seed}
SeedCredits == {Entry(s, SeedAccount[s], "CREDIT", SeedAmount) : s \in Seed}

\* Mutant: the UPDATE without its NOT EXISTS.
MutUnguarded == TRUE
\* Alice's seed deposit stands for all: they are inserted and deleted together.
FirstTime == \A s \in Seed : ByKey(s) = {}

Liability == -(SeedAmount * Cardinality(Seed))

\* 0003 up: the demo accounts, EXTERNAL's balance, headers, then entries.
Up3 ==
    /\ Runs("up3", 2, 3)
    /\ exists' = exists \cup Demo
    /\ balance' = [a \in AccountId |->
                      IF a \in Demo \ exists THEN SeedAmount
                      ELSE IF a = External /\ FirstTime THEN Liability
                      ELSE balance[a]]
    /\ txns' = txns \cup {Txn(s, "DEPOSIT", s, None) : s \in
                             {u \in Seed : ByKey(u) = {} /\ ById(u) = {}}}
    /\ entries' = entries \cup SeedDebits \cup SeedCredits

\* Mutant: 0003 down forgets the headers.
MutKeepsHeaders ==
    LET rest == {e \in entries : e.tx \notin Seed}
    IN  /\ "down" \in Directions /\ Runs("down3", 3, 2)
        /\ \A e \in rest : e.account \notin Demo
        /\ entries' = rest /\ UNCHANGED txns
        /\ exists' = exists \ Demo
        /\ balance' = [a \in AccountId |-> IF a = External \/ a \in Demo THEN 0
                                           ELSE balance[a]]

\* 0003 down.  The foreign key of entries stops it while another transaction
\* touches a demo account.
Down3 ==
    LET rest == {e \in entries : e.tx \notin Seed}
    IN  /\ "down" \in Directions /\ Runs("down3", 3, 2)
        /\ \A e \in rest : e.account \notin Demo
        /\ entries' = rest
        /\ txns' = {t \in txns : t.key \notin Seed}
        /\ exists' = exists \ Demo
        /\ balance' = [a \in AccountId |-> IF a = External \/ a \in Demo THEN 0
                                           ELSE balance[a]]

\* 0002 down.  The second DELETE looks for EXTERNAL's transactions in the
\* entries that the first one has left: there are none, and no header goes.
Down2 ==
    LET touched == {e.tx : e \in {d \in entries : d.account = External}}
        left == {e \in entries : e.tx \notin touched}
        found == {e.tx : e \in {d \in left : d.account = External}}
    IN  /\ "down" \in Directions /\ Runs("down2", 2, 1)
        /\ entries' = left
        /\ txns' = {t \in txns : t.id \notin found}
        /\ exists' = exists \ {External}
        /\ balance' = [balance EXCEPT ![External] = 0]

\* The service at work between two migrations.
Deposit(r, k, a, n) ==
    PostOriginal(Txn(r, "DEPOSIT", k, None),
                 Entry(r, External, "DEBIT", n), Entry(r, a, "CREDIT", n))

Serve ==
    /\ level >= 2
    /\ \/ \E r \in Request, k \in Key, a \in AccountId : Deposit(r, k, a, 1)
       \/ \E a \in AccountId \ Demo : OpenAccount(a)
    /\ posted' = TRUE /\ UNCHANGED <<level, ran, runs>>

MigrationsInit ==
    /\ exists = {} /\ balance = [a \in AccountId |-> 0]
    /\ txns = {} /\ entries = {}
    /\ level = 1 /\ ran = "up1" /\ runs = 0 /\ posted = FALSE

MigrationsNext == Up2 \/ Up3 \/ Down3 \/ Down2 \/ Serve

MigrationsSpec == MigrationsInit /\ [][MigrationsNext]_vars

-----------------------------------------------------------------------------
(* Properties *)

\* However often the migrations went up and down before the service was used,
\* they leave the database that Ledger starts from.
LeavesSeeded == level = 3 /\ ~posted => Seeded

ZeroesExternal ==
    ran = "down3" /\ posted /\ balance' = [balance EXCEPT ![External] = 0]

\* A migration that is run again, up or down, changes nothing, whatever was
\* posted since: ON CONFLICT DO NOTHING, the NOT EXISTS guards, and nothing
\* left to delete.  Only 0003 down sets EXTERNAL's balance to 0 once more.
RerunChangesNothing ==
    [][runs' # runs /\ ran' = ran
         => /\ UNCHANGED <<exists, txns, entries>>
            /\ UNCHANGED balance \/ ZeroesExternal]_vars

\* 0003 down: "Restore EXTERNAL balance to 0 now that the demo deposits are
\* removed."  Deposits to other accounts remain in EXTERNAL's book.
ExternalRestored ==
    External \in exists => balance[External] = Credits(External) - Debits(External)

\* 0002 down: "The subquery covers transactions that the EXTERNAL account
\* participated in".  Their headers stay behind without entries.
NoEmptyTransaction == \A t \in txns : EntriesOf(t.id) # {}
=============================================================================
