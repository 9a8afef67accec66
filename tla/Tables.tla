------------------------------- MODULE Tables -------------------------------
(***************************************************************************)
(* The committed tables of the ledger: rows (internal/ledger/types.go),    *)
(* the constraints the schema puts on them (migration 0001) and the rows   *)
(* the migrations seed (0002, 0003).                                       *)
(*                                                                         *)
(* Money is an integer number of 0.0001 units.  Account ids are integers   *)
(* in the order of their canonical UUID strings.  The transaction id that  *)
(* request r mints with uuid.NewV7 is r itself.                            *)
(***************************************************************************)
EXTENDS Integers, FiniteSets

CONSTANTS
    AccountId,    \* every account id, created or not
    External,     \* ExternalAccountID
    Request,      \* calls of the service; also the transaction ids they mint
    Seed,         \* ids of the seed deposits of migration 0003
    SeedAccount,  \* the account each of them credits
    SeedAmount,   \* the amount each of them credits
    Key,          \* idempotency keys the clients send
    NumericMax,   \* largest magnitude a NUMERIC(20,4) column holds
    None          \* absent value (SQL NULL, Go nil)

ASSUME AccountAssumption ==
    AccountId \subseteq Int /\ External \in AccountId /\ None \notin Int
ASSUME IdAssumption ==
    /\ Request \cap Seed = {} /\ Key \cap Seed = {}
    /\ None \notin Request \cup Seed \cup Key
ASSUME SeedAssumption ==
    /\ IsFiniteSet(Seed) /\ SeedAmount \in Nat \ {0}
    /\ SeedAccount \in [Seed -> AccountId \ {External}]
    /\ \A s, t \in Seed : SeedAccount[s] = SeedAccount[t] => s = t
ASSUME BoundAssumption == NumericMax \in Nat

VARIABLES
    exists,   \* ids of the rows of accounts
    balance,  \* accounts.balance
    txns,     \* rows of transactions
    entries   \* rows of entries

tables == <<exists, balance, txns, entries>>

Kind == {"TRANSFER", "REVERSAL", "DEPOSIT"}
TxId == Request \cup Seed

\* The key of a seed row ('seed-deposit-alice-001' ...) stands for its id.
TxnRow == [id : TxId, kind : Kind, key : Key \cup Seed,
           reverses : TxId \cup {None}]
EntryRow == [tx : TxId, account : AccountId, dir : {"DEBIT", "CREDIT"},
             amount : Nat \ {0}]

Txn(id, kind, key, reverses) ==
    [id |-> id, kind |-> kind, key |-> key, reverses |-> reverses]
Entry(tx, account, dir, amount) ==
    [tx |-> tx, account |-> account, dir |-> dir, amount |-> amount]

\* A balance that UPDATE accounts accepts: it fits the column, and the
\* non_negative_user_balance CHECK spares only the system account.
Representable(n) == -NumericMax <= n /\ n <= NumericMax
Storable(a, n) == Representable(n) /\ (a = External \/ n >= 0)

\* SUM(amount) over entry rows, counted unit by unit.
Units(S) == UNION {{e} \X (1 .. e.amount) : e \in S}
Total(S) == Cardinality(Units(S))
Side(S, dir) == {e \in S : e.dir = dir}

\* The two sides of an account's book.
Credits(a) == Total({e \in Side(entries, "CREDIT") : e.account = a})
Debits(a) == Total({e \in Side(entries, "DEBIT") : e.account = a})

\* GetTransactionByIdempotencyKey and GetTransaction: the header, then its
\* entries.  Both became visible in one commit and never change, so the two
\* queries read as one.
ByKey(key) == {t \in txns : t.key = key}
ById(id) == {t \in txns : t.id = id}
EntriesOf(id) == {e \in entries : e.tx = id}

\* The database as migrations 0001-0003 leave it.
Seeded ==
    /\ exists = {External} \cup {SeedAccount[s] : s \in Seed}
    /\ balance = [a \in AccountId |->
                     IF a = External THEN -(SeedAmount * Cardinality(Seed))
                     ELSE IF a \in exists THEN SeedAmount ELSE 0]
    /\ txns = {Txn(s, "DEPOSIT", s, None) : s \in Seed}
    /\ entries = {Entry(s, External, "DEBIT", SeedAmount) : s \in Seed}
          \cup {Entry(s, SeedAccount[s], "CREDIT", SeedAmount) : s \in Seed}

\* accounts.balance, which every operation overwrites with an absolute value
\* computed in Go, always equals the account's credits minus its debits: no
\* interleaving of UpdateBalance calls loses an update.
BalanceMatchesEntries ==
    \A a \in AccountId : balance[a] = Credits(a) - Debits(a)
=============================================================================
