# A TLA+ model of the banking service

The service keeps a double-entry ledger in PostgreSQL. Its correctness rests on
how concurrent calls interleave over shared rows: row locks taken in one order,
balances written as absolute values, unique indexes that decide races, a
COMMIT that may be lost, an audit row written on its own. This directory models
that code statement by statement, and around it the HTTP handlers, the pool,
the server process, the listings, the amounts, the schema's trigger, the
migrations, the load test and the page. TLC checks small instances; TLAPS proves
every safety property that holds on them, and that the service implements an
atomic ledger, for any number of calls, accounts and keys.

## The system and its parts

| Part | Source | Here |
|---|---|---|
| Ledger service: `Transfer`, `Reverse`, `Deposit`, auditing | `internal/ledger` | `Ledger`, abstractly `AtomicLedger` |
| Store, write side: `WithTx`, row locks, inserts, `WriteAudit`, `CreateAccount` | `internal/store` | `Ledger`, `Tables` |
| Store, listings: order, limits, offsets, N+1 reads | `internal/store` | `Listing` |
| Connection pool | `internal/store`; pgxpool, puddle and its semaphore in `vendor` | `Pool` |
| HTTP API: decoding, error map, statuses | `internal/httpapi` | `HttpApi` over `Ledger` |
| Money: parsing, rounding, JSON, column | `internal/money`; decimal in `vendor` | `Money` |
| Server process: startup, shutdown, restart | `cmd/server`; golang-migrate in `vendor` | `Server` over `Pool` |
| Schema: ranges, CHECK, UNIQUE, deferred trigger | `migrations/0001` | `Tables`, `Ledger`; the trigger by itself `Schema` |
| Seed data and data migrations | `migrations/0002`, `0003` | `Migrations`; `Tables!Seeded` is the initial state |
| Load test | `cmd/loadtest` | `LoadTest` |
| Web page | `web/app.js` | `WebPage` |
| PostgreSQL and net/http (external) | as `src` uses them | inside the modules above |

A call enters through an HTTP handler, is checked, looked up by idempotency
key, runs one READ COMMITTED transaction (lock both rows, read, update both
balances, insert the header, insert two entries, commit), writes an audit row
in a statement of its own and is answered. Calls share nothing but the tables.

## Modules

* `Tables` - the committed tables, their constraints, the seed rows, and
  `BalanceMatchesEntries`. Sums over entries are counted unit by unit
  (`Units`, `Total`), which makes them finite cardinalities the prover can
  reason about without induction.
* `AtomicLedger` - what the ledger promises: one step checks the funds, moves
  the amount between two existing accounts and records header and entries under
  a fresh key; a transfer is undone at most once, by its mirror image.
* `Ledger` - the service over the database. The state of the code:

  | Variables | Stand for |
  |---|---|
  | `exists`, `balance`, `txns`, `entries`, `audit` | committed rows |
  | `lock` | row locks |
  | `sess`, `write`, `header`, `legs` | each call's database transaction and its uncommitted rows |
  | `pc`, `call`, `found`, `seen`, `err`, `reply` | the Go side: position, parameters and locals, rows found, balances read, error, answer |

  One action per statement or stretch of Go code between two statements:
  `Transfer`/`Deposit`/`Reverse` (argument checks), `Lookup`, `LoadOriginal`,
  `BeginTx`, `LockRow` (one row at a time, ascending), `ReadBalances` (with the
  funds check), `Debit`, `Credit`, `InsertTransaction` (waits for an
  uncommitted row with the same key or the same original), `InsertEntries`,
  `Commit`, `Rollback`, `Refetch`, `AuditSuccess`, `AuditFailure`,
  `CreateAccount`. What goes wrong: `StatementFails`, `Crash`, and inside the
  actions a failed lookup, a ROLLBACK that does not arrive, a COMMIT without an
  answer, a failed audit INSERT, a failed `uuid.NewV7`. What the server does by
  itself: `ServerAborts`, `LateCommit`. The constant `Faults` says which
  failures a run admits.
* `HttpApi` - the handlers composed with `Ledger`: `createTransfer`,
  `createDeposit` and `reverseTransfer` decode (`DecodeError` in the order of
  the checks) and enter the service, whose own steps follow one by one;
  `Respond` turns its reply into a status through `mapError`. `createAccount`
  and `listAccounts` complete the routes that touch balances.
* `Pool` - a request is the list of database operations it has still to do,
  each of which takes, keeps or returns a connection or locks a row. Waiting
  requests queue for connections in order of arrival. `Abort` is a failing
  statement with its deferred clean-up, `GiveUp` a cancelled wait or the audit
  deadline. A write call that fails, in its transaction or in the re-fetch after
  a lost race, still takes a connection for its FAILURE row (`AfterError`).
* `Server` - `main` over `Pool`: migrations at startup one step at a time,
  serving, `Shutdown` and its 10 s, `db.Close`, a kill at any point, restart.
  A closed pool turns a waiter away when it would be its turn (`ClosedPool`),
  so handlers that outlive `Shutdown` may still join the queue.
* `Listing` - writers that begin, commit or fail (created_at is the time of
  BEGIN) and are audited, as SUCCESS or as FAILURE (`auditFailure`), against a client that pages through `GET /api/transactions`, and the history
  and audit pages of an account.
* `Money` - decimals as integers of a millionth, `Round`, `FromString`, the
  JSON and column conversions, and a transfer reduced to its amounts.
* `Schema` - sessions of arbitrary INSERT, UPDATE and DELETE on `entries`, the
  deferred trigger and READ COMMITTED, without the service.
* `Migrations` - 0002 and 0003 in both directions, with postings of
  `AtomicLedger` in between; the file that ran last (`ran`), up or down, may be
  run again, as after a forced version.
* `LoadTest` - workers, their channel, the client's time-outs and the verdict;
  the service posts in one step, as the refinement below allows. A transfer
  answered 500 because its COMMIT lost the answer is in `doubt`: it keeps its
  rows locked until the database commits it late or drops it.
* `WebPage` - the page's handlers between awaits; requests are answered and
  their answers delivered in any order. Transactions are numbered by
  created_at; one that has begun is `pending` until it commits and becomes
  visible, possibly below others that began after it.
* `LedgerClaims` - statements of the repository's documents, comments and tests
  that the code does not keep.
* `LedgerRefinement` - the mapping from `Ledger` to `AtomicLedger`.
* `MCLedger`, `MCHttpApi`, `MCMigrations` - constants for TLC. The other
  modules take their constants from the cfg.
* `LedgerInvariant` - the inductive invariants of the ledger.
* `LedgerSteps`, `LedgerOutcomes`, `HttpSteps`, `ServiceProofs`,
  `ServerProofs`, `ListingProofs`, `ClientProofs` (`LoadTest` and `WebPage`),
  `DataProofs` (`Money`, `Migrations` and `Schema`) - the proofs.

Abstractions: a transaction id is the request that mints it (`uuid.NewV7` never
repeats); account ids are integers in the order of the UUIDs' strings; error
texts, names and timestamps are left out; header and entries of a committed
transaction are read in one step, because they became visible together and
never change; the SELECT ... FOR UPDATE fixes the rows it finds when it starts
and reads their balances when it has locked them all. An account row that is
locked cannot change, so reading the two balances together is exact. In `Pool`
and `Server` a request keeps only its database operations, in `LoadTest` and
`WebPage` the service only its effect; what they take from the full model is
that a posting is atomic, which is the refinement. `Listing` gives a
transaction one user account, the one whose history is read, and a page is the
set of its rows: the order is total (created_at, then id), so the set fixes the
sequence. In `Schema` the
trigger's events of one session on one transaction are one event, as they
evaluate the same sum.

## Runs

| Run | Instance | Shows |
|---|---|---|
| `contention` | 3 calls: transfers both ways, a deposit, one key shared over common and over disjoint rows, reversals of each other and of a seed deposit, an account created meanwhile, all argument errors; no failures | types, books, no overdraft, one answer per key, the loser's re-fetch finds the winner, no wait cycle, audit rows complete, a transfer undone at most once and exactly, refinement |
| `liveness` | 2 calls, a transfer and a deposit with one key, reversals; every failure but uuid | every call is answered, every lock released |
| `http` | 2 requests of 12 shapes and reversals, every failure, lost COMMITs included | a 201 names the one transaction of its key, a 4xx means this request posted nothing and will not, a 409 is final, `GET /api/accounts` adds up; a late commit still sees the balances it read, the trigger never fires, success is only claimed for what committed, rows are never changed or removed, refinement |
| `pool` | 3 requests of any kind, one after another, on 2 connections and 2 rows | nobody waits for a connection while holding one or a row lock; every request is served |
| `server` | 2 handlers on 1 connection, 3 migrations, 2 kills, any number of stops | only the complete schema is served; a shutdown in time loses nothing; shutdown ends; a stopped server serves again unless a migration was cut |
| `listing` | 3 transactions, 2 of them concurrent, pages of 1 and 2, history and audit, all limits around default and cap | no row present from the start is skipped; a listed transaction has both entries; a row only gives way to newer ones on a full page; a larger limit shows no less |
| `money` | every decimal in +-0.000260 in steps of a millionth, balances of 0.0010 | an amount is rounded once and to the nearest 0.0001; the shown balance is the stored one |
| `loadtest` | 2 workers, 2 transfers each, time-outs, failures, lost COMMITs, expiry | sums that differ are explained by a result that timed out or was answered 500; exit 0 means all transfers sent were posted; while nothing fails the source account is short of one amount per worker that is halfway; the program ends |
| `web` | 4 transactions, pages of 2, a submit, another user's posting, 2 clicks, failing requests | no gaps and no repetitions in a list nobody adds to; once settled after a submit, the panel starts with the posted transaction or one that began later |
| `migrations` | 2 demo accounts, a client's account, 2 deposits, 7 migration runs | they leave `Seeded`; a file run again, up or down, changes nothing but EXTERNAL's balance, which 0003 down sets to 0 again |
| `claim_same_response` | 2 equal calls | against "both clients see the same response": the loser of a same-key race can be told it lacks funds |
| `claim_raw_sql` | 2 sessions of INSERT and DELETE | against "even if a DBA runs raw SQL, the database itself rejects unbalanced transactions": a deleted leg commits |

`PROJECT.json` lists these twelve. More instances of the same modules are kept
beside them, run as `tlc -config <name>.cfg <module>`. Three hold:

| Instance | Module | Shows |
|---|---|---|
| `in_doubt` | `MCLedger` | the properties of a lost COMMIT with 3 calls |
| `faults` | `MCLedger` | with 3 calls on one key and every failure but a lost COMMIT: an error reply or FAILURE row means no money moved |
| `schema` | `Schema` | under any statements of 2 sessions, a transaction that no leg was deleted or moved from balances |

In the others TLC finds the counterexample to a statement of the repository's
documents, comments or tests, quoted above the property:

| Instance | Module | What the code does |
|---|---|---|
| `claim_second_reverse` | `MCLedger` | a second reversal can be told it lacks funds |
| `claim_replay_audited` | `MCLedger` | a replay can be answered before the original is audited |
| `claim_lookup_error` | `MCLedger` | a failed lookup is taken for a miss |
| `claim_rejection_audited` | `MCLedger` | a rejected amount too large for the column is not audited |
| `claim_response_entries` | `MCLedger` | the reply that creates a transaction has no entries |
| `claim_outcome_true` | `MCLedger` | a COMMIT without an answer is audited as FAILURE |
| `claim_lock_timeout` | `Pool` | nothing sets `lock_timeout`: reads starve behind a row locked elsewhere |
| `claim_no_migration_step` | `Server` | after a kill during a migration no start succeeds by itself |
| `claim_newest_on_top` | `Listing` | a transaction that waited for locks is listed below later ones |
| `claim_empty_code` | `LoadTest` | an error answer with a cut body counts as a success |
| `claim_history` | `WebPage` | an answer for the account selected before can be rendered last |
| `claim_load_more` | `WebPage` | after a failed Load more the next click skips a page |
| `claim_balance_enforced` | `Schema` | entries without the balance UPDATE commit |
| `claim_external_restored` | `MCMigrations` | 0003 down zeroes EXTERNAL although deposits to other accounts stay |
| `claim_0002_down` | `MCMigrations` | the headers of EXTERNAL's transactions stay, without entries |

None of the service's own operations loses money in any of them: they are
differences in what a caller, an auditor or a user of the page is told, and
limits of what the schema and the down migrations guarantee alone.

Bounds. Two seeded accounts with 2 units, EXTERNAL and an account that may be
created give both lock orders, the lock every deposit shares and the
not-found path; amounts 1 and 2 drain an account exactly, leave it short by
one, or leave something; `NumericMax = 5` lets EXTERNAL (at -4) reach the edge
of its column after one deposit and makes a second one fail; three calls are
enough for a winner, a loser and a bystander, or a transfer and two reversals
of it. Each request makes one call. Requests are interchangeable, so the
safety runs use symmetry; the liveness runs do not. `http` has two requests: a
status depends on one request and at most one rival. `pool` has one request
more than connections and lets each slot serve any number of requests in turn;
`server` has one connection for two handlers, so that one always waits.
`Listing`'s clock (`MaxTime`) gives two instants, enough for two transactions
to begin in one order and commit in the other, or at once, and its default and cap of 1 and
2 are parameters of `parseLimit` like the code's 50 and 200. `money` covers
both signs, both halves and both sides of every rounding boundary over more
than two units. `LoadTest`'s accounts start with one amount per worker
(`OpeningSrc`) and none (`OpeningDst`): everything can be away at once, and the
return of a transfer that was not posted meets the funds check. `WebPage`'s clicks, submits and postings, `LoadTest`'s `Iters`,
`Migrations`' `MaxRuns` and `Server`'s `MaxKills` bound how often a user, a
worker, an operator or a fault acts. Runs that say `CHECK_DEADLOCK FALSE` are
of programs that end or of budgets that run out.

Fairness. Each handler goroutine keeps running (`WF` of its next step), and the
server in the end rolls back a transaction whose client is gone (`WF` of
`ServerAborts`). Nothing obliges a request to arrive, a failure to happen, or a
lost COMMIT to succeed. In `Ledger` weak fairness is enough: another call may
take a lock before the one that waits for it, but a finite number of calls can
do so only finitely often. In `Pool` and `Server` requests keep coming, and
locking a row is strongly fair: PostgreSQL queues the waiters of a row, so one
of them is not passed over for ever; the pool's own queue is modelled. In
`Server` a stopped process is started again (a container restarts it) and
`Shutdown` returns, its deadline being 10 s. In `LoadTest` the service handles
what it has received, and the database notices that the connection of a
transaction in doubt is gone. Failures, signals and kills are never fair.

## Proofs

The theorems hold for all values of the constants that satisfy the named
assumptions of the modules (`AccountAssumption`, `IdAssumption`,
`SeedAssumption`, `BoundAssumption`, `CallAssumption`, `FaultAssumption`,
`NoneAssumption`, `WireAssumption`, and those of `Pool`, `Server`, `Listing`,
`Money`, `LoadTest`, `WebPage` and `Migrations`), and with every failure
allowed unless the statement excludes one.

| Module | Theorem | Statement |
|---|---|---|
| `ServiceProofs` | `Inductive` | `Spec => []IInv` |
| | `TypeCorrect` | `Spec => []TypeOK` |
| | `BooksBalance` | `Spec => []BalanceMatchesEntries` |
| | `NoLostUpdate` | `Spec => []NoStaleRead` |
| | `Solvent` | `Spec => []NoOverdraft` |
| | `Idempotent` | `Spec => []OneAnswerPerKey` |
| | `ReversalsUndo` | `Spec => []ReversalMirrors` |
| | `TriggerSilent` | `Spec => []TriggerIsBackstop` |
| | `LedgerGrows` | `Spec => AppendOnly` |
| | `Refines` | `Spec => ImplementsAtomicLedger` |
| | `Owed` | `Spec => []OInv` |
| | `DeadlockFree` | `Spec => []NoDeadlock` |
| | `ConflictsReplay` | `Spec => []ConflictIsReplayable` |
| | `SuccessCommitted` | `Spec => []SuccessIsCommitted` |
| | `RejectionsFinal` | `Spec => []RejectionIsFinal` |
| | `FailureQuietly` | no COMMIT loses its answer: `Spec => []FailureLeavesNoTrace` |
| | `AuditIsComplete` | the audit INSERT works (`AuditReliable`): `Spec => []AuditComplete` |
| | `HttpInductive` | `HttpSpec => []WholeInv` |
| | `HttpServesLedger` | `HttpSpec => Spec` |
| | `HttpImplements` | `HttpSpec => ImplementsAtomicLedger` |
| | `StatusTrue` | `HttpSpec => []StatusIsTruth` |
| | `ConflictFinal` | `HttpSpec => []ConflictIsFinal` |
| | `ListConserves` | `HttpSpec => []ListAddsUp` |
| `ServerProofs` | `WaitersHoldNothing` | `PoolSpec => []NoHoldAndWait` |
| | `ServerInductive` | `Spec => []ServerInv` |
| | `ServerWaitersHoldNothing` | `Spec => []NoHoldAndWait` |
| | `CompleteSchema` | `Spec => []ServesCompleteSchema` |
| | `GracefulStop` | `Spec => []GracefulLosesNothing` |
| `ListingProofs` | `ListingInductive` | `Spec => []LInv` |
| | `PagingComplete` | `Spec => []NoRowSkipped` |
| | `ListingWhole` | `Spec => []ListedWhole` |
| | `RowsDisplaced` | `Spec => DisplacedByNewer` |
| | `MoreIsShown` | `Spec => MoreAskedMoreShown` |
| `DataProofs` | `AmountsInductive` | `MoneySpec => []AmountInv` |
| | `AmountsExact` | `MoneySpec => []RoundedOnce` |
| | `AmountsNearest` | `MoneySpec => []PostsNearest` |
| | `BalanceShown` | `MoneySpec => []ShownIsStored` |
| | `MigrationsInductive` | `MigrationsSpec => []MInv` |
| | `MigrationsLeaveSeeded` | `MigrationsSpec => []LeavesSeeded` |
| | `MigrationsRerun` | `MigrationsSpec => RerunChangesNothing` |
| | `TriggerSuffices` | finitely many entries: `SchemaSpec => []KeptLegsBalance` |
| `ClientProofs` | `TestInductive` | `Spec => []TestInv` |
| | `FailureExplained` | `Spec => []DifferenceIsExplained` |
| | `ExitEarned` | no error body is cut: `Spec => []ExitZeroIsEarned` |
| | `AlternationBounds` | finitely many workers: `Spec => []BalancesBounded` |
| | `PageInductive` | `PageSpec => [](PageInv /\ Committed)` |
| | `PagesShownOnce` | `PageSpec => []PagesOnceEach` |
| | `PostShownFresh` | `PageSpec => []FreshAfterPost` |

The hypotheses of `FailureQuietly`, `AuditIsComplete` and `ExitEarned` name
exactly the failure that makes the statement false:
a COMMIT without an answer (`claim_outcome_true`), an audit INSERT that fails
(`claim_rejection_audited`), and an error answer with a cut body
(`claim_empty_code`). Every invariant named here was
model-checked on the instances of the runs before it was proved.

### The ledger

None of the properties is inductive alone: that a late COMMIT keeps the books
depends on the balances it read being current, which depends on its holding
both row locks, which depends on where its handler stands. `IInv` therefore
says, besides types, that ids, keys and reversed originals are unique among
committed and uncommitted rows together (`UniqueInv`), that the committed books
are right (`Books`: balances, the two entries of each transaction, mirrored
reversals), and for each request (`ReqInv`) what its handler and its database
transaction may rely on: which locks it holds, that the balances read are the
committed ones, and which rows it has written so far.

`LedgerSteps` shows that a request whose own variables a step leaves alone keeps
its part of the invariant as long as the tables still serve it (`Frame`), so
that each action is examined for the request that takes it only. It takes two
facts as hypotheses, which count rows: that a COMMIT shows one header and two
entries and leaves the books right (`Commits`), and that two different rows
found are the rows asked for (`PairFound`). `LedgerOutcomes` proves both
(`CommitBooks`, `PairsFound`): sums over entries are cardinalities of sets of
units, so a posting adds its amount to two of them (`PostingBalances`) without
an induction over the entries. `ServiceProofs` puts the two together
(`NextIInv`).

`OInv`, inductive relative to `IInv`, says what callers and waiting
transactions are owed: which errors a handler can carry where, that a domain
error is only carried by a call whose transaction has and will have no effect,
what an audit row implies of the reply, and that the rows a call holds are below
those it has still to lock (`OrderOK`). `DeadlockFree` needs no induction along a
cycle of waiting calls: the locked rows are finitely many, so one of them is the
highest, and its holder waits for no row. `AInv` adds, where the audit INSERT
works, that the log is complete.

`Refines` follows from `IInv`: a step either leaves the tables alone (a stutter),
opens an account, or publishes a transaction, and then the invariant supplies
every guard of the abstract posting: a fresh id and key, existing and distinct
accounts, the funds, the range of the columns, and for a reversal that the
original is a transfer not undone before (`PublishPosts`, `StepRefines`).

### The HTTP API

`HttpSteps` shows that a handler's step is a step of the ledger or leaves it
alone, so `HttpServesLedger` carries every theorem above over to `HttpSpec`.
`HInv` ties the request on the wire and its status to the state of the service,
and says that the balances of the users and of EXTERNAL add up to nothing. That
sum over all accounts is again a cardinality, of the set of coins (`Coins`); that
a step preserves it follows from the refinement, because a step of the atomic
ledger moves an amount from one account to another or opens an empty one
(`SumKept`).

### The modules around it

* `PoolInv`: in what a request has still to do, nothing that takes a connection
  comes between BEGIN and its end or before rows.Close() (`Shape`); the next
  operation tells whether it holds a connection, and it has locked a row only
  inside a transaction; who is queued is about to take a connection, and is
  queued once.
  `ProcInv` adds that each phase of the process from connecting on has a clean,
  complete schema, and that a pool closed in time is closed behind the last
  request.
* `LInv`: a transaction that was there when the client began is on a page read
  before, or its rank in the list is at least the offset reached. New rows only
  push ranks up, as the rank of a row is the number of rows before it
  (`Earlier`).
* `AmountInv`: balances and entries are whole units; `RoundNearest` is the one
  fact about rounding, for every integer number of millionths.
* `TestInv`: a transfer is posted once; a worker's result agrees with what the
  service did; at most one transfer is in doubt, and its funds are still there,
  because it holds both rows; what the service has still to handle or to decide
  is awaited, unless a worker gave up or was answered 500 (`Lost`); and unless
  one was, the sums main has read are those of a ledger at rest. `StepInv` adds
  for `BalancesBounded` that, while nothing has failed, a worker has posted
  exactly the iterations behind it, and perhaps the current one: the next
  transfer's direction is the parity of the number it has posted.
* `PageInv` has two parts that do not need each other. For `FreshAfterPost`:
  while a submitted form is refreshing the page, exactly one stage of its
  refresh is on its way (`OneStage`), so it comes to replace the ledger panel
  (`OnItsWay`); a replacing read not answered yet will be answered with the
  newest rows, and one that was answered holds them (`Fresh`). That the rows of
  an answer are visible needs `Committed`: no transaction the page was told of is
  still pending. For
  `PagesOnceEach`: an answer is the page at the offset asked for (`AnswersTrue`),
  the offsets on their way are a page apart, and the rows shown are everything
  down to the offset reached except those pages (`LaterReads`). No induction
  over the pages is needed: an arriving page fills exactly its own hole.
* `MInv`: from version 2 on EXTERNAL is there, at version 3 also the demo
  accounts, the seed entries and a header under every seed key (`Leftovers`), so
  that a second run of the up files inserts nothing and its UPDATE of EXTERNAL, guarded by the
  seed keys (`FirstTime`), does not happen. That guard is why `Seed` must not be
  empty: Alice's deposit is one of its rows. A header with a seed's id has that
  seed's key, so both are missing or neither. After a down file ran, what it deletes is gone and
  does not come back before the next file runs (`SeedsGone`, `ExternalGone`, by
  `LastFile`), so that a second run finds nothing to delete. While nothing was
  posted, the tables are exactly what the version's migrations leave
  (`Untouched`).
* `SchemaInv`, for the trigger on `entries` without the service: a row is
  written by one session at a time, every leg that was written and not yet
  checked has an event queued, and a session whose events on a transaction have
  passed, and which takes no leg away from it, adds nothing to its sum
  (`Neutral`). `Neutral` is about the rows the session itself has written, so the
  commits of others, which write other rows, cannot disturb it; the trigger
  establishes it although it sums over what everybody has committed, because
  those other rows count the same before and after (`ViewSum`). Sums are
  cardinalities of sets of units once more, which is why the entries must be
  finitely many.

### Only model-checked

* Every liveness property: `EveryCallAnswered`, `LocksReleased`,
  `EveryRequestServed`, `ShutdownEnds`, `RestartServes`, `TestEnds`. The prover
  has no rule for fairness.

## Not modelled, and why

* Request ids (`resolveRequestID`), logging, the wording of errors and JSON field
  names: they are carried along and decide nothing.
* `/healthz` and static files: no state.
* `FromInt`, `Zero`, `Neg`, `IsZero`, `Equal` and `Decimal` of `money`:
  constructors and observers that hand the decimal on.
* 0001 down, which drops the tables, and the DDL of 0001 up other than the
  columns, constraints and trigger used here.
* In the page, account creation, drop-downs, banners and rendering of markup;
  `handleDeposit` and `doReverse` take the same steps as `handleTransfer`.
* A repeated submit of the page is a new operation with a new key by design
  (`docs/ARCHITECTURE.md` 4.1), and `POST /api/accounts` has no key: there is
  nothing to state about either.
* Markup, style, container files and generated files.
