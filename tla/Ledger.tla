------------------------------- MODULE Ledger -------------------------------
(***************************************************************************)
(* The ledger service and the PostgreSQL database under it: concurrent     *)
(* Transfer, Reverse and Deposit calls (internal/ledger/service.go), each  *)
(* running its statements through internal/store against tables shared by  *)
(* all of them.  A step is one statement, or one piece of Go code between  *)
(* two statements, of one request; requests interleave freely.             *)
(***************************************************************************)
EXTENDS Tables

CONSTANTS
    Calls,   \* the calls the clients may make
    Faults   \* the failures that may happen (see Fault)

\* A call's parameters and locals.  A Reverse call starts without accounts and
\* amount (None, None, 0): it reads them off the original's entries.
Call == [kind   : Kind,
         from   : AccountId \cup {None},   \* the account to debit
         to     : AccountId \cup {None},   \* the account to credit
         amount : Int,
         orig   : TxId \cup {None},        \* the transaction to reverse
         key    : Key]

\* A failure the code handles, or that hits it from outside:
\*   lookup - a replay lookup, or the re-fetch, fails in the database
\*   stmt   - any other statement fails (cancelled request context, timeout)
\*   conn   - the ROLLBACK does not get through: the server still runs the
\*            transaction until it notices the dead connection
\*   commit - COMMIT was sent and no answer arrived: it may or may not happen
\*   audit  - the audit INSERT fails (its 3s deadline, a lost connection)
\*   uuid   - uuid.NewV7 fails
\*   crash  - the handler dies (process killed, panic) between two steps
Fault == {"lookup", "stmt", "conn", "commit", "audit", "uuid",
          "crash"}

ASSUME CallAssumption ==
    /\ Calls \subseteq Call
    /\ \A c \in Calls :
          \/ /\ c.kind = "REVERSAL" /\ c.orig # None
             /\ c.from = None /\ c.to = None /\ c.amount = 0
          \/ /\ c.kind = "TRANSFER" /\ c.orig = None
             /\ c.from # None /\ c.to # None
          \/ /\ c.kind = "DEPOSIT" /\ c.orig = None
             /\ c.from = External /\ c.to # None
ASSUME FaultAssumption == Faults \subseteq Fault

VARIABLES
    audit,    \* rows of audit_log
    \* Database sessions: one transaction per request at most.
    lock,     \* the transaction holding the row lock of an account
    sess,     \* state of a request's database transaction
    write,    \* its uncommitted balances
    header,   \* its uncommitted transactions row
    legs,     \* its uncommitted entries
    \* The Go side of a request.
    pc, call, found, seen, err, reply

dbVars == <<tables, audit>>
sessVars == <<lock, sess, write, header, legs>>
goVars == <<pc, call, found, seen, err, reply>>
vars == <<dbVars, sessVars, goVars>>

-----------------------------------------------------------------------------
(* Rows and values *)

DomainError == {"ErrInvalidAmount", "ErrSelfTransfer", "ErrSystemAccount",
                "ErrAccountNotFound", "ErrInsufficientFunds",
                "ErrTransactionNotFound", "ErrNotReversible",
                "ErrAlreadyReversed", "ErrIdempotencyConflict"}
Error == DomainError \cup {"DbError"}
AuditRow == [req : Request, outcome : {"SUCCESS", "FAILURE"},
             reason : Error \cup {None}, tx : Request \cup {None}]
Reply == [status : Error \cup {"ok", None}, tx : TxId \cup {None},
          entries : SUBSET EntryRow]

ASSUME NoneAssumption == None \notin Error \cup {"ok"} \cup TxnRow

NoWrites == [a \in AccountId |-> None]
NoReply == [status |-> None, tx |-> None, entries |-> {}]
NoCall == [kind |-> "TRANSFER", from |-> None, to |-> None, amount |-> 0,
           orig |-> None, key |-> None]

\* Where a handler holds an open database transaction.
InTx == {"lock", "debit", "credit", "insertTx", "insertEntries", "commit",
         "rollback"}
Labels == InTx \cup {"idle", "lookup", "loadOriginal", "begin", "refetch",
                     "auditSuccess", "auditFailure", "done", "dead"}
Finished(r) == pc[r] \in {"done", "dead"}

-----------------------------------------------------------------------------
(* What the database does *)

\* Row locks are held until the transaction ends.
Released(r) == [a \in AccountId |-> IF lock[a] = r THEN None ELSE lock[a]]
Held(r) == {a \in AccountId : lock[a] = r}

\* The database transaction of r ends: its locks go, and its private rows
\* with them.
EndTx(r, state) ==
    /\ sess' = [sess EXCEPT ![r] = state]
    /\ lock' = Released(r)
    /\ write' = [write EXCEPT ![r] = NoWrites]
    /\ header' = [header EXCEPT ![r] = None]
    /\ legs' = [legs EXCEPT ![r] = {}]

\* The deferred constraint trigger, run at COMMIT for every entry inserted.
DoubleEntry(r) ==
    \A id \in {e.tx : e \in legs[r]} :
        LET S == {e \in entries \cup legs[r] : e.tx = id}
        IN  Total(Side(S, "CREDIT")) = Total(Side(S, "DEBIT"))

\* COMMIT takes effect: the private rows of r become visible at once.
Publish(r) ==
    /\ balance' = [a \in AccountId |->
                      IF write[r][a] = None THEN balance[a] ELSE write[r][a]]
    /\ txns' = txns \cup {header[r]}
    /\ entries' = entries \cup legs[r]
    /\ EndTx(r, "committed")
    /\ UNCHANGED <<exists, audit>>

\* COMMIT on the server side: the trigger may still refuse it.
ServerCommits(r) ==
    IF DoubleEntry(r) THEN Publish(r)
    ELSE EndTx(r, "aborted") /\ UNCHANGED dbVars

-----------------------------------------------------------------------------
(* Entering the service: preconditions checked before any statement *)

Goto(r, label) == pc' = [pc EXCEPT ![r] = label]

\* The checks at the top of Transfer, in their order.
TransferError(c) ==
    IF c.amount <= 0 THEN "ErrInvalidAmount"
    ELSE IF c.from = c.to THEN "ErrSelfTransfer"
    ELSE IF External \in {c.from, c.to} THEN "ErrSystemAccount"
    ELSE None

DepositError(c) ==
    IF c.amount <= 0 THEN "ErrInvalidAmount"
    ELSE IF c.to = External THEN "ErrSystemAccount"
    ELSE None

Enter(r, c, e) ==
    /\ call' = [call EXCEPT ![r] = c]
    /\ err' = [err EXCEPT ![r] = e]
    /\ Goto(r, IF e = None THEN "lookup" ELSE "auditFailure")
    /\ UNCHANGED <<dbVars, sessVars, found, seen, reply>>

Transfer(r) ==
    /\ pc[r] = "idle"
    /\ \E c \in Calls : c.kind = "TRANSFER" /\ Enter(r, c, TransferError(c))

Deposit(r) ==
    /\ pc[r] = "idle"
    /\ \E c \in Calls : c.kind = "DEPOSIT" /\ Enter(r, c, DepositError(c))

\* Reverse checks nothing before its replay lookup.
Reverse(r) ==
    /\ pc[r] = "idle"
    /\ \E c \in Calls : c.kind = "REVERSAL" /\ Enter(r, c, None)

-----------------------------------------------------------------------------
(* Replay lookup, and the original of a reversal *)

Return(r, status, tx, rows) ==
    /\ reply' = [reply EXCEPT
                   ![r] = [status |-> status, tx |-> tx, entries |-> rows]]
    /\ Goto(r, "done")

\* Mutant: a replay writes an audit row of its own.
MutReplayAudits(r) ==
    /\ \E t \in ByKey(call[r].key) : Return(r, "ok", t.id, EntriesOf(t.id))
    /\ audit' = audit \cup {[req |-> r, outcome |-> "SUCCESS",
                             reason |-> None, tx |-> None]}
    /\ UNCHANGED <<tables, sessVars, call, found, seen, err>>

\* A stored transaction answers the call: header and entries, no audit row.
Replay(r) ==
    /\ \E t \in ByKey(call[r].key) : Return(r, "ok", t.id, EntriesOf(t.id))
    /\ UNCHANGED <<dbVars, sessVars, call, found, seen, err>>

\* Only err == nil replays; not found and a failed query both carry on.
Lookup(r) ==
    /\ pc[r] = "lookup"
    /\ \/ Replay(r)
       \/ /\ ByKey(call[r].key) = {} \/ "lookup" \in Faults
          /\ Goto(r, IF call[r].kind = "REVERSAL" THEN "loadOriginal"
                     ELSE "begin")
          /\ UNCHANGED <<dbVars, sessVars, call, found, seen, err, reply>>

Reject(r, e) ==
    /\ err' = [err EXCEPT ![r] = e]
    /\ Goto(r, "auditFailure")
    /\ UNCHANGED <<dbVars, sessVars, call, found, seen, reply>>

\* The reversal debits the account the original credited, and the other way
\* round.
Mirror(c, debit, credit) ==
    [c EXCEPT !.from = credit.account, !.to = debit.account,
              !.amount = debit.amount]

\* GetTransaction of the original and what Reverse derives from its entries.
LoadOriginal(r) ==
    /\ pc[r] = "loadOriginal"
    /\ \/ ById(call[r].orig) = {} /\ Reject(r, "ErrTransactionNotFound")
       \/ "stmt" \in Faults /\ Reject(r, "DbError")
       \/ \E t \in ById(call[r].orig) :
             /\ t.kind # "TRANSFER"
             /\ Reject(r, "ErrNotReversible")
       \/ \E t \in ById(call[r].orig) :
             /\ t.kind = "TRANSFER"
             /\ \E d \in Side(EntriesOf(t.id), "DEBIT"),
                   c \in Side(EntriesOf(t.id), "CREDIT") :
                   call' = [call EXCEPT ![r] = Mirror(@, d, c)]
             /\ Goto(r, "begin")
             /\ UNCHANGED <<dbVars, sessVars, found, seen, err, reply>>

-----------------------------------------------------------------------------
(* WithTx: the statements of the business transaction *)

\* BEGIN, and the SELECT ... FOR UPDATE starts: its snapshot fixes which of
\* the two rows it will find.
BeginTx(r) ==
    /\ pc[r] = "begin"
    /\ \/ /\ sess' = [sess EXCEPT ![r] = "open"]
          /\ found' = [found EXCEPT
                         ![r] = {call[r].from, call[r].to} \cap exists]
          /\ Goto(r, "lock")
          /\ UNCHANGED <<dbVars, lock, write, header, legs,
                         call, seen, err, reply>>
       \/ "stmt" \in Faults /\ Reject(r, "DbError")
       \/ /\ "uuid" \in Faults   \* returned without an audit row
          /\ Return(r, "DbError", None, {})
          /\ UNCHANGED <<dbVars, sessVars, call, found, seen, err>>

\* fn returns an error: the deferred Rollback runs next.
Fail(r, e) ==
    /\ err' = [err EXCEPT ![r] = e]
    /\ Goto(r, "rollback")
    /\ UNCHANGED <<dbVars, sessVars, call, found, seen, reply>>

\* Mutant: rows locked in argument order, source first.
MutArgumentOrder(r) ==
    LET rest == found[r] \ Held(r)
    IN  IF call[r].from \in rest THEN {call[r].from} ELSE rest

\* LockAccountsForUpdate locks the rows found in ascending id order, one at
\* a time; a row locked by another transaction makes it wait.
NextToLock(r) ==
    {a \in found[r] \ Held(r) : \A b \in found[r] \ Held(r) : a <= b}

\* Mutant: SELECT without FOR UPDATE, nobody waits.
MutNoWait(r) ==
    /\ pc[r] = "lock"
    /\ \E a \in NextToLock(r) : lock' = [lock EXCEPT ![a] = r]
    /\ UNCHANGED <<dbVars, sess, write, header, legs, goVars>>

LockRow(r) ==
    /\ pc[r] = "lock"
    /\ \E a \in NextToLock(r) :
          lock[a] = None /\ lock' = [lock EXCEPT ![a] = r]
    /\ UNCHANGED <<dbVars, sess, write, header, legs, goVars>>

\* Mutant: funds check off by one.
MutOffByOne(r) ==
    call[r].kind = "DEPOSIT" \/ ~(balance[call[r].from] + 1 < call[r].amount)

\* Deposits are drawn from EXTERNAL, which has no floor.
Funded(r) ==
    call[r].kind = "DEPOSIT" \/ ~(balance[call[r].from] < call[r].amount)

\* All rows found are locked; their balances are the committed ones now.
ReadBalances(r) ==
    /\ pc[r] = "lock" /\ found[r] \subseteq Held(r)
    /\ IF Cardinality(found[r]) # 2 THEN Fail(r, "ErrAccountNotFound")
       ELSE IF ~Funded(r) THEN Fail(r, "ErrInsufficientFunds")
       ELSE /\ seen' = [seen EXCEPT ![r] = [from |-> balance[call[r].from],
                                            to |-> balance[call[r].to]]]
            /\ Goto(r, "debit")
            /\ UNCHANGED <<dbVars, sessVars, call, found, err, reply>>

\* UPDATE accounts SET balance = n: an absolute value, from the balance read.
UpdateBalance(r, a, n, next) ==
    IF ~Storable(a, n) THEN Fail(r, "DbError")
    ELSE /\ write' = [write EXCEPT ![r][a] = n]
         /\ Goto(r, next)
         /\ UNCHANGED <<dbVars, lock, sess, header, legs,
                        call, found, seen, err, reply>>

Debit(r) ==
    /\ pc[r] = "debit"
    /\ UpdateBalance(r, call[r].from, seen[r].from - call[r].amount, "credit")

Credit(r) ==
    /\ pc[r] = "credit"
    /\ UpdateBalance(r, call[r].to, seen[r].to + call[r].amount, "insertTx")

\* Rows of other unfinished transactions that hold the same unique value: the
\* INSERT waits until they commit or abort.
Pending(r) == {header[s] : s \in Request \ {r}} \ {None}

KeyPending(r) == \E t \in Pending(r) : t.key = call[r].key
ReversalPending(r) ==
    call[r].orig # None /\ \E t \in Pending(r) : t.reverses = call[r].orig

\* Mutant: no UNIQUE on reverses_transaction_id.
MutReversedTwice(r) == FALSE
AlreadyReversed(r) ==
    call[r].orig # None /\ \E t \in txns : t.reverses = call[r].orig

\* Mutant: an uncommitted row with the same key is a conflict at once.
MutConflictEarly(r) ==
    /\ pc[r] = "insertTx"
    /\ IF ByKey(call[r].key) # {} \/ KeyPending(r)
       THEN Fail(r, "ErrIdempotencyConflict")
       ELSE /\ header' = [header EXCEPT
                  ![r] = Txn(r, call[r].kind, call[r].key, call[r].orig)]
            /\ Goto(r, "insertEntries")
            /\ UNCHANGED <<dbVars, lock, sess, write, legs,
                           call, found, seen, err, reply>>

\* Mutant: idempotency left to the lookup, no UNIQUE on idempotency_key.
MutNoUniqueKey(r) ==
    /\ pc[r] = "insertTx"
    /\ header' = [header EXCEPT
          ![r] = Txn(r, call[r].kind, call[r].key, call[r].orig)]
    /\ Goto(r, "insertEntries")
    /\ UNCHANGED <<dbVars, lock, sess, write, legs,
                   call, found, seen, err, reply>>

\* InsertTransaction and InsertReversalTransaction.  The index on
\* idempotency_key is older, so it is checked, and reported, first.
InsertTransaction(r) ==
    /\ pc[r] = "insertTx"
    /\ IF ByKey(call[r].key) # {} THEN Fail(r, "ErrIdempotencyConflict")
       ELSE /\ ~KeyPending(r)
            /\ IF AlreadyReversed(r) THEN Fail(r, "ErrAlreadyReversed")
               ELSE /\ ~ReversalPending(r)
                    /\ header' = [header EXCEPT
                          ![r] = Txn(r, call[r].kind, call[r].key,
                                     call[r].orig)]
                    /\ Goto(r, "insertEntries")
                    /\ UNCHANGED <<dbVars, lock, sess, write, legs,
                                   call, found, seen, err, reply>>

\* Mutant: the directions of the two entries swapped.
MutSwapped(r) ==
    /\ pc[r] = "insertEntries"
    /\ legs' = [legs EXCEPT
          ![r] = {Entry(r, call[r].to, "DEBIT", call[r].amount),
                  Entry(r, call[r].from, "CREDIT", call[r].amount)}]
    /\ Goto(r, "commit")
    /\ UNCHANGED <<dbVars, lock, sess, write, header,
                   call, found, seen, err, reply>>

\* Mutant: signed amounts, the debit stored as a negative one.
MutSigned(r) ==
    /\ pc[r] = "insertEntries"
    /\ legs' = [legs EXCEPT
          ![r] = {Entry(r, call[r].from, "DEBIT", -call[r].amount),
                  Entry(r, call[r].to, "CREDIT", call[r].amount)}]
    /\ Goto(r, "commit")
    /\ UNCHANGED <<dbVars, lock, sess, write, header,
                   call, found, seen, err, reply>>

InsertEntries(r) ==
    /\ pc[r] = "insertEntries"
    /\ IF call[r].amount <= 0 THEN Fail(r, "ErrInvalidAmount")
       ELSE /\ legs' = [legs EXCEPT
                  ![r] = {Entry(r, call[r].from, "DEBIT", call[r].amount),
                          Entry(r, call[r].to, "CREDIT", call[r].amount)}]
            /\ Goto(r, "commit")
            /\ UNCHANGED <<dbVars, lock, sess, write, header,
                           call, found, seen, err, reply>>

\* Any statement of fn may fail.
StatementFails(r) ==
    /\ "stmt" \in Faults
    /\ pc[r] \in InTx \ {"commit", "rollback"}
    /\ Fail(r, "DbError")

\* Mutant: the error of Commit is not checked.
MutCommitUnchecked(r) ==
    /\ pc[r] = "commit"
    /\ \/ ServerCommits(r)
       \/ /\ "commit" \in Faults
          /\ sess' = [sess EXCEPT ![r] = "indoubt"]
          /\ UNCHANGED <<dbVars, lock, write, header, legs>>
    /\ Goto(r, "auditSuccess")
    /\ UNCHANGED <<call, found, seen, err, reply>>

\* Mutant: the row locks go when COMMIT is sent, not when it is done.
MutUnlockEarly(r) ==
    /\ pc[r] = "commit"
    /\ sess' = [sess EXCEPT ![r] = "indoubt"]
    /\ lock' = Released(r)
    /\ err' = [err EXCEPT ![r] = "DbError"]
    /\ Goto(r, "auditFailure")
    /\ UNCHANGED <<dbVars, write, header, legs, call, found, seen, reply>>

\* COMMIT: acknowledged; refused by the trigger; or never answered, which
\* leaves its outcome to the server.
Commit(r) ==
    /\ pc[r] = "commit"
    /\ \/ /\ ServerCommits(r)
          /\ Goto(r, IF DoubleEntry(r) THEN "auditSuccess" ELSE "auditFailure")
          /\ err' = [err EXCEPT ![r] = IF DoubleEntry(r) THEN None
                                       ELSE "DbError"]
          /\ UNCHANGED <<call, found, seen, reply>>
       \/ /\ "commit" \in Faults
          /\ sess' = [sess EXCEPT ![r] = "indoubt"]
          /\ err' = [err EXCEPT ![r] = "DbError"]
          /\ Goto(r, "auditFailure")
          /\ UNCHANGED <<dbVars, lock, write, header, legs,
                         call, found, seen, reply>>

\* Mutant: a failed call cleans up by idempotency key.
MutCleanUp(r) ==
    /\ pc[r] = "rollback"
    /\ EndTx(r, "aborted")
    /\ txns' = txns \ ByKey(call[r].key)
    /\ Goto(r, "auditFailure")
    /\ UNCHANGED <<exists, balance, entries, audit,
                   call, found, seen, err, reply>>

\* Mutant: no deferred Rollback.  The transaction idles on a connection that
\* is alive, so the server has no reason to end it.
MutNoRollback(r) ==
    /\ pc[r] = "rollback"
    /\ sess' = [sess EXCEPT ![r] = "none"]
    /\ Goto(r, IF err[r] = "ErrIdempotencyConflict" THEN "refetch"
               ELSE "auditFailure")
    /\ UNCHANGED <<dbVars, lock, write, header, legs,
                   call, found, seen, err, reply>>

\* The deferred Rollback, then the txErr branch: only an idempotency conflict
\* is looked up again.
Rollback(r) ==
    /\ pc[r] = "rollback"
    /\ \/ EndTx(r, "aborted")
       \/ "conn" \in Faults /\ UNCHANGED sessVars
    /\ Goto(r, IF err[r] = "ErrIdempotencyConflict" THEN "refetch"
               ELSE "auditFailure")
    /\ UNCHANGED <<dbVars, call, found, seen, err, reply>>

\* The loser of an idempotency race returns the winner's transaction.
Refetch(r) ==
    /\ pc[r] = "refetch"
    /\ \/ Replay(r)
       \/ /\ ByKey(call[r].key) = {} \/ "lookup" \in Faults
          /\ Goto(r, "auditFailure")
          /\ UNCHANGED <<dbVars, sessVars, call, found, seen, err, reply>>

-----------------------------------------------------------------------------
(* The audit row, written on its own after the business transaction *)

\* WriteAudit: an amount that audit_log.amount cannot hold is an error too,
\* and an error is only logged.
WriteAudit(r, row) ==
    \/ Representable(call[r].amount) /\ audit' = audit \cup {row}
    \/ /\ ~Representable(call[r].amount) \/ "audit" \in Faults
       /\ UNCHANGED audit

AuditSuccess(r) ==
    /\ pc[r] = "auditSuccess"
    /\ WriteAudit(r, [req |-> r, outcome |-> "SUCCESS", reason |-> None,
                      tx |-> r])
    /\ Return(r, "ok", r, {})   \* the Entries of committed were never set
    /\ UNCHANGED <<tables, sessVars,
                   call, found, seen, err>>

AuditFailure(r) ==
    /\ pc[r] = "auditFailure"
    /\ WriteAudit(r, [req |-> r, outcome |-> "FAILURE", reason |-> err[r],
                      tx |-> None])
    /\ Return(r, err[r], None, {})
    /\ UNCHANGED <<tables, sessVars,
                   call, found, seen, err>>

-----------------------------------------------------------------------------
(* Accounts, crashes, and what the server does on its own *)

\* CreateAccount inserts a row with a fresh id and balance 0.
CreateAccount(a) ==
    /\ a \notin exists
    /\ exists' = exists \cup {a}
    /\ balance' = [balance EXCEPT ![a] = 0]
    /\ UNCHANGED <<txns, entries, audit, sessVars, goVars>>

\* The handler of r dies.  A COMMIT it may have sent is in doubt.
Crash(r) ==
    /\ "crash" \in Faults
    /\ pc[r] # "idle" /\ ~Finished(r)
    /\ Goto(r, "dead")
    /\ sess' = [sess EXCEPT ![r] = IF pc[r] = "commit" THEN "indoubt" ELSE @]
    /\ UNCHANGED <<dbVars, lock, write, header, legs,
                   call, found, seen, err, reply>>

\* The server notices that the client of an open transaction is gone.
ServerAborts(r) ==
    /\ sess[r] = "indoubt" \/ (sess[r] = "open" /\ pc[r] \notin InTx)
    /\ EndTx(r, "aborted")
    /\ UNCHANGED <<dbVars, goVars>>

\* A COMMIT whose answer was lost takes effect after all.
LateCommit(r) ==
    /\ sess[r] = "indoubt"
    /\ ServerCommits(r)
    /\ UNCHANGED goVars

-----------------------------------------------------------------------------
(* Specification *)

\* The database as migrations 0001-0003 leave it, no request yet.
Init ==
    /\ Seeded
    /\ audit = {}
    /\ lock = [a \in AccountId |-> None]
    /\ sess = [r \in Request |-> "none"]
    /\ write = [r \in Request |-> NoWrites]
    /\ header = [r \in Request |-> None]
    /\ legs = [r \in Request |-> {}]
    /\ pc = [r \in Request |-> "idle"]
    /\ call = [r \in Request |-> NoCall]
    /\ found = [r \in Request |-> {}]
    /\ seen = [r \in Request |-> [from |-> 0, to |-> 0]]
    /\ err = [r \in Request |-> None]
    /\ reply = [r \in Request |-> NoReply]

\* From WithTx on, the three operations run the same statements.
TxBody(r) ==
    \/ BeginTx(r) \/ LockRow(r) \/ ReadBalances(r) \/ Debit(r) \/ Credit(r)
    \/ InsertTransaction(r) \/ InsertEntries(r) \/ Commit(r) \/ Rollback(r)
    \/ Refetch(r) \/ AuditSuccess(r) \/ AuditFailure(r)

TransferBody(r) ==
    call[r].kind = "TRANSFER" /\ (Lookup(r) \/ TxBody(r))
DepositBody(r) ==
    call[r].kind = "DEPOSIT" /\ (Lookup(r) \/ TxBody(r))
ReverseBody(r) ==
    call[r].kind = "REVERSAL" /\ (Lookup(r) \/ LoadOriginal(r) \/ TxBody(r))

\* The handler of r goes on.
Step(r) == TransferBody(r) \/ DepositBody(r) \/ ReverseBody(r)

\* All requests answered, every transaction over: the service is at rest.
AtRest ==
    /\ \A r \in Request : Finished(r) /\ sess[r] \notin {"open", "indoubt"}
    /\ UNCHANGED vars

Next ==
    \/ \E r \in Request : \/ Transfer(r) \/ Deposit(r) \/ Reverse(r)
                          \/ Step(r) \/ StatementFails(r) \/ Crash(r)
                          \/ ServerAborts(r) \/ LateCommit(r)
    \/ \E a \in AccountId : CreateAccount(a)
    \/ AtRest

Spec == Init /\ [][Next]_vars

\* A handler never stops between two of its own steps, and the server in the
\* end notices a connection that died; a request is not obliged to arrive.
Fairness ==
    \A r \in Request : WF_vars(Step(r)) /\ WF_vars(ServerAborts(r))
FairSpec == Spec /\ Fairness

-----------------------------------------------------------------------------
(* Properties *)

Committed(r) == \E t \in txns : t.id = r

DbType ==
    /\ exists \subseteq AccountId
    /\ balance \in [AccountId -> Int]
    /\ txns \subseteq TxnRow
    /\ entries \subseteq EntryRow
    /\ audit \subseteq AuditRow
SessType ==
    /\ lock \in [AccountId -> Request \cup {None}]
    /\ sess \in [Request -> {"none", "open", "indoubt", "committed",
                             "aborted"}]
    /\ write \in [Request -> [AccountId -> Int \cup {None}]]
    /\ header \in [Request -> TxnRow \cup {None}]
    /\ legs \in [Request -> SUBSET EntryRow]
GoType ==
    /\ pc \in [Request -> Labels]
    /\ call \in [Request -> Call \cup {NoCall}]
    /\ found \in [Request -> SUBSET AccountId]
    /\ seen \in [Request -> [from : Int, to : Int]]
    /\ err \in [Request -> Error \cup {None}]
    /\ reply \in [Request -> Reply]

\* Every variable keeps the type its table, column or Go declaration has.
TypeOK == DbType /\ SessType /\ GoType

\* The balances read by LockAccountsForUpdate are still the committed ones
\* when the transaction that overwrites them commits, however late.
NoStaleRead ==
    \A r \in Request :
        \/ pc[r] \in {"debit", "credit", "insertTx", "insertEntries", "commit"}
        \/ sess[r] = "indoubt"
        => /\ seen[r].from = balance[call[r].from]
           /\ seen[r].to = balance[call[r].to]

\* No user account is ever overdrawn, and it is the funds check of Transfer
\* and Reverse that sees to it: no UPDATE they issue would trip the CHECK.
NoOverdraft ==
    /\ \A a \in AccountId \ {External} : balance[a] >= 0
    /\ \A r \in Request : pc[r] = "debit" /\ call[r].from # External
                          => seen[r].from >= call[r].amount

\* The deferred trigger is a backstop only: the two entries of a transaction
\* that reaches its COMMIT always satisfy it.
TriggerIsBackstop ==
    \A r \in Request : pc[r] = "commit" \/ sess[r] = "indoubt" => DoubleEntry(r)

\* A call answered with success was given the only transaction stored under
\* its idempotency key, whether it created it or lost the race for it.
OneAnswerPerKey ==
    \A r \in Request : reply[r].status = "ok" =>
        \E t \in txns : ByKey(call[r].key) = {t} /\ t.id = reply[r].tx

\* ErrIdempotencyConflict is only seen once the winner has committed: the
\* re-fetch of the loser has something to find.
ConflictIsReplayable ==
    \A r \in Request : pc[r] = "refetch" => ByKey(call[r].key) # {}

Flip(dir) == IF dir = "DEBIT" THEN "CREDIT" ELSE "DEBIT"
Legs(id) == {<<e.account, e.dir, e.amount>> : e \in EntriesOf(id)}
FlippedLegs(id) == {<<e.account, Flip(e.dir), e.amount>> : e \in EntriesOf(id)}

\* A transfer is reversed at most once, only transfers are, and the reversal
\* moves exactly what the transfer moved, the other way.
ReversalMirrors ==
    \A t \in txns : t.kind = "REVERSAL" =>
        /\ \A u \in txns : u.reverses = t.reverses => u = t
        /\ \E o \in txns : o.id = t.reverses /\ o.kind = "TRANSFER"
        /\ Legs(t.id) = FlippedLegs(t.reverses)

\* The transactions that r waits for: holders of the row lock it needs next,
\* or of a unique value it is inserting.
Blockers(r) ==
    {s \in Request \ {r} :
        \/ pc[r] = "lock" /\ \E a \in NextToLock(r) : lock[a] = s
        \/ /\ pc[r] = "insertTx" /\ header[s] # None
           /\ \/ header[s].key = call[r].key
              \/ call[r].orig # None /\ header[s].reverses = call[r].orig}

\* Sorted row locks and unique-index waits together never form a cycle, so
\* PostgreSQL never has to kill a transaction to break one.
NoDeadlock ==
    \A S \in (SUBSET Request) \ {{}} : \E r \in S : Blockers(r) \cap S = {}

\* Success is never claimed early: a SUCCESS row or a success reply names a
\* transaction that is in the ledger, with exactly its two entries.
SuccessIsCommitted ==
    \A id \in {w.tx : w \in audit} \cup {reply[r].tx : r \in Request} :
        id # None => /\ \E t \in txns : t.id = id
                     /\ Cardinality(EntriesOf(id)) = 2

\* A call answered with an error, or audited as FAILURE, moved no money.
\* (As long as every COMMIT is answered.)
FailureLeavesNoTrace ==
    \A r \in Request :
        \/ reply[r].status \in Error
        \/ \E w \in audit : w.req = r /\ w.outcome = "FAILURE"
        => ~Committed(r)

\* An answered call has one audit row, SUCCESS exactly if it moved the money
\* itself; a replay, early or after a lost race, has none.  (As long as the
\* audit INSERT works.)
AuditComplete ==
    \A r \in Request : pc[r] = "done" =>
        {w.outcome : w \in {w \in audit : w.req = r}}
          = IF reply[r].status # "ok" THEN {"FAILURE"}
            ELSE IF reply[r].tx = r THEN {"SUCCESS"} ELSE {}

\* The ledger only grows: no step rewrites or removes a committed row.
AppendOnly ==
    [][txns \subseteq txns' /\ entries \subseteq entries'
       /\ audit \subseteq audit']_<<txns, entries, audit>>

\* Every call that reached the service is answered, unless its handler dies.
EveryCallAnswered ==
    \A r \in Request : pc[r] # "idle" ~> Finished(r)

\* No row stays locked for ever, whatever fails: a lock is held to the end of
\* a transaction, and every transaction ends.
LocksReleased ==
    \A a \in AccountId : lock[a] # None ~> lock[a] = None

=============================================================================
