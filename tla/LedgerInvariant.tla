-------------------------- MODULE LedgerInvariant --------------------------
(***************************************************************************)
(* The inductive invariant behind the theorems of LedgerProofs.  It says   *)
(* what a request knows at each of its labels: which rows it has locked,   *)
(* that the balances it read are still the committed ones, and what its    *)
(* private rows hold.                                                      *)
(***************************************************************************)
EXTENDS Ledger

\* Where the transaction of r stands; an unanswered COMMIT is still at commit.
Stage(r) == IF sess[r] = "indoubt" THEN "commit" ELSE pc[r]
Writing == {"debit", "credit", "insertTx", "insertEntries", "commit"}

\* What the checks before WithTx establish about a call.
Valid(c) ==
    /\ c \in Call
    /\ c.from \in AccountId /\ c.to \in AccountId \ {External}
    /\ c.from # c.to /\ c.amount \in Nat \ {0}
    /\ c.from = External <=> c.kind = "DEPOSIT"

CallOK(r) ==
    /\ pc[r] # "idle" => /\ call[r] \in Call
                         /\ call[r].kind = "REVERSAL" <=> call[r].orig # None
    /\ pc[r] = "lookup" /\ call[r].kind # "REVERSAL" => Valid(call[r])
    /\ pc[r] = "loadOriginal" => call[r].kind = "REVERSAL"
    /\ Stage(r) \in InTx \cup {"begin"} => Valid(call[r])

\* A reversal on its way undoes a stored transfer.
MirrorOf(c) ==
    /\ \E o \in ById(c.orig) : o.kind = "TRANSFER"
    /\ EntriesOf(c.orig) = {Entry(c.orig, c.to, "DEBIT", c.amount),
                            Entry(c.orig, c.from, "CREDIT", c.amount)}

MirrorOK(r) ==
    Stage(r) \in InTx \cup {"begin"} /\ call[r].kind = "REVERSAL"
        => MirrorOf(call[r])

\* A database transaction is open exactly while its handler works in it, is
\* unanswered, or was abandoned; outside it leaves nothing behind.
SessOK(r) ==
    /\ pc[r] \in InTx => sess[r] = "open"
    /\ pc[r] \in {"idle", "lookup", "loadOriginal", "begin"}
          => sess[r] = "none"
    /\ sess[r] \notin {"open", "indoubt"}
          => /\ write[r] = NoWrites /\ header[r] = None /\ legs[r] = {}
             /\ \A a \in AccountId : lock[a] # r
    /\ pc[r] = "auditSuccess" => sess[r] = "committed"

\* Rows of a request appear with its commit, and not before.
FreshOK(r) ==
    sess[r] # "committed" =>
        (\A t \in txns : t.id # r) /\ (\A e \in entries : e.tx # r)

\* What the transaction of r has found, locked and read.
LockOK(r) ==
    /\ pc[r] = "lock"
          => found[r] \subseteq {call[r].from, call[r].to} \cap exists
    /\ Stage(r) \in Writing =>
          /\ call[r].from \in exists /\ call[r].to \in exists
          /\ lock[call[r].from] = r /\ lock[call[r].to] = r
          /\ seen[r].from = balance[call[r].from]
          /\ seen[r].to = balance[call[r].to]
          /\ call[r].from # External => seen[r].from >= call[r].amount

\* What its private rows hold at each stage.
Debited(r, a) == a = call[r].from /\ Stage(r) \in Writing \ {"debit"}
Credited(r, a) == a = call[r].to /\ Stage(r) \in Writing \ {"debit", "credit"}

RowOK(r) ==
    /\ Stage(r) \in {"begin", "lock"}
          => write[r] = NoWrites /\ header[r] = None /\ legs[r] = {}
    /\ Stage(r) \in Writing =>
          /\ \A a \in AccountId :
                /\ Debited(r, a) =>
                      /\ write[r][a] = seen[r].from - call[r].amount
                      /\ Storable(a, write[r][a])
                /\ Credited(r, a) =>
                      /\ write[r][a] = seen[r].to + call[r].amount
                      /\ Storable(a, write[r][a])
                /\ ~Debited(r, a) /\ ~Credited(r, a) => write[r][a] = None
          /\ header[r] = IF Stage(r) \in {"insertEntries", "commit"}
                         THEN Txn(r, call[r].kind, call[r].key, call[r].orig)
                         ELSE None
          /\ legs[r] = IF Stage(r) = "commit"
                       THEN {Entry(r, call[r].from, "DEBIT", call[r].amount),
                             Entry(r, call[r].to, "CREDIT", call[r].amount)}
                       ELSE {}

\* A success reply names the stored transaction with the call's key.
ReplyOK(r) ==
    /\ reply[r].status = "ok" =>
          \E t \in txns : t.id = reply[r].tx /\ t.key = call[r].key
    /\ pc[r] # "done" => reply[r] = NoReply
    /\ sess[r] = "committed" =>
          \E t \in txns : t.id = r /\ t.key = call[r].key

ReqInv(r) ==
    /\ CallOK(r) /\ MirrorOK(r) /\ SessOK(r) /\ FreshOK(r) /\ LockOK(r)
    /\ RowOK(r) /\ ReplyOK(r)

\* Unique values: among the stored rows, and the rows on their way.
UniqueInv ==
    /\ \A t, u \in txns : t.id = u.id \/ t.key = u.key => t = u
    /\ \A t, u \in txns : t.reverses = u.reverses /\ t.reverses # None => t = u
    /\ \A r \in Request : header[r] # None =>
          /\ \A t \in txns : t.key # header[r].key
          /\ header[r].reverses # None =>
                \A t \in txns : t.reverses # header[r].reverses
          /\ \A s \in Request \ {r} : header[s] # None =>
                /\ header[s].key # header[r].key
                /\ header[r].reverses # None =>
                      header[s].reverses # header[r].reverses

\* A transaction has two entries, and only a deposit draws on EXTERNAL.
Balanced(t) ==
    \E d, c \in EntriesOf(t.id) :
        /\ EntriesOf(t.id) = {d, c}
        /\ d.dir = "DEBIT" /\ c.dir = "CREDIT" /\ d.amount = c.amount
        /\ d.account # c.account /\ c.account # External
        /\ d.account = External <=> t.kind = "DEPOSIT"

\* Every stored transaction has its two entries, and every entry its header.
BookInv ==
    /\ \A t \in txns :
          /\ Balanced(t)
          /\ t.kind # "REVERSAL" => t.reverses = None
          /\ t.kind = "REVERSAL" => t.reverses \in TxId
    /\ \A e \in entries : \E t \in txns : t.id = e.tx
    /\ \A a \in AccountId \ exists : balance[a] = 0
    /\ External \in exists
    /\ IsFiniteSet(Units(entries))

\* What holds of the committed tables alone.
Books ==
    /\ BookInv /\ BalanceMatchesEntries /\ ReversalMirrors
    /\ \A a \in AccountId \ {External} : balance[a] >= 0

IInv ==
    TypeOK /\ UniqueInv /\ Books /\ \A r \in Request : ReqInv(r)

-----------------------------------------------------------------------------
(* What the caller, the audit log and the waiting transactions are owed: an *)
(* invariant of its own, inductive relative to IInv.                        *)

\* The error of r: none until it fails, and what it then says of the ledger.
\* A domain error is only ever carried by a call whose transaction had no
\* effect and has none to come.
ErrOK(r) ==
    /\ pc[r] \in {"idle", "lookup", "loadOriginal", "begin", "auditSuccess"}
                  \cup (InTx \ {"rollback"})
          => err[r] = None
    /\ pc[r] \in {"rollback", "auditFailure"} => err[r] # None
    /\ pc[r] = "refetch" => err[r] = "ErrIdempotencyConflict"
    /\ err[r] = "ErrIdempotencyConflict" => ByKey(call[r].key) # {}
    /\ err[r] = "ErrAlreadyReversed" => AlreadyReversed(r)
    /\ sess[r] \in {"committed", "indoubt"}
          => err[r] = None \/ (err[r] = "DbError" /\ "commit" \in Faults)

\* The reply of r is its error, or the failed uuid.NewV7 before BEGIN.
AnswerOK(r) ==
    /\ pc[r] = "done" => reply[r].status # None
    /\ reply[r].tx # None => reply[r].status = "ok"
    /\ reply[r].status \in Error =>
          \/ reply[r].status = err[r]
          \/ reply[r].status = "DbError" /\ err[r] = None /\ sess[r] = "none"

\* An audit row is written last, and says what the reply says.
AuditOK(w) ==
    /\ pc[w.req] = "done"
    /\ w.outcome = "SUCCESS" =>
          w.tx = w.req /\ reply[w.req].status = "ok" /\ Committed(w.req)
    /\ w.outcome = "FAILURE" =>
          w.tx = None /\ reply[w.req].status \in Error

\* Rows are locked in ascending order: all that r holds is below all that it
\* has still to lock.
OrderOK(r) ==
    pc[r] = "lock" =>
        /\ Held(r) \subseteq found[r]
        /\ \A a \in Held(r), b \in found[r] \ Held(r) : a < b

LockedRows == {a \in AccountId : lock[a] # None}

OInv ==
    /\ IsFiniteSet(LockedRows)
    /\ \A r \in Request : ErrOK(r) /\ AnswerOK(r) /\ OrderOK(r)
    /\ \A w \in audit : AuditOK(w)

\* A domain error is final, whatever fails: its call has no transaction in the
\* ledger, and no COMMIT of it is still in doubt.  (A caller told DbError by an
\* unanswered COMMIT may find the money moved.)
RejectionIsFinal ==
    \A r \in Request : reply[r].status \in DomainError
        => ~Committed(r) /\ sess[r] # "indoubt"

\* The audit INSERT cannot fail: no deadline or lost connection hits it, no
\* uuid.NewV7 fails, and audit_log.amount can hold every amount.
AuditReliable ==
    /\ Faults \cap {"audit", "uuid"} = {}
    /\ Representable(SeedAmount) /\ \A c \in Calls : Representable(c.amount)

\* Amounts that calls and entries carry, and the audit log so far.
AmountOK ==
    /\ \A r \in Request : Representable(call[r].amount)
    /\ \A e \in entries : Representable(e.amount)

AInv == AmountOK /\ AuditComplete
-----------------------------------------------------------------------------
(* What a COMMIT does to the tables *)

\* What COMMIT makes visible: a header, a debit and a credit that clash with
\* no row of the ledger.
Shown(r, c, h, d, k) ==
    /\ h \in TxnRow /\ h # None /\ h.id = r /\ h.kind = c.kind
    /\ h.key = c.key /\ h.reverses = c.orig
    /\ d \in EntryRow /\ d.tx = r /\ d.account = c.from
    /\ d.dir = "DEBIT" /\ d.amount = c.amount
    /\ k \in EntryRow /\ k.tx = r /\ k.account = c.to
    /\ k.dir = "CREDIT" /\ k.amount = c.amount
    /\ txns' = txns \cup {h} /\ entries' = entries \cup {d, k}
    /\ exists' = exists
    /\ \A t \in txns : t.id # r /\ t.key # h.key
    /\ \A e \in entries : e.tx # r
    /\ EntriesOf(r)' = {d, k}
    /\ \A id : id # r => EntriesOf(id)' = EntriesOf(id)

\* The commit of r shows such rows, moves money only between rows that r has
\* locked, and leaves the books in order.
Commits(r) ==
    /\ \E h, d, k : Shown(r, call[r], h, d, k)
    /\ \A a \in {call[r].from, call[r].to} : lock[a] = r
    /\ \A a \in AccountId \ {call[r].from, call[r].to} :
          balance'[a] = balance[a]
    /\ DbType' /\ UniqueInv' /\ Books'

\* Two different rows found are the two rows of the call.
PairFound(r) ==
    Cardinality(found[r]) = 2 /\ found[r] \subseteq {call[r].from, call[r].to}
        => found[r] = {call[r].from, call[r].to}
=============================================================================
