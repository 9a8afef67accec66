--------------------------- MODULE ServiceProofs ----------------------------
(***************************************************************************)
(* Theorems on the ledger service, called directly and over HTTP, for any  *)
(* accounts, requests, keys, calls and failures.                           *)
(***************************************************************************)
EXTENDS HttpSteps, LedgerSteps, LedgerOutcomes

-----------------------------------------------------------------------------
(* The inductive invariant *)

\* Every step of the service, of the database and of the failures keeps IInv.
LEMMA NextIInv == IInv /\ [Next]_vars => IInv'
<1> SUFFICES ASSUME IInv, [Next]_vars PROVE IInv'
  OBVIOUS
<1>1. \A r \in Request : PairFound(r)
  BY Zenon, PairsFound
<1>2. \A r \in Request : Stage(r) = "commit" /\ Publish(r) => Commits(r)
  BY Zenon, CommitBooks
<1> QED
  BY Zenon, <1>1, <1>2, NextStep

\* IInv holds throughout, whatever the constants are.
THEOREM Inductive == Spec => []IInv
<1>1. Init => IInv
  BY Zenon, InitIInv
<1>2. IInv /\ [Next]_vars => IInv'
  BY Zenon, NextIInv
<1> QED
  BY <1>1, <1>2, PTL DEF Spec

-----------------------------------------------------------------------------
(* What follows *)

\* Every variable keeps the type its table, column or Go declaration has.
THEOREM TypeCorrect == Spec => []TypeOK
<1>1. IInv => TypeOK
  BY DEF IInv
<1> QED
  BY <1>1, Inductive, PTL

\* The cached balance of every account is the sum of its entries: Credit and
\* debit entries and the two UPDATEs never drift apart.
THEOREM BooksBalance == Spec => []BalanceMatchesEntries
<1>1. IInv => BalanceMatchesEntries
  BY SMTT(30) DEF IInv, Books
<1> QED
  BY <1>1, Inductive, PTL

\* FOR UPDATE protects the absolute UPDATE: no transaction commits a balance
\* computed from one that has changed since.
THEOREM NoLostUpdate == Spec => []NoStaleRead
<1>1. IInv => NoStaleRead
  BY Zenon, ReadsFresh
<1> QED
  BY <1>1, Inductive, PTL

\* No user account is overdrawn, and the funds check suffices for that.
THEOREM Solvent == Spec => []NoOverdraft
<1>1. IInv => NoOverdraft
  BY Zenon, Funds
<1> QED
  BY <1>1, Inductive, PTL

\* An idempotency key has one transaction, and every success reply to a call
\* with that key names it.
THEOREM Idempotent == Spec => []OneAnswerPerKey
<1>1. IInv => OneAnswerPerKey
  BY Zenon, OneAnswer
<1> QED
  BY <1>1, Inductive, PTL

\* A reversal undoes exactly one transfer, entry by entry, and is the only one
\* that does.
THEOREM ReversalsUndo == Spec => []ReversalMirrors
<1>1. IInv => ReversalMirrors
  BY DEF IInv, Books
<1> QED
  BY <1>1, Inductive, PTL

\* The deferred constraint trigger never refuses a COMMIT of the service.
THEOREM TriggerSilent == Spec => []TriggerIsBackstop
<1>1. ASSUME IInv PROVE TriggerIsBackstop
  <2> SUFFICES ASSUME NEW r \in Request, pc[r] = "commit" \/ sess[r] = "indoubt"
               PROVE  DoubleEntry(r)
    BY DEF TriggerIsBackstop
  <2> PICK d, k : /\ d = Entry(r, call[r].from, "DEBIT", call[r].amount)
                  /\ k = Entry(r, call[r].to, "CREDIT", call[r].amount)
    OBVIOUS
  <2>1. ReqInv(r) /\ Stage(r) = "commit"
    BY Zenon, <1>1 DEF IInv, Stage
  <2>2. PICK n \in Nat : n = call[r].amount
    BY Zenon, <2>1 DEF ReqInv, CallOK, Valid, InTx
  <2>3. legs[r] = {d, k}
    BY ZenonT(30), <2>1 DEF ReqInv, RowOK, Writing
  <2>4. \A e \in entries : e.tx # r
    BY Zenon, <2>1 DEF ReqInv, FreshOK, SessOK, Stage, InTx
  <2>5. /\ d.tx = r /\ d.dir = "DEBIT" /\ d.amount = n
        /\ k.tx = r /\ k.dir = "CREDIT" /\ k.amount = n
    BY Zenon, <2>2 DEF Entry
  <2>6. {e \in entries \cup legs[r] : e.tx = r} = {d, k}
    BY Zenon, <2>3, <2>4, <2>5
  <2>7. Side({d, k}, "CREDIT") = {k} /\ Side({d, k}, "DEBIT") = {d}
    BY ZenonT(30), <2>5 DEF Side
  <2>8. Total({k}) = Total({d})
    BY SMTT(30), <2>5, TotalOne
  <2>9. \A id \in {e.tx : e \in legs[r]} : id = r
    BY Zenon, <2>3, <2>5
  <2> QED
    BY <2>6, <2>7, <2>8, <2>9, Zenon DEF DoubleEntry
<1> QED
  BY <1>1, Inductive, PTL

\* Rows of transactions, entries and audit_log are only ever added.
THEOREM LedgerGrows == Spec => AppendOnly
<1>1. [Next]_vars => [/\ txns \subseteq txns' /\ entries \subseteq entries'
                     /\ audit \subseteq audit']_<<txns, entries, audit>>
  BY Zenon, OnlyAdds
<1> QED
  BY <1>1, PTL DEF Spec, AppendOnly

-----------------------------------------------------------------------------
(* What callers, the audit log and waiting transactions are owed *)

\* OInv holds throughout; it needs what IInv says of sessions and rows.
THEOREM Owed == Spec => []OInv
<1>1. Init => OInv
  BY Zenon, InitOInv
<1>2. IInv /\ OInv /\ [Next]_vars => OInv'
  BY Zenon, NextOInv
<1> QED
  BY <1>1, <1>2, Inductive, PTL DEF Spec

\* isUniqueViolation tells the loser of a same-key race that there is a
\* transaction to fetch, and there is: Refetch never comes back empty.
THEOREM ConflictsReplay == Spec => []ConflictIsReplayable
<1>1. OInv => ConflictIsReplayable
  BY Zenon, ConflictFound
<1> QED
  BY <1>1, Owed, PTL

\* The ORDER BY id of the locking SELECT: among any transactions that wait for
\* row locks, one waits for none of the others.
THEOREM DeadlockFree == Spec => []NoDeadlock
<1>1. IInv /\ OInv => NoDeadlock
  BY Zenon, NoCircle
<1> QED
  BY <1>1, Inductive, Owed, PTL

\* A success that the caller or the audit log has seen is in the ledger, with
\* its two entries, whatever fails afterwards.
THEOREM SuccessCommitted == Spec => []SuccessIsCommitted
<1>1. IInv /\ OInv => SuccessIsCommitted
  BY Zenon, SuccessShown
<1> QED
  BY <1>1, Inductive, Owed, PTL

\* An error reply or a FAILURE row means that no money moved, as long as no
\* COMMIT goes unanswered.
THEOREM FailureQuietly ==
  ASSUME "commit" \notin Faults
  PROVE  Spec => []FailureLeavesNoTrace
<1>1. IInv /\ OInv => FailureLeavesNoTrace
  BY Zenon, FailureQuiet
<1> QED
  BY <1>1, Inductive, Owed, PTL

\* A domain error (insufficient funds, conflict, not found...) means that no
\* money moved or will, with every failure the database can have.
THEOREM RejectionsFinal == Spec => []RejectionIsFinal
<1>1. IInv /\ OInv => RejectionIsFinal
  BY Zenon, RejectionShown
<1> QED
  BY <1>1, Inductive, Owed, PTL

\* While its INSERT works, the audit log has exactly the row each answered
\* call is owed.
THEOREM AuditIsComplete ==
  ASSUME AuditReliable
  PROVE  Spec => []AuditComplete
<1>1. Init => AInv
  BY Zenon, InitAInv
<1>2. IInv /\ OInv /\ AInv /\ [Next]_vars => AInv'
  BY Zenon, NextLogged, NextAmount DEF AInv
<1>3. AInv => AuditComplete
  BY DEF AInv
<1> QED
  BY <1>1, <1>2, <1>3, Inductive, Owed, PTL DEF Spec

-----------------------------------------------------------------------------
(* The service implements the atomic ledger *)

\* A COMMIT that takes effect is a posting of the atomic ledger.
LEMMA PublishPosts ==
  ASSUME IInv, NEW r \in Request, Stage(r) = "commit", Publish(r)
  PROVE  Atomic!Next
<1> PICK c, h, d, k : /\ c = call[r] /\ h = header[r]
                      /\ d = Entry(r, call[r].from, "DEBIT", call[r].amount)
                      /\ k = Entry(r, call[r].to, "CREDIT", call[r].amount)
  OBVIOUS
<1>0. ReqInv(r) /\ DbType /\ UniqueInv
  BY DEF IInv, TypeOK
<1>1. Shown(r, c, h, d, k)
  BY Zenon, PublishedRows
<1>2. Valid(c) /\ (c.kind = "REVERSAL" <=> c.orig # None)
  BY Zenon, <1>0 DEF ReqInv, CallOK, SessOK, Stage, InTx
<1>3. PICK n \in Nat \ {0} : n = c.amount
  BY Zenon, <1>2 DEF Valid
<1>4. /\ balance' \in [AccountId -> Int]
      /\ \A a \in AccountId :
            balance'[a] = IF a = c.from THEN balance[a] - n
                          ELSE IF a = c.to THEN balance[a] + n
                          ELSE balance[a]
      /\ \A a \in {c.from, c.to} : a \in exists /\ Storable(a, balance'[a])
  <2>1. /\ balance' \in [AccountId -> Int]
        /\ \A a \in AccountId :
              balance'[a] = IF a = call[r].from
                            THEN balance[a] - call[r].amount
                            ELSE IF a = call[r].to
                            THEN balance[a] + call[r].amount ELSE balance[a]
        /\ \A a \in {call[r].from, call[r].to} :
              a \in exists /\ Storable(a, balance'[a])
    BY PublishedBalances
  <2>2. c.amount = n /\ call[r] = c
    BY Zenon, <1>3
  <2> QED
    BY Zenon, <2>1, <2>2
<1>5. /\ c.from \in AccountId /\ c.to \in AccountId \ {External}
      /\ c.from # c.to /\ (c.from = External <=> c.kind = "DEPOSIT")
      /\ c.from \in exists /\ c.to \in exists
      /\ balance \in [AccountId -> Int]
  BY Zenon, <1>0, <1>2, <1>4 DEF Valid, DbType
<1>6. /\ h.id = r /\ h.kind = c.kind /\ h.reverses = c.orig
      /\ h \in TxnRow /\ d \in EntryRow /\ k \in EntryRow
      /\ d.tx = r /\ d.account = c.from /\ d.dir = "DEBIT" /\ d.amount = n
      /\ k.tx = r /\ k.account = c.to /\ k.dir = "CREDIT" /\ k.amount = n
  BY Zenon, <1>1, <1>3 DEF Shown
<1>7. balance' = [balance EXCEPT ![c.from] = @ - n, ![c.to] = @ + n]
  BY Zenon, <1>4, <1>5
<1>8. /\ Atomic!Storable(c.from, balance[c.from] - n)
      /\ Atomic!Storable(c.to, balance[c.to] + n)
  <2>1. /\ Storable(c.from, balance[c.from] - n)
        /\ Storable(c.to, balance[c.to] + n)
    BY ZenonT(30), <1>4, <1>5
  <2> QED
    BY Zenon, <2>1
       DEF Storable, Representable, Atomic!Storable, Atomic!Representable
<1>9. Atomic!ById(h.id) = {} /\ Atomic!ByKey(h.key) = {}
  BY <1>1 DEF Shown, Atomic!ById, Atomic!ByKey
<1>10. /\ h \in Atomic!TxnRow /\ d \in Atomic!EntryRow /\ k \in Atomic!EntryRow
  BY ZenonT(40), <1>6
     DEF TxnRow, EntryRow, TxId, Kind, Atomic!TxnRow, Atomic!EntryRow,
              Atomic!TxId, Atomic!Kind
<1>11. /\ txns' = txns \cup {h} /\ entries' = entries \cup {d, k}
       /\ exists' = exists
       /\ h \in txns' \ txns /\ d \in entries' \ entries
       /\ k \in entries' \ entries
  BY SMTT(30), <1>1, <1>6 DEF Shown
<1>12. Atomic!Post(h, d, k)
  BY Zenon, <1>5, <1>6, <1>7, <1>8, <1>9, <1>10, <1>11 DEF Atomic!Post
<1>13. CASE c.kind # "REVERSAL"
  <2>1. Atomic!PostOriginal(h, d, k)
    BY Zenon, <1>2, <1>6, <1>12, <1>13 DEF Atomic!PostOriginal
  <2> QED
    BY Zenon, <1>11, <2>1 DEF Atomic!Next
<1>14. CASE c.kind = "REVERSAL"
  <2>1. MirrorOf(c)
    BY Zenon, <1>0, <1>14 DEF ReqInv, MirrorOK, InTx
  <2>2. \A u \in txns : u.reverses # h.reverses
    BY Zenon, <1>0, <1>1, <1>2, <1>14 DEF UniqueInv, Shown
  <2>3. \E o \in Atomic!ById(h.reverses) : o.kind = "TRANSFER"
    BY Zenon, <1>6, <2>1 DEF MirrorOf, ById, Atomic!ById
  <2>4. Atomic!EntriesOf(h.reverses)
          = {Atomic!Entry(h.reverses, k.account, "DEBIT", k.amount),
             Atomic!Entry(h.reverses, d.account, "CREDIT", d.amount)}
    BY ZenonT(40), <1>3, <1>6, <2>1
       DEF MirrorOf, EntriesOf, Entry, Atomic!EntriesOf, Atomic!Entry
  <2>5. Atomic!PostReversal(h, d, k)
    BY Zenon, <1>6, <1>12, <1>14, <2>2, <2>3, <2>4
       DEF Atomic!PostReversal, Atomic!Mirrors
  <2> QED
    BY Zenon, <1>11, <2>5 DEF Atomic!Next
<1> QED
  BY SMTT(30), <1>13, <1>14

\* Every other step leaves the tables alone, or opens an account.
LEMMA StepRefines == IInv /\ [Next]_vars => [Atomic!Next]_Atomic!tables
<1> DEFINE Same == UNCHANGED tables
           Goal == Atomic!Next \/ Same
<1> SUFFICES ASSUME IInv, [Next]_vars PROVE Goal
  BY DEF tables, Atomic!tables
<1> USE DEF dbVars
<1>1. ASSUME NEW r \in Request, ServerCommits(r), Stage(r) = "commit"
      PROVE  Goal
  BY Zenon, <1>1, PublishPosts DEF ServerCommits
<1>2. ASSUME NEW r \in Request, Transfer(r) \/ Deposit(r) \/ Reverse(r)
      PROVE  Same
  BY Zenon, <1>2 DEF Transfer, Deposit, Reverse, Enter
<1>3. ASSUME NEW r \in Request, Lookup(r) \/ LoadOriginal(r) \/ Refetch(r)
      PROVE  Same
  BY ZenonT(30), <1>3 DEF Lookup, LoadOriginal, Refetch, Replay, Reject
<1>4. ASSUME NEW r \in Request, BeginTx(r) \/ LockRow(r) \/ ReadBalances(r)
      PROVE  Same
  BY <1>4 DEF BeginTx, LockRow, ReadBalances, Reject, Fail
<1>5. ASSUME NEW r \in Request,
             Debit(r) \/ Credit(r) \/ InsertTransaction(r) \/ InsertEntries(r)
      PROVE  Same
  BY Zenon, <1>5
     DEF Debit, Credit, UpdateBalance, InsertTransaction, InsertEntries,
              Fail
<1>6. ASSUME NEW r \in Request, Commit(r) PROVE Goal
  <2>1. Stage(r) = "commit"
    BY Zenon, <1>6 DEF Commit, Stage
  <2> QED
    BY Zenon, <1>1, <1>6, <2>1 DEF Commit
<1>7. ASSUME NEW r \in Request, LateCommit(r) PROVE Goal
  <2>1. Stage(r) = "commit"
    BY Zenon, <1>7 DEF LateCommit, Stage
  <2> QED
    BY Zenon, <1>1, <1>7, <2>1 DEF LateCommit
<1>8. ASSUME NEW r \in Request,
             Rollback(r) \/ StatementFails(r) \/ Crash(r) \/ ServerAborts(r)
      PROVE  Same
  BY ZenonT(30), <1>8 DEF Rollback, StatementFails, Fail, Crash, ServerAborts
<1>9. ASSUME NEW r \in Request, AuditSuccess(r) \/ AuditFailure(r) PROVE Same
  BY Zenon, <1>9 DEF AuditSuccess, AuditFailure
<1>10. ASSUME NEW a \in AccountId, CreateAccount(a) PROVE Goal
  BY Zenon, <1>10 DEF CreateAccount, Atomic!Next, Atomic!OpenAccount
<1>11. AtRest \/ UNCHANGED vars => Same
  BY DEF AtRest, vars
<1> HIDE DEF Same
<1> QED
  BY ZenonT(30), <1>2, <1>3, <1>4, <1>5, <1>6, <1>7, <1>8, <1>9, <1>10, <1>11
     DEF Next, Step, TransferBody, DepositBody, ReverseBody, TxBody

\* Seen through its committed tables, the service does what the atomic ledger
\* does: every COMMIT that takes effect, on time or late, is one whole posting
\* that was funded, fresh and, if a reversal, the first of its transfer.
THEOREM Refines == Spec => ImplementsAtomicLedger
<1>1. Init => Atomic!Seeded
  <2>1. Atomic!Cardinality(Seed) = Cardinality(Seed)
    BY Zenon DEF Cardinality, Atomic!Cardinality
  <2> QED
    BY Zenon, <2>1 DEF Init, Seeded, Txn, Entry, Atomic!Seeded, Atomic!Txn,
                Atomic!Entry
<1>2. IInv /\ [Next]_vars => [Atomic!Next]_Atomic!tables
  BY Zenon, StepRefines
<1> QED
  BY <1>1, <1>2, Inductive, PTL DEF Spec, ImplementsAtomicLedger, Atomic!Spec
-----------------------------------------------------------------------------
(* The service over HTTP *)

\* Everything that is invariant when the service is called over HTTP.
WholeInv == IInv /\ OInv /\ HInv

\* The handlers call the service with calls it may be called with, and the
\* service, called over HTTP, keeps its invariants; the account list conserves
\* money.
THEOREM HttpInductive == HttpSpec => []WholeInv
<1>1. HttpInit => WholeInv
  <2>1. HttpInit => Init
    BY DEF HttpInit
  <2> QED
    BY ZenonT(30), <2>1, InitIInv, InitOInv, HttpInitInv DEF WholeInv
<1>2. WholeInv /\ [HttpNext]_allVars => WholeInv'
  <2> SUFFICES ASSUME IInv, OInv, HInv, [HttpNext]_allVars
               PROVE  IInv' /\ OInv' /\ HInv'
    BY Zenon DEF WholeInv
  <2>1. [Next]_vars
    BY Zenon, HttpStep
  <2>2. IInv' /\ OInv'
    BY Zenon, <2>1, NextIInv, NextOInv
  <2>3. Conserved'
    BY Zenon, <2>1, <2>2, StepRefines, SumKept DEF HInv
  <2> QED
    BY Zenon, <2>2, <2>3, HttpNextInv
<1> QED
  BY <1>1, <1>2, PTL DEF HttpSpec

\* The handlers add nothing to what the service does: refused requests, status
\* codes and account lists are stuttering steps of the ledger, and a decoded
\* body is one of the calls it was proved for.  Every theorem on the service
\* holds of it behind HTTP.
THEOREM HttpServesLedger == HttpSpec => Spec
<1>1. HttpInit => Init
  BY DEF HttpInit
<1>2. WholeInv /\ [HttpNext]_allVars => [Next]_vars
  BY Zenon, HttpStep DEF WholeInv
<1> QED
  BY <1>1, <1>2, HttpInductive, PTL DEF HttpSpec, Spec

\* Seen from its clients too, the service is the atomic ledger.
THEOREM HttpImplements == HttpSpec => ImplementsAtomicLedger
  BY Zenon, HttpServesLedger, Refines

\* A 201 names one whole transaction; after a 4xx nothing was posted nor is
\* about to be; after a 400 nothing was audited: under every failure.
THEOREM StatusTrue == HttpSpec => []StatusIsTruth
<1>1. IInv /\ OInv => /\ OneAnswerPerKey /\ SuccessIsCommitted
                      /\ RejectionIsFinal
  BY Zenon, OneAnswer, SuccessShown, RejectionShown
<1>2. WholeInv => StatusIsTruth
  BY Zenon, <1>1, StatusShown DEF WholeInv
<1> QED
  BY <1>2, HttpInductive, PTL

\* mapError's 409 is final: the key or the reversal is in the ledger.
THEOREM ConflictFinal == HttpSpec => []ConflictIsFinal
<1>1. WholeInv => ConflictIsFinal
  BY Zenon, ConflictShown DEF WholeInv
<1> QED
  BY <1>1, HttpInductive, PTL

\* listAccounts shows no negative balance, and the listed balances add up to
\* what EXTERNAL paid in, whatever was running when the SELECT ran.
THEOREM ListConserves == HttpSpec => []ListAddsUp
<1>1. WholeInv => ListAddsUp
  BY DEF WholeInv, HInv
<1> QED
  BY <1>1, HttpInductive, PTL
=============================================================================
