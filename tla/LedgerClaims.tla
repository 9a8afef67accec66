---------------------------- MODULE LedgerClaims ----------------------------
(***************************************************************************)
(* Statements that the repository's documents, comments or tests make      *)
(* about the service and that its code does not keep.  Each is the only    *)
(* property of an instance in which TLC finds a counterexample.            *)
(***************************************************************************)
EXTENDS Ledger

\* docs/ARCHITECTURE.md, the same-key race: "both clients see the same
\* response".  The loser reads the balance the winner left before its INSERT
\* can meet the winner's key, and may fail the funds check on it.
SameKeySameResponse ==
    \A r, s \in Request :
        pc[r] = "done" /\ pc[s] = "done" /\ call[r] = call[s]
            => reply[r].status = reply[s].status

\* internal/ledger/service_test.go: "Second reverse with a DIFFERENT
\* idempotency key must return ErrAlreadyReversed."  The funds check comes
\* first here too.  While r holds its row locks nobody else can reverse its
\* original, so AlreadyReversed held when r failed.
SecondReverseIsNamed ==
    \A r \in Request :
        pc[r] = "rollback" /\ AlreadyReversed(r)
            => err[r] \in {"ErrAlreadyReversed", "ErrIdempotencyConflict"}

\* docs/ARCHITECTURE.md, audit table: a replay writes no audit row because
\* the "original already audited".  The original's row is written after its
\* commit, in a statement of its own.
ReplayedIsAudited ==
    \A r \in Request :
        reply[r].status = "ok" /\ reply[r].tx \in Request
            => \E w \in audit : w.outcome = "SUCCESS" /\ w.tx = reply[r].tx

\* docs/ARCHITECTURE.md, Transfer step 2: "if err == anything else -> audit
\* FAILURE; return err".  Any error of the lookup is taken for a miss.
LookupErrorReturned ==
    [][\A r \in Request :
          pc[r] = "lookup" /\ pc'[r] # "lookup" /\ ByKey(call[r].key) # {}
              => pc'[r] \in {"done", "auditFailure"}]_vars

\* internal/ledger/service_test.go: "audit_log contains outcome=FAILURE row
\* with non-null error_reason for every domain-level rejection."  An amount
\* too large for audit_log.amount makes the audit INSERT fail as well.
EveryRejectionAudited ==
    \A r \in Request :
        reply[r].status \in DomainError
            => \E w \in audit : w.req = r /\ w.outcome = "FAILURE"

\* README.md: "Every transaction response includes an `Entries` array."  The
\* Transaction returned to the call that created it has none.
EveryResponseHasEntries ==
    \A r \in Request : reply[r].status = "ok" => reply[r].entries # {}
=============================================================================
