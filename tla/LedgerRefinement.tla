-------------------------- MODULE LedgerRefinement --------------------------
(***************************************************************************)
(* The ledger service, statement by statement, implements the ledger that  *)
(* posts every operation in one step.                                      *)
(***************************************************************************)
EXTENDS Ledger

\* The mapping forgets requests, sessions, locks and the audit log, and keeps
\* the committed tables.
Atomic == INSTANCE AtomicLedger
          WITH exists <- exists, balance <- balance,
               txns <- txns, entries <- entries

\* Statement by statement, with every failure, the service is
\* indistinguishable in its tables from one that posts each operation in a
\* single step: funds check, both balances, header and entries.
ImplementsAtomicLedger == Atomic!Spec
=============================================================================
