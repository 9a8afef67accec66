---------------------------- MODULE AtomicLedger ----------------------------
(***************************************************************************)
(* What the ledger promises, without requests, locks or sessions: money    *)
(* moves between two accounts in one step that checks the funds, moves the *)
(* amount, and records it once under a fresh idempotency key; a transfer   *)
(* is undone at most once, by its mirror image.                            *)
(***************************************************************************)
EXTENDS Tables

\* A posting: the header t, its debit d and its credit c, all new.
Post(t, d, c) ==
    /\ t \in TxnRow /\ d \in EntryRow /\ c \in EntryRow
    /\ ById(t.id) = {} /\ ByKey(t.key) = {}
    /\ d.tx = t.id /\ d.dir = "DEBIT" /\ d.account \in exists
    /\ c.tx = t.id /\ c.dir = "CREDIT" /\ c.account \in exists \ {External}
    /\ d.amount = c.amount /\ d.account # c.account
    /\ d.account = External <=> t.kind = "DEPOSIT"
    /\ Storable(d.account, balance[d.account] - d.amount)
    /\ Storable(c.account, balance[c.account] + c.amount)
    /\ balance' = [balance EXCEPT ![d.account] = @ - d.amount,
                                  ![c.account] = @ + c.amount]
    /\ txns' = txns \cup {t}
    /\ entries' = entries \cup {d, c}
    /\ UNCHANGED exists

\* What makes a posting a reversal: an unreversed transfer, mirrored.
Mirrors(t, d, c) ==
    /\ \A u \in txns : u.reverses # t.reverses
    /\ \E o \in ById(t.reverses) : o.kind = "TRANSFER"
    /\ EntriesOf(t.reverses)
         = {Entry(t.reverses, c.account, "DEBIT", c.amount),
            Entry(t.reverses, d.account, "CREDIT", d.amount)}

PostOriginal(t, d, c) ==
    t.kind # "REVERSAL" /\ t.reverses = None /\ Post(t, d, c)

PostReversal(t, d, c) ==
    t.kind = "REVERSAL" /\ Mirrors(t, d, c) /\ Post(t, d, c)

OpenAccount(a) ==
    /\ a \notin exists
    /\ exists' = exists \cup {a}
    /\ balance' = [balance EXCEPT ![a] = 0]
    /\ UNCHANGED <<txns, entries>>

\* The rows of a posting are the ones the step adds.
Next ==
    \/ \E t \in txns' \ txns, d, c \in entries' \ entries :
          PostOriginal(t, d, c) \/ PostReversal(t, d, c)
    \/ \E a \in AccountId : OpenAccount(a)

Spec == Seeded /\ [][Next]_tables
=============================================================================
