------------------------------ MODULE MCLedger ------------------------------
(***************************************************************************)
(* Small instances of Ledger for TLC: account 0 is EXTERNAL, 1 and 2 are   *)
(* seeded with 2 units each, 3 may be created while requests run.          *)
(***************************************************************************)
EXTENDS LedgerClaims, LedgerRefinement, TLC

MCAccountId == 0 .. 3
MCSeed == {"alice", "bob"}
MCSeedAccount == [s \in MCSeed |-> IF s = "alice" THEN 1 ELSE 2]
MCKey == {"k1", "k2", "k3"}

T(from, to, amount, key) ==
    [kind |-> "TRANSFER", from |-> from, to |-> to, amount |-> amount,
     orig |-> None, key |-> key]
D(to, amount, key) ==
    [kind |-> "DEPOSIT", from |-> External, to |-> to, amount |-> amount,
     orig |-> None, key |-> key]
R(orig, key) ==
    [kind |-> "REVERSAL", from |-> None, to |-> None, amount |-> 0,
     orig |-> orig, key |-> key]

\* Transfers both ways between two accounts that drain them; calls with one
\* key over shared rows and over disjoint rows, where only the index makes
\* them meet; an account that may not exist yet; the rejected arguments; and
\* reversals of each other's transactions, committed or not, and of a seed
\* deposit.
ContentionCalls ==
    {T(1, 2, 2, "k1"), T(2, 1, 1, "k2"), T(2, 3, 2, "k1"), D(3, 1, "k1"),
     T(1, 2, 0, "k3"), T(1, 1, 1, "k3"), T(1, 0, 1, "k3"), D(0, 1, "k3"),
     R("alice", "k3")}
      \cup {R(q, k) : q \in Request, k \in {"k2", "k3"}}

\* Two calls that contend for a key and for both rows, for the failures; other
\* mixes where COMMITs go unanswered, disjoint rows under one key included.
FaultCalls == {T(1, 2, 2, "k1"), T(2, 1, 1, "k1")}
LiveCalls == {T(1, 2, 2, "k1"), D(3, 1, "k1")} \cup {R(q, "k2") : q \in Request}
InDoubtCalls ==
    {T(1, 2, 2, "k1"), T(2, 1, 1, "k2"), D(3, 1, "k1")}
      \cup {R(q, "k3") : q \in Request}

\* For the runs that look for one disagreement.
DrainCalls == {T(1, 2, 2, "k1")}
TwiceCalls == {T(1, 3, 2, "k1")} \cup {R(q, k) : q \in Request, k \in {"k2", "k3"}}
HugeCalls == {T(1, 2, 6, "k1")}

Symmetry == Permutations(Request)
=============================================================================
