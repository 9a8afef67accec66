------------------------------ MODULE Listing -------------------------------
(***************************************************************************)
(* The listings (ListTransactions, ListTransactionsForAccount,             *)
(* ListAuditForAccount and their handlers) read while transactions begin   *)
(* and commit.  created_at is now(), the start of the transaction: rows    *)
(* appear in the order of their commits and are listed in another.         *)
(***************************************************************************)
EXTENDS Integers, FiniteSets

CONSTANTS
    Txn,        \* transaction ids, in uuid order
    Seed,       \* the ones seeded in one migration, with one created_at
    Account,    \* user accounts; each transaction touches one of them
    Kinds,      \* the kinds that occur
    MaxTime,    \* bound on the clock
    Default,    \* parseLimit's default (50) and cap (200)
    Cap,
    Junk,       \* a query parameter that is absent or no number
    Reads       \* which listings are read: "pages", "history", "audit"

ASSUME ListingAssumption ==
    /\ Seed \subseteq Txn /\ Txn \subseteq Int /\ MaxTime \in Nat
    /\ Default \in 1 .. Cap /\ Cap \in Nat
    /\ IsFiniteSet(Seed) /\ Seed # {} /\ Kinds # {} /\ Account # {}
    /\ Junk \notin Int /\ Junk \notin Kinds

VARIABLES
    clock,
    open,      \* transactions begun and not committed
    headers,   \* committed rows of transactions
    legs,      \* transactions whose entries are committed
    at,        \* created_at
    kind, owner,
    logged, loggedAt,   \* audit rows and their created_at
    newest,    \* the transaction that committed last
    \* A client walking through GET /api/transactions page by page.
    phase, want, offset, page, got, seen, base,
    \* The latest history or audit page of an account.
    view

writers == <<clock, open, headers, legs, at, kind, owner, logged, loggedAt,
             newest>>
walk == <<phase, want, offset, page, got, seen, base>>
vars == <<writers, walk, view>>

-----------------------------------------------------------------------------
(* Writers *)

\* BEGIN fixes now() for every row of the transaction.
Begin(t) ==
    /\ t \notin open \cup headers \cup logged
    /\ open' = open \cup {t}
    /\ at' = [at EXCEPT ![t] = clock]
    /\ \E k \in Kinds, a \in Account :
          kind' = [kind EXCEPT ![t] = k] /\ owner' = [owner EXCEPT ![t] = a]
    /\ UNCHANGED <<clock, headers, legs, logged, loggedAt, newest, walk, view>>

\* Mutant: header and entries in a transaction each.
MutTwoCommits(t) ==
    /\ t \in open
    /\ headers' = headers \cup {t}
    /\ IF t \in headers THEN legs' = legs \cup {t} /\ open' = open \ {t}
       ELSE UNCHANGED <<legs, open>>
    /\ newest' = t
    /\ UNCHANGED <<clock, at, kind, owner, logged, loggedAt, walk, view>>

Commit(t) ==
    /\ t \in open
    /\ open' = open \ {t}
    /\ headers' = headers \cup {t} /\ legs' = legs \cup {t}
    /\ newest' = t
    /\ UNCHANGED <<clock, at, kind, owner, logged, loggedAt, walk, view>>

\* The audit row is a statement of its own, stamped when it runs.
WriteAudit(t) ==
    /\ t \in headers \ (logged \cup Seed)
    /\ logged' = logged \cup {t}
    /\ loggedAt' = [loggedAt EXCEPT ![t] = clock]
    /\ UNCHANGED <<clock, open, headers, legs, at, kind, owner, newest, walk,
                   view>>

\* A posting that is rolled back shows in no listing but in this row, FAILURE.
\* (So does one that is refused before it begins.)
auditFailure(t) ==
    /\ t \in open
    /\ open' = open \ {t}
    /\ logged' = logged \cup {t}
    /\ loggedAt' = [loggedAt EXCEPT ![t] = clock]
    /\ UNCHANGED <<clock, headers, legs, at, kind, owner, newest, walk, view>>

Tick ==
    /\ clock < MaxTime /\ clock' = clock + 1
    /\ UNCHANGED <<open, headers, legs, at, kind, owner, logged, loggedAt,
                   newest, walk, view>>

-----------------------------------------------------------------------------
(* Query parameters *)

RawLimits == (-1 .. Cap + 1) \cup {Junk}

\* Mutant: more than the cap falls back to the default.
MutCapDefault(raw) ==
    IF raw = Junk \/ raw \notin 1 .. Cap THEN Default ELSE raw

parseLimit(raw) ==
    IF raw = Junk THEN Default
    ELSE IF raw <= 0 THEN Default ELSE IF raw > Cap THEN Cap ELSE raw

ParseOffset(raw) == IF raw = Junk THEN 0 ELSE IF raw > 0 THEN raw ELSE 0

-----------------------------------------------------------------------------
(* GET /api/transactions *)

OfKind(k) == {t \in headers : k = Junk \/ kind[t] = k}

\* Mutant: no tie-break, rows of one instant come now this way, now that way.
MutUnstable(t, u) ==
    at[t] > at[u] \/ (at[t] = at[u] /\ IF clock % 2 = 0 THEN t > u ELSE t < u)

\* ORDER BY created_at DESC, id DESC.
Precedes(t, u) == at[t] > at[u] \/ (at[t] = at[u] /\ t > u)

Before(t, k) == {u \in OfKind(k) : Precedes(u, t)}

\* LIMIT limit OFFSET off: the rows with at least off and less than off + limit
\* rows before them.  (A page is a set; its rows are in the order of Precedes.)
ListTransactions(limit, off, k) ==
    {t \in OfKind(k) : Cardinality(Before(t, k)) \in off .. off + limit - 1}

\* The handler's checks: a kind that is not known is refused.
Ask(raw, k) ==
    /\ "pages" \in Reads /\ phase = "idle"
    /\ IF k \in Kinds \cup {Junk}
       THEN /\ want' = [limit |-> parseLimit(raw), kind |-> k]
            /\ phase' = "headers"
            /\ offset' \in {Junk, -1} /\ seen' = {} /\ base' = OfKind(k)
       ELSE phase' = "refused" /\ UNCHANGED <<want, offset, seen, base>>
    /\ UNCHANGED <<writers, view, page, got>>

\* The headers of the page in one query ...
ReadHeaders ==
    /\ phase = "headers"
    /\ page' = ListTransactions(want.limit, ParseOffset(offset), want.kind)
    /\ got' = {}
    /\ phase' = "entries"
    /\ UNCHANGED <<writers, view, want, offset, seen, base>>

Unread == page \ {g.txn : g \in got}

\* ... and then the entries, one query per transaction, in the page's order.
ListEntries ==
    /\ phase = "entries"
    /\ \E t \in Unread :
          /\ \A u \in Unread \ {t} : Precedes(t, u)
          /\ got' = got \cup {[txn |-> t, entries |-> IF t \in legs THEN 2 ELSE 0]}
    /\ UNCHANGED <<writers, view, phase, want, offset, page, seen, base>>

\* The answer; the client goes on after the rows it has until there are none.
Answer ==
    /\ phase = "entries" /\ Unread = {}
    /\ seen' = seen \cup page
    /\ offset' = ParseOffset(offset) + Cardinality(page)
    /\ phase' = IF page = {} THEN "end" ELSE "headers"
    /\ UNCHANGED <<writers, view, want, page, got, base>>

Again ==
    /\ phase \in {"end", "refused"}
    /\ phase' = "idle" /\ page' = {} /\ got' = {} /\ seen' = {} /\ base' = {}
    /\ offset' = 0
    /\ UNCHANGED <<writers, view, want>>

-----------------------------------------------------------------------------
(* GET /api/accounts/{id}/transactions and .../audit *)

\* Mutant: ORDER BY created_at without DESC.
MutOldest(S, stamp, limit) ==
    {P \in SUBSET S : /\ Cardinality(P) <= limit
                      /\ Cardinality(P) = limit \/ P = S
                      /\ \A t \in P, u \in S \ P : stamp[t] <= stamp[u]}

\* ORDER BY created_at DESC LIMIT n, rows of one instant in any order.
Newest(S, stamp, limit) ==
    {P \in SUBSET S : /\ Cardinality(P) <= limit
                      /\ Cardinality(P) = limit \/ P = S
                      /\ \A t \in P, u \in S \ P : stamp[t] >= stamp[u]}

ListTransactionsForAccount(a, raw) ==
    /\ "history" \in Reads
    /\ \E P \in Newest({t \in headers : owner[t] = a}, at, parseLimit(raw)) :
          view' = [of |-> "history", account |-> a, rows |-> P,
                   asked |-> raw]
    /\ UNCHANGED <<writers, walk>>

ListAuditForAccount(a, raw) ==
    /\ "audit" \in Reads
    /\ \E P \in Newest({t \in logged : owner[t] = a}, loggedAt,
                       parseLimit(raw)) :
          view' = [of |-> "audit", account |-> a, rows |-> P,
                   asked |-> raw]
    /\ UNCHANGED <<writers, walk>>

-----------------------------------------------------------------------------
Init ==
    /\ clock = 0 /\ open = {} /\ headers = Seed /\ legs = Seed
    /\ at = [t \in Txn |-> 0]
    /\ kind = [t \in Txn |-> CHOOSE k \in Kinds : TRUE]
    /\ owner = [t \in Txn |-> CHOOSE a \in Account : TRUE]
    /\ logged = {} /\ loggedAt = [t \in Txn |-> 0]
    /\ newest = CHOOSE t \in Seed : \A u \in Seed : t >= u
    /\ phase = "idle" /\ want = [limit |-> Default, kind |-> Junk]
    /\ offset = 0 /\ page = {} /\ got = {} /\ seen = {} /\ base = {}
    /\ view = [of |-> "none", account |-> Junk, rows |-> {}, asked |-> Junk]

Next ==
    \/ \E t \in Txn : Begin(t) \/ Commit(t) \/ WriteAudit(t) \/ auditFailure(t)
    \/ Tick
    \/ \E raw \in RawLimits, k \in Kinds \cup {Junk, "BOGUS"} : Ask(raw, k)
    \/ ReadHeaders \/ ListEntries \/ Answer \/ Again
    \/ \E a \in Account, raw \in RawLimits :
          ListTransactionsForAccount(a, raw) \/ ListAuditForAccount(a, raw)

Spec == Init /\ [][Next]_vars

-----------------------------------------------------------------------------
(* Properties *)

\* Paging by offset never misses a row that was there when the client began:
\* concurrent commits only push it further down, wherever their created_at
\* puts them.  (Rows that commit meanwhile may be missed, or seen twice.)
NoRowSkipped == phase = "end" => base \subseteq seen

\* Every listed transaction carries both its entries, although they are read
\* by later queries, on other connections, than the header.
ListedWhole == \A g \in got : g.entries = 2

Stamp(t) == IF view'.of = "history" THEN at'[t] ELSE loggedAt'[t]
SameList == view'.of = view.of /\ view'.account = view.account

\* A row leaves the history or the audit log of an account only when the page
\* is full of rows at least as recent.
DisplacedByNewer ==
    [][SameList => \A t \in view.rows \ view'.rows :
          /\ Cardinality(view'.rows) = parseLimit(view'.asked)
          /\ \A u \in view'.rows : Stamp(u) >= Stamp(t)]_view

Asked(raw) == raw # Junk /\ raw \in Nat \ {0}

\* Who asks for more rows is not shown fewer: above the cap parseLimit clamps,
\* it does not fall back to the default.
MoreAskedMoreShown ==
    [][SameList /\ Asked(view.asked) /\ Asked(view'.asked)
         => \/ view'.asked < view.asked
            \/ Cardinality(view'.rows) >= Cardinality(view.rows)]_view

\* README.md, UI: after an operation the list is reset "to page 0 so the newest
\* transaction appears at the top".  An operation that waited for its row locks
\* is listed below every one that began after it.
NewestOnTop == \A t \in ListTransactions(1, 0, Junk) : at[t] = at[newest]
=============================================================================
