--------------------------- MODULE ListingProofs ----------------------------
(***************************************************************************)
(* A client that pages through the transactions misses none that was there *)
(* when it began, listed transactions are whole, and the account views     *)
(* lose rows to newer ones only: for any transactions, times and limits.   *)
(***************************************************************************)
EXTENDS Listing, FiniteSetTheorems, TLAPS

-----------------------------------------------------------------------------
(* The inductive invariant *)

\* The offset counts rows, and commits only add rows: whoever has not been
\* seen yet still has at least that many rows before them.
Ahead(t) == Cardinality(Before(t, want.kind))

WalkOK ==
    /\ want \in [limit : 1 .. Cap, kind : Kinds \cup {Junk}]
    /\ phase \in {"idle", "headers", "entries", "end", "refused"}
    /\ phase \in {"headers", "entries"} => ParseOffset(offset) \in Nat
    /\ base \subseteq OfKind(want.kind)
    /\ page \subseteq headers /\ IsFiniteSet(page)
    /\ \A g \in got : g.entries = 2
    /\ phase = "headers" =>
          \A t \in base \ seen : Ahead(t) >= ParseOffset(offset)
    /\ phase = "entries" =>
          /\ \A t \in base \ (seen \cup page) :
                Ahead(t) >= ParseOffset(offset) + Cardinality(page)
          /\ page = {} => base \subseteq seen
    /\ phase = "end" => base \subseteq seen

\* The rows a view may hold.
Owned(what, a) ==
    {t \in IF what = "history" THEN headers ELSE logged : owner[t] = a}

ViewOK ==
    /\ view.of \in {"none", "history", "audit"}
    /\ view.of = "none" => view.rows = {}
    /\ view.of # "none" => view.rows \subseteq Owned(view.of, view.account)
    /\ view.asked \in RawLimits
    /\ IsFiniteSet(view.rows)
    /\ Cardinality(view.rows) <= parseLimit(view.asked)

WritersOK ==
    /\ clock \in Int /\ open \subseteq Txn /\ headers \subseteq Txn
    /\ open \cap headers = {} /\ IsFiniteSet(headers)
    /\ headers \subseteq legs /\ logged \subseteq Txn /\ IsFiniteSet(logged)
    /\ at \in [Txn -> Int] /\ loggedAt \in [Txn -> Int]

LInv == WritersOK /\ WalkOK /\ ViewOK

-----------------------------------------------------------------------------
(* Ranks in a finite, strictly ordered set of rows *)

\* The rows of S before t, for created_at f: Precedes without the state.
Earlier(S, f, t) == {u \in S : f[u] > f[t] \/ (f[u] = f[t] /\ u > t)}

LEMMA RankLess ==
  ASSUME NEW S, IsFiniteSet(S), S \subseteq Int, NEW f, \A x \in S : f[x] \in Int,
         NEW t \in S, NEW u \in Earlier(S, f, t)
  PROVE  Cardinality(Earlier(S, f, u)) < Cardinality(Earlier(S, f, t))
<1>1. PICK A, B : A = Earlier(S, f, u) /\ B = Earlier(S, f, t)
  OBVIOUS
<1>2. u \in S /\ u \in B
  BY Zenon, <1>1 DEF Earlier
<1>3. A \subseteq B
  <2> SUFFICES ASSUME NEW x \in A PROVE x \in B
    OBVIOUS
  <2>1. x \in S /\ (f[x] > f[u] \/ (f[x] = f[u] /\ x > u))
    BY Zenon, <1>1 DEF Earlier
  <2>2. f[u] > f[t] \/ (f[u] = f[t] /\ u > t)
    BY Zenon DEF Earlier
  <2>3. /\ x \in Int /\ u \in Int /\ t \in Int
        /\ f[x] \in Int /\ f[u] \in Int /\ f[t] \in Int
    BY Zenon, <1>2, <2>1
  <2> QED
    BY <1>1, <2>1, <2>2, <2>3 DEF Earlier
<1>4. u \notin A
  BY <1>1, <1>2 DEF Earlier
<1>5. B \subseteq S
  BY Zenon, <1>1 DEF Earlier
<1>6. IsFiniteSet(B)
  BY Zenon, <1>5, FS_Subset
<1>7. /\ IsFiniteSet(A) /\ Cardinality(A) <= Cardinality(B)
      /\ Cardinality(B) = Cardinality(A) => B = A
  BY Zenon, <1>3, <1>6, FS_Subset
<1>8. Cardinality(A) \in Nat /\ Cardinality(B) \in Nat
  BY Zenon, <1>6, <1>7, FS_CardinalityType
<1> QED
  BY <1>1, <1>2, <1>4, <1>7, <1>8

LEMMA RankNat ==
  ASSUME NEW S, IsFiniteSet(S), NEW f, NEW t
  PROVE  IsFiniteSet(Earlier(S, f, t)) /\ Cardinality(Earlier(S, f, t)) \in Nat
<1>1. Earlier(S, f, t) \subseteq S
  BY Zenon DEF Earlier
<1>2. IsFiniteSet(Earlier(S, f, t))
  BY Zenon, <1>1, FS_Subset
<1> QED
  BY Zenon, <1>2, FS_CardinalityType

\* Two rows have different ranks: at most n of them have one of n ranks.
LEMMA PageFits ==
  ASSUME NEW S, IsFiniteSet(S), S \subseteq Int, NEW f, \A x \in S : f[x] \in Int,
         NEW o \in Nat, NEW n \in Nat, NEW P, P \subseteq S,
         \A t \in P : Cardinality(Earlier(S, f, t)) \in o .. o + n - 1
  PROVE  IsFiniteSet(P) /\ Cardinality(P) <= n
<1> DEFINE rank == [t \in P |-> Cardinality(Earlier(S, f, t))]
<1>1. rank \in [P -> o .. o + n - 1]
  OBVIOUS
<1>2. ASSUME NEW t \in P, NEW u \in P, rank[t] = rank[u] PROVE t = u
  <2>1. /\ t \in S /\ u \in S /\ t \in Int /\ u \in Int
        /\ f[t] \in Int /\ f[u] \in Int
    OBVIOUS
  <2>2. t = u \/ t \in Earlier(S, f, u) \/ u \in Earlier(S, f, t)
    BY <2>1 DEF Earlier
  <2>3. /\ Cardinality(Earlier(S, f, t)) \in Nat
        /\ Cardinality(Earlier(S, f, u)) \in Nat
    BY Zenon, RankNat
  <2>4. Cardinality(Earlier(S, f, t)) = Cardinality(Earlier(S, f, u))
    BY Zenon, <1>2
  <2>5. ~(Cardinality(Earlier(S, f, t)) < Cardinality(Earlier(S, f, u)))
    BY <2>3, <2>4
  <2>6. ~(Cardinality(Earlier(S, f, u)) < Cardinality(Earlier(S, f, t)))
    BY <2>3, <2>4
  <2>7. t \notin Earlier(S, f, u)
    BY Zenon, <2>1, <2>5, RankLess
  <2>8. u \notin Earlier(S, f, t)
    BY Zenon, <2>1, <2>6, RankLess
  <2> QED
    BY Zenon, <2>2, <2>7, <2>8
<1> PICK g : g = rank
  BY Zenon
<1>3. g \in Injection(P, o .. o + n - 1)
  BY <1>1, <1>2, Zenon DEF Injection, IsInjective
<1>4. IsFiniteSet(o .. o + n - 1) /\ Cardinality(o .. o + n - 1) = n
  <2>1. PICK x \in Int, y \in Int : x = o /\ y = o + n - 1
    OBVIOUS
  <2>2. IsFiniteSet(x .. y) /\ Cardinality(x .. y) = IF x > y THEN 0 ELSE y - x + 1
    BY Zenon, FS_Interval
  <2>3. (IF x > y THEN 0 ELSE y - x + 1) = n
    BY <2>1
  <2> QED
    BY Zenon, <2>1, <2>2, <2>3
<1>5. /\ IsFiniteSet(P)
      /\ Cardinality(P) <= Cardinality(o .. o + n - 1)
  BY <1>3, <1>4, FS_Injection
<1> QED
  BY Zenon, <1>4, <1>5

LEMMA LeastNat ==
  ASSUME NEW T, T \subseteq Nat, T # {}
  PROVE  \E x \in T : \A y \in T : x <= y
<1> DEFINE R == OpToRel(<, Nat)
<1>1. IsWellFoundedOn(R, Nat)
  BY Zenon, NatLessThanWellFounded
<1>2. \A x, y \in Nat : <<x, y>> \in R <=> x < y
  BY Zenon DEF OpToRel
<1> HIDE DEF R
<1>3. \E x \in T : \A y \in T : ~(<<y, x>> \in R)
  BY Zenon, <1>1, WFMin
<1>4. \A x \in T : x \in Nat
  OBVIOUS
<1>5. \A x, y \in T : ~(<<y, x>> \in R) => x <= y
  BY <1>2, <1>4
<1> QED
  BY Zenon, <1>3, <1>5

\* No rank is left out: if a row has at least o rows before it, one has o.
LEMMA RowAt ==
  ASSUME NEW S, IsFiniteSet(S), S \subseteq Int, NEW f, \A x \in S : f[x] \in Int,
         NEW o \in Nat, NEW t \in S, Cardinality(Earlier(S, f, t)) >= o
  PROVE  \E m \in S : Cardinality(Earlier(S, f, m)) = o
<1> DEFINE rank(x) == Cardinality(Earlier(S, f, x))
           T == {rank(x) : x \in {y \in S : rank(y) >= o}}
<1>1. \A x \in S : rank(x) \in Nat
  BY Zenon, RankNat
<1>2. T \subseteq Nat /\ T # {}
  BY Zenon, <1>1
<1>3. PICK z \in T : \A y \in T : z <= y
  BY Zenon, <1>2, LeastNat
<1>4. PICK m \in S : z = rank(m) /\ rank(m) >= o
  BY Zenon, <1>3
<1>5. PICK B : B = Earlier(S, f, m)
  OBVIOUS
<1>6. ASSUME NEW x \in B PROVE rank(x) \in 0 .. 0 + o - 1
  <2>1. x \in S
    BY Zenon, <1>5 DEF Earlier
  <2>2. rank(x) < rank(m)
    BY Zenon, <1>5, RankLess
  <2>3. rank(x) \in Nat /\ rank(m) \in Nat
    BY Zenon, <1>1, <2>1
  <2>4. ~(rank(x) >= o)
    <3>1. rank(x) >= o => rank(x) \in T
      BY Zenon, <2>1
    <3>2. rank(x) >= o => rank(m) <= rank(x)
      BY Zenon, <1>3, <1>4, <3>1
    <3> QED
      BY <2>2, <2>3, <3>2
  <2> QED
    BY <2>3, <2>4
<1>7. B \subseteq S
  BY Zenon, <1>5 DEF Earlier
<1>8. Cardinality(B) <= o
  <2>1. \A x \in B : Cardinality(Earlier(S, f, x)) \in 0 .. 0 + o - 1
    BY Zenon, <1>6
  <2> QED
    BY Zenon, <1>7, <2>1, PageFits
<1> QED
  BY <1>1, <1>4, <1>5, <1>8

-----------------------------------------------------------------------------
(* Pages while transactions begin and commit *)

LEMMA BeforeIs ==
  ASSUME NEW k, NEW t
  PROVE  Before(t, k) = Earlier(OfKind(k), at, t)
  BY Zenon DEF Before, Earlier, Precedes

LEMMA RowsOfKind ==
  ASSUME WritersOK, NEW k
  PROVE  /\ IsFiniteSet(OfKind(k)) /\ OfKind(k) \subseteq Int
         /\ \A x \in OfKind(k) : at[x] \in Int
         /\ OfKind(k) \subseteq headers
<1>1. OfKind(k) \subseteq headers
  BY Zenon DEF OfKind
<1> QED
  BY Zenon, <1>1, FS_Subset, ListingAssumption DEF WritersOK

\* A page holds at most limit rows, and is empty only past the last row.
LEMMA PageOf ==
  ASSUME WritersOK, NEW k, NEW o \in Nat, NEW n \in Nat \ {0},
         NEW P, P = ListTransactions(n, o, k)
  PROVE  /\ P \subseteq OfKind(k) /\ IsFiniteSet(P)
         /\ Cardinality(P) \in Nat /\ Cardinality(P) <= n
         /\ \A t \in OfKind(k) \ P :
               Cardinality(Before(t, k)) >= o
                  => Cardinality(Before(t, k)) >= o + Cardinality(P)
         /\ P = {} => \A t \in OfKind(k) : ~(Cardinality(Before(t, k)) >= o)
<1>1. PICK S, f : S = OfKind(k) /\ f = at
  OBVIOUS
<1>2. /\ IsFiniteSet(S) /\ S \subseteq Int /\ \A x \in S : f[x] \in Int
  BY Zenon, <1>1, RowsOfKind
<1>3. \A t : Before(t, k) = Earlier(S, f, t)
  BY Zenon, <1>1, BeforeIs
<1>4. P = {t \in S : Cardinality(Earlier(S, f, t)) \in o .. o + n - 1}
  BY Zenon, <1>1, <1>3 DEF ListTransactions
<1>5. P \subseteq S /\ \A t \in P : Cardinality(Earlier(S, f, t)) \in o .. o + n - 1
  BY Zenon, <1>4
<1>6. IsFiniteSet(P) /\ Cardinality(P) <= n
  BY Zenon, <1>2, <1>5, PageFits
<1>7. Cardinality(P) \in Nat
  BY Zenon, <1>6, FS_CardinalityType
<1>8. ASSUME NEW t \in S \ P, Cardinality(Earlier(S, f, t)) >= o
      PROVE  Cardinality(Earlier(S, f, t)) >= o + Cardinality(P)
  <2>1. Cardinality(Earlier(S, f, t)) \in Nat
    BY Zenon, <1>2, RankNat
  <2>2. Cardinality(Earlier(S, f, t)) \notin o .. o + n - 1
    BY Zenon, <1>4, <1>8
  <2> QED
    BY <1>6, <1>7, <1>8, <2>1, <2>2
<1>9. ASSUME P = {}, NEW t \in S, Cardinality(Earlier(S, f, t)) >= o
      PROVE  FALSE
  <2>1. PICK m \in S : Cardinality(Earlier(S, f, m)) = o
    BY Zenon, <1>2, <1>9, RowAt
  <2>2. o \in o .. o + n - 1
    OBVIOUS
  <2> QED
    BY Zenon, <1>4, <1>9, <2>1, <2>2
<1> QED
  BY Zenon, <1>1, <1>3, <1>5, <1>6, <1>7, <1>8, <1>9

\* Commits push a row of the walk further down, never up.
LEMMA WritersPush ==
  ASSUME LInv, WritersOK', UNCHANGED walk, headers \subseteq headers',
         \A t \in headers : at'[t] = at[t] /\ kind'[t] = kind[t]
  PROVE  WalkOK'
<1>1. UNCHANGED <<phase, want, offset, page, got, seen, base>>
  BY Zenon DEF walk
<1>2. PICK k : k = want.kind /\ k = want'.kind
  BY Zenon, <1>1
<1>3. OfKind(k) \subseteq OfKind(k)' /\ OfKind(k) \subseteq headers
  BY Zenon DEF OfKind
<1>4. base \subseteq OfKind(k)
  BY Zenon, <1>2 DEF LInv, WalkOK
<1>5. ASSUME NEW t \in base PROVE Ahead(t)' >= Ahead(t) /\ Ahead(t) \in Int
  <2>1. PICK A, B : A = Before(t, k) /\ B = Before(t, k)'
    OBVIOUS
  <2>2. A \subseteq B
    <3>1. t \in headers /\ at'[t] = at[t]
      BY Zenon, <1>3, <1>4
    <3>2. ASSUME NEW u \in A PROVE u \in B
      <4>1. u \in OfKind(k) /\ Precedes(u, t) /\ u \in headers /\ u \in OfKind(k)'
        BY Zenon, <1>3, <2>1 DEF Before
      <4>2. Precedes(u, t)'
        BY Zenon, <3>1, <4>1 DEF Precedes
      <4> QED
        BY Zenon, <2>1, <4>1, <4>2 DEF Before
    <3> QED
      BY Zenon, <3>2
  <2>3. IsFiniteSet(B)
    <3>1. B \subseteq headers'
      BY Zenon, <2>1 DEF Before, OfKind
    <3> QED
      BY Zenon, <3>1, FS_Subset DEF WritersOK
  <2>4. IsFiniteSet(A) /\ Cardinality(A) <= Cardinality(B)
    BY Zenon, <2>2, <2>3, FS_Subset
  <2>5. Cardinality(A) \in Nat /\ Cardinality(B) \in Nat
    BY Zenon, <2>3, <2>4, FS_CardinalityType
  <2>6. Ahead(t) = Cardinality(A) /\ Ahead(t)' = Cardinality(B)
    BY Zenon, <1>1, <1>2, <2>1 DEF Ahead
  <2> QED
    BY <2>4, <2>5, <2>6
<1>6. ASSUME NEW t \in base PROVE Ahead(t)' \in Int
  <2>1. Before(t, k)' \subseteq headers'
    BY Zenon DEF Before, OfKind
  <2>2. IsFiniteSet(Before(t, k)')
    BY Zenon, <2>1, FS_Subset DEF WritersOK
  <2>3. PICK B : B = Before(t, k)'
    OBVIOUS
  <2>4. Cardinality(B) \in Nat
    BY Zenon, <2>2, <2>3, FS_CardinalityType
  <2> QED
    BY <1>2, <2>3, <2>4 DEF Ahead
<1>7. phase = "headers" =>
        \A t \in base \ seen : Ahead(t)' >= ParseOffset(offset)
  <2> SUFFICES ASSUME phase = "headers", NEW t \in base \ seen
               PROVE  Ahead(t)' >= ParseOffset(offset)
    OBVIOUS
  <2>1. PICK o \in Nat : o = ParseOffset(offset)
    BY Zenon DEF LInv, WalkOK
  <2>2. Ahead(t) >= o
    BY Zenon, <2>1 DEF LInv, WalkOK
  <2> QED
    BY <1>5, <1>6, <2>1, <2>2
<1>8. phase = "entries" =>
        \A t \in base \ (seen \cup page) :
           Ahead(t)' >= ParseOffset(offset) + Cardinality(page)
  <2> SUFFICES ASSUME phase = "entries", NEW t \in base \ (seen \cup page)
               PROVE  Ahead(t)' >= ParseOffset(offset) + Cardinality(page)
    OBVIOUS
  <2>1. PICK o \in Nat : o = ParseOffset(offset)
    BY Zenon DEF LInv, WalkOK
  <2>2. PICK n \in Nat : n = Cardinality(page)
    BY Zenon, FS_CardinalityType DEF LInv, WalkOK
  <2>3. Ahead(t) >= o + n
    BY Zenon, <2>1, <2>2 DEF LInv, WalkOK
  <2> QED
    BY <1>5, <1>6, <2>1, <2>2, <2>3
<1>9. base' \subseteq OfKind(want.kind)' /\ page' \subseteq headers'
  BY Zenon, <1>1, <1>2, <1>3, <1>4 DEF LInv, WalkOK
<1>10. ParseOffset(offset)' = ParseOffset(offset)
  BY Zenon, <1>1
<1> QED
  BY Zenon, <1>1, <1>7, <1>8, <1>9, <1>10 DEF LInv, WalkOK

LEMMA WritersShow ==
  ASSUME LInv, UNCHANGED view, headers \subseteq headers',
         logged \subseteq logged',
         \A t \in headers \cup logged : owner'[t] = owner[t]
  PROVE  ViewOK'
<1>1. Owned(view.of, view.account) \subseteq Owned(view.of, view.account)'
  BY Zenon DEF Owned, LInv, WritersOK
<1> QED
  BY Zenon, <1>1 DEF LInv, ViewOK

LEMMA WriterStep ==
  ASSUME LInv, NEW t \in Txn,
         Begin(t) \/ Commit(t) \/ WriteAudit(t) \/ auditFailure(t)
  PROVE  LInv'
<1>1. CASE Begin(t)
  <2>1. WritersOK'
    BY Zenon, <1>1 DEF LInv, WritersOK, Begin
  <2>2. /\ UNCHANGED <<walk, view>> /\ headers' = headers /\ logged' = logged
        /\ \A u \in headers : at'[u] = at[u] /\ kind'[u] = kind[u]
        /\ \A u \in headers \cup logged : owner'[u] = owner[u]
    BY <1>1 DEF LInv, WritersOK, Begin
  <2> QED
    BY Zenon, <2>1, <2>2, WritersPush, WritersShow DEF LInv
<1>2. CASE Commit(t)
  <2>1. IsFiniteSet(headers')
    BY Zenon, <1>2, FS_AddElement DEF LInv, WritersOK, Commit
  <2>2. WritersOK'
    BY Zenon, <1>2, <2>1 DEF LInv, WritersOK, Commit
  <2>3. /\ UNCHANGED <<walk, view, at, kind, owner, logged>>
        /\ headers \subseteq headers'
    BY Zenon, <1>2 DEF Commit
  <2> QED
    BY Zenon, <2>2, <2>3, WritersPush, WritersShow DEF LInv
<1>3. CASE WriteAudit(t) \/ auditFailure(t)
  <2>1. WritersOK'
    <3>1. IsFiniteSet(logged) /\ logged' = logged \cup {t}
      BY Zenon, <1>3 DEF LInv, WritersOK, WriteAudit, auditFailure
    <3>2. IsFiniteSet(logged')
      BY Zenon, <3>1, FS_AddElement
    <3> QED
      BY Zenon, <1>3, <3>2 DEF LInv, WritersOK, WriteAudit, auditFailure
  <2>2. /\ UNCHANGED <<walk, view, at, kind, owner, headers>>
        /\ logged \subseteq logged'
    BY Zenon, <1>3 DEF WriteAudit, auditFailure
  <2> QED
    BY Zenon, <2>1, <2>2, WritersPush, WritersShow DEF LInv
<1> QED
  BY Zenon, <1>1, <1>2, <1>3

LEMMA TickStep ==
  ASSUME LInv, Tick \/ UNCHANGED vars
  PROVE  LInv'
<1>1. /\ UNCHANGED <<walk, view, at, kind, owner, headers, logged>>
      /\ WritersOK'
  BY DEF LInv, WritersOK, Tick, vars, writers
<1> QED
  BY Zenon, <1>1, WritersPush, WritersShow DEF LInv

-----------------------------------------------------------------------------
(* The walk through the pages *)

LEMMA LimitOf ==
  ASSUME NEW raw \in RawLimits
  PROVE  parseLimit(raw) \in 1 .. Cap
  BY ListingAssumption DEF parseLimit, RawLimits

LEMMA AskStep ==
  ASSUME LInv, NEW raw \in RawLimits, NEW k \in Kinds \cup {Junk, "BOGUS"},
         Ask(raw, k)
  PROVE  LInv'
<1>1. WritersOK' /\ ViewOK' /\ WritersOK
  BY Zenon DEF LInv, WritersOK, ViewOK, Ask, writers, Owned
<1>2. UNCHANGED <<headers, kind, at, page, got>>
  BY Zenon DEF Ask, writers
<1>3. CASE k \in Kinds \cup {Junk}
  <2>1. /\ want' = [limit |-> parseLimit(raw), kind |-> k] /\ phase' = "headers"
        /\ offset' \in {Junk, -1} /\ seen' = {} /\ base' = OfKind(k)
    BY Zenon, <1>3 DEF Ask
  <2>2. ParseOffset(offset)' = 0
    BY <2>1, ListingAssumption DEF ParseOffset
  <2>3. OfKind(want.kind)' = OfKind(k)
    BY Zenon, <1>2, <2>1 DEF OfKind
  <2>4. ASSUME NEW t PROVE Ahead(t)' >= 0
    <3>1. PICK B : B = Before(t, want.kind)'
      OBVIOUS
    <3>2. B \subseteq headers'
      BY Zenon, <3>1 DEF Before, OfKind
    <3>3. IsFiniteSet(B)
      BY Zenon, <1>1, <3>2, FS_Subset DEF WritersOK
    <3>4. Cardinality(B) \in Nat
      BY Zenon, <3>3, FS_CardinalityType
    <3> QED
      BY <3>1, <3>4 DEF Ahead
  <2>5. want' \in [limit : 1 .. Cap, kind : Kinds \cup {Junk}]
    BY Zenon, <1>3, <2>1, LimitOf
  <2>6. page' \subseteq headers' /\ IsFiniteSet(page') /\ \A g \in got' : g.entries = 2
    BY Zenon, <1>2 DEF LInv, WalkOK
  <2>7. WalkOK'
    BY <2>1, <2>2, <2>3, <2>4, <2>5, <2>6 DEF WalkOK
  <2> QED
    BY Zenon, <1>1, <2>7 DEF LInv
<1>4. CASE k \notin Kinds \cup {Junk}
  <2>1. phase' = "refused" /\ UNCHANGED <<want, offset, seen, base>>
    BY Zenon, <1>4 DEF Ask
  <2>2. OfKind(want.kind)' = OfKind(want.kind)
    BY Zenon, <1>2, <2>1 DEF OfKind
  <2>3. WalkOK'
    BY Zenon, <1>2, <2>1, <2>2 DEF LInv, WalkOK
  <2> QED
    BY Zenon, <1>1, <2>3 DEF LInv
<1> QED
  BY Zenon, <1>3, <1>4

\* What reading, answering and starting again leave alone.
LEMMA ReadersKeep ==
  ASSUME LInv, UNCHANGED <<writers, view, want>>
  PROVE  /\ WritersOK' /\ ViewOK' /\ headers' = headers
         /\ OfKind(want.kind)' = OfKind(want.kind)
         /\ \A t : Ahead(t)' = Ahead(t)
<1>1. UNCHANGED <<headers, kind, at, logged, owner>>
  BY Zenon DEF writers
<1>2. WritersOK' /\ ViewOK'
  BY Zenon DEF LInv, WritersOK, ViewOK, writers, Owned
<1>3. OfKind(want.kind)' = OfKind(want.kind)
  BY Zenon, <1>1 DEF OfKind
<1>4. \A t : Before(t, want.kind)' = Before(t, want.kind)
  BY Zenon, <1>1, <1>3 DEF Before, Precedes
<1> QED
  BY Zenon, <1>1, <1>2, <1>3, <1>4 DEF Ahead

LEMMA ReadHeadersStep ==
  ASSUME LInv, ReadHeaders
  PROVE  LInv'
<1>1. /\ WritersOK' /\ ViewOK' /\ headers' = headers
      /\ OfKind(want.kind)' = OfKind(want.kind)
      /\ \A t : Ahead(t)' = Ahead(t)
  BY Zenon, ReadersKeep DEF ReadHeaders
<1>2. /\ UNCHANGED <<want, offset, seen, base>> /\ got' = {}
      /\ phase = "headers" /\ phase' = "entries"
  BY Zenon DEF ReadHeaders
<1>3. PICK o \in Nat : o = ParseOffset(offset)
  BY Zenon, <1>2 DEF LInv, WalkOK
<1>4. PICK n \in Nat \ {0} : n = want.limit
  BY ListingAssumption DEF LInv, WalkOK
<1>5. PICK k, P : k = want.kind /\ P = page'
  OBVIOUS
<1>6. P = ListTransactions(n, o, k)
  BY Zenon, <1>3, <1>4, <1>5 DEF ReadHeaders
<1>7. /\ P \subseteq OfKind(k) /\ IsFiniteSet(P)
      /\ \A t \in OfKind(k) \ P :
            Cardinality(Before(t, k)) >= o
               => Cardinality(Before(t, k)) >= o + Cardinality(P)
      /\ P = {} => \A t \in OfKind(k) : ~(Cardinality(Before(t, k)) >= o)
  BY Zenon, <1>6, PageOf DEF LInv
<1>8. base \subseteq OfKind(k) /\ \A t \in base \ seen : Ahead(t) >= o
  BY Zenon, <1>2, <1>3, <1>5 DEF LInv, WalkOK
<1>9. \A t : Ahead(t) = Cardinality(Before(t, k))
  BY Zenon, <1>5 DEF Ahead
<1>10. /\ \A t \in base \ (seen \cup P) : Ahead(t) >= o + Cardinality(P)
       /\ P = {} => base \subseteq seen
  BY Zenon, <1>7, <1>8, <1>9
<1>11. P \subseteq headers
  BY Zenon, <1>7 DEF OfKind
<1>12. ParseOffset(offset)' = o /\ ParseOffset(offset)' \in Nat
  BY Zenon, <1>2, <1>3
<1>13. WalkOK'
  BY Zenon, <1>1, <1>2, <1>5, <1>7, <1>8, <1>10, <1>11, <1>12 DEF LInv, WalkOK
<1> QED
  BY Zenon, <1>1, <1>13 DEF LInv

LEMMA ListEntriesStep ==
  ASSUME LInv, ListEntries
  PROVE  LInv'
<1>1. /\ WritersOK' /\ ViewOK' /\ headers' = headers
      /\ OfKind(want.kind)' = OfKind(want.kind)
      /\ \A t : Ahead(t)' = Ahead(t)
  BY Zenon, ReadersKeep DEF ListEntries
<1>2. UNCHANGED <<phase, want, offset, page, seen, base>>
  BY Zenon DEF ListEntries
<1>3. \A g \in got' : g.entries = 2
  <2>1. PICK t \in Unread :
           got' = got \cup {[txn |-> t, entries |-> IF t \in legs THEN 2 ELSE 0]}
    BY Zenon DEF ListEntries
  <2>2. t \in legs
    BY Zenon DEF Unread, LInv, WalkOK, WritersOK
  <2> QED
    BY <2>1, <2>2 DEF LInv, WalkOK
<1>4. ParseOffset(offset)' = ParseOffset(offset)
  BY Zenon, <1>2
<1>5. WalkOK'
  BY Zenon, <1>1, <1>2, <1>3, <1>4 DEF LInv, WalkOK
<1> QED
  BY Zenon, <1>1, <1>5 DEF LInv

LEMMA AnswerStep ==
  ASSUME LInv, Answer
  PROVE  LInv'
<1>1. /\ WritersOK' /\ ViewOK' /\ headers' = headers
      /\ OfKind(want.kind)' = OfKind(want.kind)
      /\ \A t : Ahead(t)' = Ahead(t)
  BY Zenon, ReadersKeep DEF Answer
<1>2. /\ UNCHANGED <<want, page, got, base>> /\ phase = "entries"
      /\ seen' = seen \cup page
      /\ phase' = IF page = {} THEN "end" ELSE "headers"
  BY Zenon DEF Answer
<1>3. PICK o \in Nat : o = ParseOffset(offset)
  BY Zenon, <1>2 DEF LInv, WalkOK
<1>4. PICK n \in Nat : n = Cardinality(page)
  BY Zenon, FS_CardinalityType DEF LInv, WalkOK
<1>5. ParseOffset(offset)' = o + n
  <2>1. offset' = o + n
    BY Zenon, <1>3, <1>4 DEF Answer
  <2>2. o + n \in Nat /\ o + n # Junk
    BY ListingAssumption
  <2> QED
    BY <2>1, <2>2 DEF ParseOffset
<1>6. /\ \A t \in base \ (seen \cup page) : Ahead(t) >= o + n
      /\ page = {} => base \subseteq seen
  BY Zenon, <1>2, <1>3, <1>4 DEF LInv, WalkOK
<1>7. WalkOK'
  BY <1>1, <1>2, <1>5, <1>6 DEF LInv, WalkOK
<1> QED
  BY Zenon, <1>1, <1>7 DEF LInv

LEMMA AgainStep ==
  ASSUME LInv, Again
  PROVE  LInv'
<1>1. WritersOK' /\ ViewOK'
  BY Zenon, ReadersKeep DEF Again
<1>2. /\ phase' = "idle" /\ page' = {} /\ got' = {} /\ base' = {} /\ want' = want
  BY Zenon DEF Again
<1>3. IsFiniteSet({})
  BY Zenon, FS_EmptySet
<1>4. WalkOK'
  BY Zenon, <1>2, <1>3 DEF LInv, WalkOK
<1> QED
  BY Zenon, <1>1, <1>4 DEF LInv

-----------------------------------------------------------------------------
(* The views of an account *)

LEMMA NewestOf ==
  ASSUME NEW S, IsFiniteSet(S), NEW stamp, NEW n \in Nat,
         NEW P \in Newest(S, stamp, n)
  PROVE  /\ P \subseteq S /\ IsFiniteSet(P) /\ Cardinality(P) \in Nat
         /\ Cardinality(P) <= n /\ (Cardinality(P) = n \/ P = S)
         /\ \A t \in P, u \in S \ P : stamp[t] >= stamp[u]
<1>1. P \subseteq S
  BY Zenon DEF Newest
<1>2. IsFiniteSet(P)
  BY Zenon, <1>1, FS_Subset
<1>3. Cardinality(P) \in Nat
  BY Zenon, <1>2, FS_CardinalityType
<1> QED
  BY Zenon, <1>1, <1>2, <1>3 DEF Newest

\* What a view shows after a step that reads it.
Read(what, a, raw, P) ==
    /\ view' = [of |-> what, account |-> a, rows |-> P, asked |-> raw]
    /\ P \in Newest(Owned(what, a),
                    IF what = "history" THEN at ELSE loggedAt, parseLimit(raw))
    /\ UNCHANGED <<writers, walk>>

LEMMA OwnedFinite ==
  ASSUME WritersOK, NEW what, NEW a
  PROVE  IsFiniteSet(Owned(what, a))
<1>1. Owned(what, a) \subseteq headers \/ Owned(what, a) \subseteq logged
  BY Zenon DEF Owned
<1> QED
  BY Zenon, <1>1, FS_Subset DEF WritersOK

LEMMA ViewReads ==
  ASSUME NEW a \in Account, NEW raw \in RawLimits,
         ListTransactionsForAccount(a, raw) \/ ListAuditForAccount(a, raw)
  PROVE  \E what \in {"history", "audit"} : \E P : Read(what, a, raw, P)
<1>1. CASE ListTransactionsForAccount(a, raw)
  <2>1. PICK P \in Newest({t \in headers : owner[t] = a}, at, parseLimit(raw)) :
           view' = [of |-> "history", account |-> a, rows |-> P, asked |-> raw]
    BY Zenon, <1>1 DEF ListTransactionsForAccount
  <2>2. {t \in headers : owner[t] = a} = Owned("history", a)
    BY Zenon DEF Owned
  <2>3. Read("history", a, raw, P)
    BY Zenon, <1>1, <2>1, <2>2 DEF Read, ListTransactionsForAccount
  <2> QED
    BY Zenon, <2>3
<1>2. CASE ListAuditForAccount(a, raw)
  <2>1. PICK P \in Newest({t \in logged : owner[t] = a}, loggedAt,
                          parseLimit(raw)) :
           view' = [of |-> "audit", account |-> a, rows |-> P, asked |-> raw]
    BY Zenon, <1>2 DEF ListAuditForAccount
  <2>2. {t \in logged : owner[t] = a} = Owned("audit", a)
    BY Zenon DEF Owned
  <2>3. Read("audit", a, raw, P)
    BY Zenon, <1>2, <2>1, <2>2 DEF Read, ListAuditForAccount
  <2> QED
    BY Zenon, <2>3
<1> QED
  BY Zenon, <1>1, <1>2

LEMMA ReadStep ==
  ASSUME LInv, NEW what \in {"history", "audit"}, NEW a \in Account,
         NEW raw \in RawLimits, NEW P, Read(what, a, raw, P)
  PROVE  LInv'
<1>1. UNCHANGED <<walk, at, kind, owner, headers, logged>> /\ WritersOK'
  BY Zenon DEF LInv, WritersOK, Read, writers
<1>2. WalkOK'
  BY Zenon, <1>1, WritersPush
<1>3. parseLimit(raw) \in Nat
  BY LimitOf, ListingAssumption
<1>4. P \subseteq Owned(what, a) /\ IsFiniteSet(P) /\ Cardinality(P) <= parseLimit(raw)
  BY Zenon, <1>3, OwnedFinite, NewestOf DEF LInv, Read
<1>5. Owned(what, a)' = Owned(what, a)
  BY Zenon, <1>1 DEF Owned
<1>6. /\ view'.of = what /\ view'.account = a /\ view'.rows = P /\ view'.asked = raw
  BY Zenon DEF Read
<1>7. ViewOK'
  BY Zenon, <1>4, <1>5, <1>6 DEF ViewOK
<1> QED
  BY Zenon, <1>1, <1>2, <1>7 DEF LInv

-----------------------------------------------------------------------------
(* Every step keeps the invariant *)

LEMMA InitLInv ==
  ASSUME Init
  PROVE  LInv
<1>1. /\ clock = 0 /\ open = {} /\ headers = Seed /\ legs = Seed /\ logged = {}
      /\ at = [t \in Txn |-> 0] /\ loggedAt = [t \in Txn |-> 0]
  BY Zenon DEF Init
<1>2. at \in [Txn -> Int] /\ loggedAt \in [Txn -> Int]
  BY <1>1
<1>3. IsFiniteSet({}) /\ Cardinality({}) = 0
  BY Zenon, FS_EmptySet
<1>4. WritersOK
  BY Zenon, <1>1, <1>2, <1>3, ListingAssumption DEF WritersOK
<1>5. want = [limit |-> Default, kind |-> Junk] /\ Default \in 1 .. Cap
  BY Zenon, ListingAssumption DEF Init
<1>6. WalkOK
  BY <1>3, <1>5 DEF Init, WalkOK
<1>7. Junk \in RawLimits /\ parseLimit(Junk) >= 0
  BY ListingAssumption DEF RawLimits, parseLimit
<1>8. /\ view.of = "none" /\ view.rows = {} /\ view.asked = Junk
  BY Zenon DEF Init
<1>9. ViewOK
  BY Zenon, <1>3, <1>7, <1>8 DEF ViewOK
<1> QED
  BY Zenon, <1>4, <1>6, <1>9 DEF LInv

LEMMA StutterLInv ==
  ASSUME LInv, UNCHANGED vars
  PROVE  LInv'
<1>1. UNCHANGED <<writers, walk, view>>
  BY Zenon DEF vars
<1>2. WritersOK'
  BY Zenon, <1>1 DEF LInv, WritersOK, writers
<1>3. ViewOK'
  BY Zenon, <1>1 DEF LInv, ViewOK, Owned, writers
<1>4. UNCHANGED <<walk, at, kind, headers>>
  BY Zenon, <1>1 DEF writers
<1>5. WalkOK'
  BY Zenon, <1>2, <1>4, WritersPush
<1> QED
  BY Zenon, <1>2, <1>3, <1>5 DEF LInv

LEMMA NextLInv ==
  ASSUME LInv, [Next]_vars
  PROVE  LInv'
<1>1. ASSUME NEW t \in Txn,
             Begin(t) \/ Commit(t) \/ WriteAudit(t) \/ auditFailure(t)
      PROVE  LInv'
  BY Zenon, <1>1, WriterStep
<1>2. CASE Tick
  BY Zenon, <1>2, TickStep
<1>3. ASSUME NEW raw \in RawLimits, NEW k \in Kinds \cup {Junk, "BOGUS"},
             Ask(raw, k)
      PROVE  LInv'
  BY Zenon, <1>3, AskStep
<1>4. CASE ReadHeaders
  BY Zenon, <1>4, ReadHeadersStep
<1>5. CASE ListEntries
  BY Zenon, <1>5, ListEntriesStep
<1>6. CASE Answer
  BY Zenon, <1>6, AnswerStep
<1>7. CASE Again
  BY Zenon, <1>7, AgainStep
<1>8. ASSUME NEW a \in Account, NEW raw \in RawLimits,
             ListTransactionsForAccount(a, raw) \/ ListAuditForAccount(a, raw)
      PROVE  LInv'
  BY Zenon, <1>8, ViewReads, ReadStep
<1>9. CASE UNCHANGED vars
  BY Zenon, <1>9, StutterLInv
<1> QED
  BY Zenon, <1>1, <1>2, <1>3, <1>4, <1>5, <1>6, <1>7, <1>8, <1>9 DEF Next

\* LInv holds in every state of Listing: whatever commits while a client reads
\* its pages, the rows it has not seen stay at or after its offset.
THEOREM ListingInductive == Spec => []LInv
<1>1. Init => LInv
  BY Zenon, InitLInv
<1>2. LInv /\ [Next]_vars => LInv'
  BY Zenon, NextLInv
<1> QED
  BY <1>1, <1>2, PTL DEF Spec

\* A client that pages through ListTransactions by LIMIT and OFFSET until an
\* empty page has seen every transaction that was there when it began.
THEOREM PagingComplete == Spec => []NoRowSkipped
<1>1. LInv => NoRowSkipped
  BY Zenon DEF LInv, WalkOK, NoRowSkipped
<1> QED
  BY <1>1, ListingInductive, PTL

\* The handler's later queries find both entries of every header it listed.
THEOREM ListingWhole == Spec => []ListedWhole
<1>1. LInv => ListedWhole
  BY Zenon DEF LInv, WalkOK, ListedWhole
<1> QED
  BY <1>1, ListingInductive, PTL

-----------------------------------------------------------------------------
(* What a second reading of an account shows *)

\* Only the two reading actions change the view.
LEMMA ViewChanges ==
  ASSUME [Next]_vars, view' # view
  PROVE  \E a \in Account, raw \in RawLimits :
            \E what \in {"history", "audit"} : \E P : Read(what, a, raw, P)
<1>1. \A t \in Txn : Begin(t) \/ Commit(t) \/ WriteAudit(t) \/ auditFailure(t)
                     => view' = view
  BY Zenon DEF Begin, Commit, WriteAudit, auditFailure
<1>2. Tick \/ ReadHeaders \/ ListEntries \/ Answer \/ Again => view' = view
  BY Zenon DEF Tick, ReadHeaders, ListEntries, Answer, Again
<1>3. \A raw \in RawLimits, k \in Kinds \cup {Junk, "BOGUS"} :
         Ask(raw, k) => view' = view
  BY Zenon DEF Ask
<1>4. UNCHANGED vars => view' = view
  BY Zenon DEF vars
<1>5. PICK a \in Account, raw \in RawLimits :
         ListTransactionsForAccount(a, raw) \/ ListAuditForAccount(a, raw)
  BY Zenon, <1>1, <1>2, <1>3, <1>4 DEF Next
<1> QED
  BY Zenon, <1>5, ViewReads

\* The second of two readings of one list: what was shown is still owned, and
\* what is shown now are the newest rows of what is owned.
LEMMA SecondReading ==
  ASSUME LInv, [Next]_vars, view' # view, SameList
  PROVE  \E raw \in RawLimits : \E S, P :
            /\ view'.rows = P /\ view'.asked = raw
            /\ view.rows \subseteq S /\ P \subseteq S /\ IsFiniteSet(P)
            /\ Cardinality(P) \in Nat
            /\ Cardinality(P) = parseLimit(raw) \/ P = S
            /\ \A u \in P, t \in S \ P : Stamp(u) >= Stamp(t)
<1>1. PICK a \in Account, raw \in RawLimits, what \in {"history", "audit"} :
         \E P : Read(what, a, raw, P)
  BY Zenon, ViewChanges
<1>2. PICK P : Read(what, a, raw, P)
  BY Zenon, <1>1
<1>3. /\ view'.of = what /\ view'.account = a /\ view'.rows = P
      /\ view'.asked = raw
  BY Zenon, <1>2 DEF Read
<1>4. view.of = what /\ view.account = a
  BY Zenon, <1>3 DEF SameList
<1>5. view.rows \subseteq Owned(what, a)
  BY Zenon, <1>4 DEF LInv, ViewOK
<1>6. PICK S, f : S = Owned(what, a) /\ f = IF what = "history" THEN at ELSE loggedAt
  OBVIOUS
<1>7. parseLimit(raw) \in Nat /\ IsFiniteSet(S)
  BY <1>6, LimitOf, OwnedFinite, ListingAssumption DEF LInv
<1>8. P \in Newest(S, f, parseLimit(raw))
  BY Zenon, <1>2, <1>6 DEF Read
<1>9. /\ P \subseteq S /\ IsFiniteSet(P) /\ Cardinality(P) \in Nat
      /\ (Cardinality(P) = parseLimit(raw) \/ P = S)
      /\ \A t \in P, u \in S \ P : f[t] >= f[u]
  BY <1>7, <1>8, NewestOf
<1>10. at' = at /\ loggedAt' = loggedAt
  BY Zenon, <1>2 DEF Read, writers
<1>11. \A t : Stamp(t) = f[t]
  BY Zenon, <1>3, <1>6, <1>10 DEF Stamp
<1>12. /\ view'.rows = P /\ view'.asked = raw
       /\ view.rows \subseteq S /\ P \subseteq S /\ IsFiniteSet(P)
       /\ Cardinality(P) \in Nat
       /\ Cardinality(P) = parseLimit(raw) \/ P = S
       /\ \A u \in P, t \in S \ P : Stamp(u) >= Stamp(t)
  BY Zenon, <1>3, <1>5, <1>6, <1>9, <1>11
<1> QED
  BY Zenon, <1>12

\* A row leaves an account's history or audit log only for a full page of rows
\* that are at least as recent, whatever limits are asked for.
THEOREM RowsDisplaced == Spec => DisplacedByNewer
<1>1. ASSUME LInv, [Next]_vars
      PROVE  [SameList => \A t \in view.rows \ view'.rows :
                 /\ Cardinality(view'.rows) = parseLimit(view'.asked)
                 /\ \A u \in view'.rows : Stamp(u) >= Stamp(t)]_view
  <2>1. SUFFICES ASSUME view' # view, SameList, NEW t \in view.rows \ view'.rows
                 PROVE  /\ Cardinality(view'.rows) = parseLimit(view'.asked)
                        /\ \A u \in view'.rows : Stamp(u) >= Stamp(t)
    OBVIOUS
  <2>2. PICK raw \in RawLimits : \E S, P :
            /\ view'.rows = P /\ view'.asked = raw
            /\ view.rows \subseteq S
            /\ Cardinality(P) = parseLimit(raw) \/ P = S
            /\ \A u \in P, v \in S \ P : Stamp(u) >= Stamp(v)
    BY Zenon, <1>1, <2>1, SecondReading
  <2>3. PICK S, P :
            /\ view'.rows = P /\ view'.asked = raw
            /\ view.rows \subseteq S
            /\ Cardinality(P) = parseLimit(raw) \/ P = S
            /\ \A u \in P, v \in S \ P : Stamp(u) >= Stamp(v)
    BY Zenon, <2>2
  <2>4. t \in S \ P
    BY Zenon, <2>3
  <2> QED
    BY Zenon, <2>3, <2>4
<1> QED
  BY <1>1, ListingInductive, PTL DEF Spec, DisplacedByNewer

LEMMA LimitGrows ==
  ASSUME NEW r \in RawLimits, NEW s \in RawLimits, Asked(r), Asked(s), ~(s < r)
  PROVE  parseLimit(s) >= parseLimit(r)
  BY ListingAssumption DEF parseLimit, RawLimits, Asked

\* Whoever asks for at least as many rows as before is shown at least as many:
\* the lists only grow and parseLimit is monotone, above its cap too.
THEOREM MoreIsShown == Spec => MoreAskedMoreShown
<1>1. ASSUME LInv, [Next]_vars
      PROVE  [SameList /\ Asked(view.asked) /\ Asked(view'.asked)
                => \/ view'.asked < view.asked
                   \/ Cardinality(view'.rows) >= Cardinality(view.rows)]_view
  <2>1. SUFFICES ASSUME view' # view, SameList, Asked(view.asked),
                        Asked(view'.asked), ~(view'.asked < view.asked)
                 PROVE  Cardinality(view'.rows) >= Cardinality(view.rows)
    OBVIOUS
  <2>2. PICK raw \in RawLimits : \E S, P :
            /\ view'.rows = P /\ view'.asked = raw
            /\ view.rows \subseteq S /\ IsFiniteSet(P) /\ Cardinality(P) \in Nat
            /\ Cardinality(P) = parseLimit(raw) \/ P = S
    BY Zenon, <1>1, <2>1, SecondReading
  <2>3. PICK S, P :
            /\ view'.rows = P /\ view'.asked = raw
            /\ view.rows \subseteq S /\ IsFiniteSet(P) /\ Cardinality(P) \in Nat
            /\ Cardinality(P) = parseLimit(raw) \/ P = S
    BY Zenon, <2>2
  <2>4. PICK r \in RawLimits : r = view.asked
    BY Zenon, <1>1 DEF LInv, ViewOK
  <2>5. PICK Q : Q = view.rows
    BY Zenon, <1>1 DEF LInv, ViewOK
  <2>6. Q \subseteq S /\ IsFiniteSet(Q) /\ Cardinality(Q) <= parseLimit(r)
    BY Zenon, <1>1, <2>3, <2>4, <2>5 DEF LInv, ViewOK
  <2>7. Cardinality(Q) \in Nat
    BY Zenon, <2>6, FS_CardinalityType
  <2>8. parseLimit(raw) >= parseLimit(r) /\ parseLimit(raw) \in Nat
        /\ parseLimit(r) \in Nat
    BY <2>1, <2>3, <2>4, LimitGrows, LimitOf, ListingAssumption
  <2>9. CASE P = S
    <3>1. Cardinality(Q) <= Cardinality(P)
      BY Zenon, <2>3, <2>6, <2>9, FS_Subset
    <3> QED
      BY Zenon, <2>3, <2>7, <2>5, <3>1
  <2>10. CASE Cardinality(P) = parseLimit(raw)
    BY <2>3, <2>6, <2>7, <2>8, <2>10, <2>5
  <2> QED
    BY Zenon, <2>3, <2>9, <2>10
<1> QED
  BY <1>1, ListingInductive, PTL DEF Spec, MoreAskedMoreShown
=============================================================================
