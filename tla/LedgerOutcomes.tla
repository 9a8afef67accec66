--------------------------- MODULE LedgerOutcomes ---------------------------
(***************************************************************************)
(* The outcomes of the calls: what a COMMIT does to the books, that the    *)
(* callers and the audit log are told the truth about it, and that waiting *)
(* transactions never wait for each other in a circle.                     *)
(***************************************************************************)
EXTENDS LedgerInvariant, FiniteSetTheorems, TLAPS

-----------------------------------------------------------------------------
(* Sums of entry amounts *)

\* The units of one more row are disjoint from the others': a SUM(amount)
\* over entries grows by the amount of the row added.
LEMMA TotalAdd ==
  ASSUME NEW S, IsFiniteSet(Units(S)), NEW e, e \notin S, e.amount \in Nat
  PROVE  /\ IsFiniteSet(Units(S \cup {e}))
         /\ Total(S \cup {e}) = Total(S) + e.amount
<1>1. PICK n \in Nat : n = e.amount
  OBVIOUS
<1> DEFINE U == {e} \X (1 .. n)
<1>2. Units(S \cup {e}) = Units(S) \cup U
  BY Zenon, <1>1 DEF Units
<1>3. Units(S) \cap U = {}
  BY DEF Units
<1>4. IsFiniteSet({e}) /\ Cardinality({e}) = 1
  BY Zenon, FS_Singleton
<1>5. IsFiniteSet(1 .. n) /\ Cardinality(1 .. n) = n
  BY FS_Interval, SMTT(30)
<1>6. IsFiniteSet(U) /\ Cardinality(U) = n
  <2>1. IsFiniteSet(U) /\ Cardinality(U) = Cardinality({e}) * Cardinality(1 .. n)
    BY Zenon, <1>4, <1>5, FS_Product
  <2> QED BY <2>1, <1>4, <1>5
<1>7. /\ IsFiniteSet(Units(S) \cup U)
      /\ Cardinality(Units(S) \cup U)
           = Cardinality(Units(S)) + Cardinality(U) - Cardinality(Units(S) \cap U)
  BY Zenon, <1>6, FS_Union
<1>8. Cardinality(Units(S)) \in Nat
  BY Zenon, FS_CardinalityType
<1>9. Cardinality(Units(S) \cap U) = 0
  BY Zenon, <1>3, FS_EmptySet
<1>10. /\ IsFiniteSet(Units(S \cup {e}))
      /\ Cardinality(Units(S \cup {e})) = Cardinality(Units(S)) + n
  <2> HIDE DEF U
  <2>1. Cardinality(Units(S) \cup U) = Cardinality(Units(S)) + n
    BY <1>6, <1>7, <1>8, <1>9
  <2> QED BY <1>2, <1>7, <2>1, Zenon
<1> QED
  BY Zenon, <1>1, <1>10 DEF Total

\* Totals of a part of a table are natural numbers when the table is finite.
LEMMA TotalPart ==
  ASSUME NEW S, IsFiniteSet(Units(S)), NEW T \in SUBSET S
  PROVE  IsFiniteSet(Units(T)) /\ Total(T) \in Nat
<1>1. Units(T) \in SUBSET Units(S)
  BY Zenon DEF Units
<1> QED
  BY Zenon, <1>1, FS_Subset, FS_CardinalityType DEF Total

LEMMA TotalEmpty == IsFiniteSet(Units({})) /\ Total({}) = 0
<1>1. Units({}) = {}
  BY Zenon DEF Units
<1> QED
  BY Zenon, <1>1, FS_EmptySet DEF Total

LEMMA TotalOne ==
  ASSUME NEW e, e.amount \in Nat
  PROVE  IsFiniteSet(Units({e})) /\ Total({e}) = e.amount
<1>1. /\ IsFiniteSet(Units({} \cup {e}))
      /\ Total({} \cup {e}) = Total({}) + e.amount
  BY Zenon, TotalEmpty, TotalAdd
<1>2. {} \cup {e} = {e}
  OBVIOUS
<1> QED
  BY <1>1, <1>2, TotalEmpty

\* One row of the same amount per seed: the total is a product.
LEMMA TotalSeeds ==
  ASSUME NEW f \in [Seed -> EntryRow],
         \A s \in Seed : f[s].tx = s /\ f[s].amount = SeedAmount
  PROVE  LET R == {f[s] : s \in Seed}
         IN  /\ IsFiniteSet(Units(R))
             /\ Total(R) = SeedAmount * Cardinality(Seed)
<1> DEFINE P == Seed \X (1 .. SeedAmount)
           R == {f[s] : s \in Seed}
           g == [p \in P |-> <<f[p[1]], p[2]>>]
<1>1. SeedAmount \in Nat /\ IsFiniteSet(Seed) /\ Cardinality(Seed) \in Nat
  BY Zenon, SeedAssumption, FS_CardinalityType
<1>2. IsFiniteSet(1 .. SeedAmount) /\ Cardinality(1 .. SeedAmount) = SeedAmount
  BY <1>1, FS_Interval, SMTT(30)
<1>3. IsFiniteSet(P) /\ Cardinality(P) = Cardinality(Seed) * SeedAmount
  <2>1. /\ IsFiniteSet(P)
        /\ Cardinality(P) = Cardinality(Seed) * Cardinality(1 .. SeedAmount)
    BY Zenon, <1>1, <1>2, FS_Product
  <2> QED BY Zenon, <2>1, <1>2
<1>4. Units(R) = {<<f[p[1]], p[2]>> : p \in P}
  <2>1. ASSUME NEW u \in Units(R)
        PROVE  u \in {<<f[p[1]], p[2]>> : p \in P}
    <3>1. PICK s \in Seed : u \in {f[s]} \X (1 .. f[s].amount)
      BY Zenon, <2>1 DEF Units
    <3>2. PICK i \in 1 .. SeedAmount : u = <<f[s], i>>
      BY <3>1
    <3>3. <<s, i>> \in P
      OBVIOUS
    <3> QED BY <3>2, <3>3
  <2>2. ASSUME NEW p \in P
        PROVE  <<f[p[1]], p[2]>> \in Units(R)
    <3>1. /\ p[1] \in Seed /\ p[2] \in 1 .. f[p[1]].amount
      OBVIOUS
    <3>2. <<f[p[1]], p[2]>> \in {f[p[1]]} \X (1 .. f[p[1]].amount)
      BY Zenon, <3>1
    <3> QED BY Zenon, <3>1, <3>2 DEF Units
  <2> QED BY Zenon, <2>1, <2>2
<1>5. g \in Surjection(P, Units(R))
  BY Zenon, <1>4 DEF Surjection
<1>6. g \in Injection(P, Units(R))
  <2>1. ASSUME NEW p \in P, NEW q \in P, g[p] = g[q]
        PROVE  p = q
    <3>1. f[p[1]] = f[q[1]] /\ p[2] = q[2]
      BY Zenon, <2>1
    <3>2. p[1] \in Seed /\ q[1] \in Seed
      OBVIOUS
    <3>3. p[1] = q[1]
      BY <3>1, <3>2
    <3> QED BY <3>1, <3>3
  <2>2. g \in [P -> Units(R)]
    BY Zenon, <1>5 DEF Surjection
  <2>3. IsInjective(g)
    BY Zenon, <2>1 DEF IsInjective
  <2> QED BY Zenon, <2>2, <2>3 DEF Injection
<1>7. ExistsBijection(P, Units(R))
  BY Zenon, <1>5, <1>6 DEF ExistsBijection, Bijection
<1>8. IsFiniteSet(Units(R)) /\ Cardinality(Units(R)) = Cardinality(P)
  BY Zenon, <1>3, <1>7, FS_Bijection
<1> QED
  BY <1>1, <1>3, <1>8 DEF Total

\* The tables as the migrations leave them balance: every demo account holds
\* what it was credited, EXTERNAL owes the sum.
LEMMA SeededBalances ==
  ASSUME Seeded
  PROVE  IsFiniteSet(Units(entries)) /\ BalanceMatchesEntries
<1> DEFINE d == [s \in Seed |-> Entry(s, External, "DEBIT", SeedAmount)]
           c == [s \in Seed |-> Entry(s, SeedAccount[s], "CREDIT", SeedAmount)]
           D == {d[s] : s \in Seed}
           C == {c[s] : s \in Seed}
<1>1. /\ SeedAmount \in Nat \ {0} /\ External \in AccountId
      /\ \A s \in Seed : SeedAccount[s] \in AccountId /\ SeedAccount[s] # External
      /\ \A s \in Seed : s \in TxId
  BY Zenon, SeedAssumption, AccountAssumption DEF TxId
<1>2. /\ d \in [Seed -> EntryRow]
      /\ \A s \in Seed : d[s].tx = s /\ d[s].amount = SeedAmount
  BY Zenon, <1>1 DEF EntryRow, Entry
<1>3. /\ c \in [Seed -> EntryRow]
      /\ \A s \in Seed : c[s].tx = s /\ c[s].amount = SeedAmount
  BY Zenon, <1>1 DEF EntryRow, Entry
<1>4. IsFiniteSet(Units(D)) /\ Total(D) = SeedAmount * Cardinality(Seed)
  BY Zenon, <1>2, TotalSeeds
<1>5. IsFiniteSet(Units(C))
  BY Zenon, <1>3, TotalSeeds
<1>6. entries = D \cup C
  BY Zenon DEF Seeded
<1>7. IsFiniteSet(Units(entries))
  <2>1. Units(D \cup C) = Units(D) \cup Units(C)
    BY Zenon DEF Units
  <2> QED BY <1>4, <1>5, <1>6, <2>1, FS_Union, ZenonT(40)
<1>8. /\ \A e \in D : e.account = External /\ e.dir = "DEBIT"
      /\ \A e \in C : e.account # External /\ e.dir = "CREDIT"
  BY <1>1 DEF Entry
<1>9. ASSUME NEW a \in AccountId
      PROVE  balance[a] = Credits(a) - Debits(a)
  <2> DEFINE Cr == {e \in Side(entries, "CREDIT") : e.account = a}
             Db == {e \in Side(entries, "DEBIT") : e.account = a}
  <2> HIDE DEF d, c
  <2>1. Credits(a) = Total(Cr) /\ Debits(a) = Total(Db)
    BY Zenon DEF Credits, Debits
  <2>2. CASE a = External
    <3>1. Cr = {} /\ Db = D
      BY Zenon, <1>6, <1>8, <2>2 DEF Side
    <3>2. balance[a] = -(SeedAmount * Cardinality(Seed))
      BY Zenon, <1>1, <2>2 DEF Seeded
    <3>3. Total(D) \in Nat
      BY Zenon, <1>4, FS_CardinalityType DEF Total
    <3> HIDE DEF D, Cr, Db
    <3>4. Credits(a) = 0 /\ Debits(a) = Total(D)
      BY Zenon, <2>1, <3>1, TotalEmpty
    <3> QED BY <1>4, <3>2, <3>3, <3>4
  <2>3. CASE \E s \in Seed : a = SeedAccount[s]
    <3>1. PICK s \in Seed : a = SeedAccount[s]
      BY Zenon, <2>3
    <3>2. Db = {}
      BY Zenon, <1>1, <1>6, <1>8, <3>1 DEF Side
    <3>3. \A t \in Seed : c[t].account = SeedAccount[t] /\ c[t].dir = "CREDIT"
      BY Zenon, <1>1 DEF Entry, c
    <3>4. Cr = {c[s]}
      <4>1. \A t \in Seed : SeedAccount[t] = a => t = s
        BY Zenon, <3>1, SeedAssumption
      <4> QED BY <1>1, <1>6, <1>8, <3>1, <3>3, <4>1 DEF Side
    <3>5. Total({c[s]}) = SeedAmount
      BY Zenon, <1>1, <1>3, TotalOne
    <3>6. balance[a] = SeedAmount
      BY Zenon, <1>1, <3>1 DEF Seeded
    <3> HIDE DEF Cr, Db
    <3>7. Credits(a) = SeedAmount /\ Debits(a) = 0
      BY Zenon, <2>1, <3>2, <3>4, <3>5, TotalEmpty
    <3> QED BY <1>1, <3>6, <3>7
  <2>4. CASE a # External /\ ~\E s \in Seed : a = SeedAccount[s]
    <3>1. \A t \in Seed : c[t].account = SeedAccount[t]
      BY Zenon, <1>1 DEF Entry, c
    <3>2. Cr = {} /\ Db = {}
      BY <1>6, <1>8, <2>4, <3>1 DEF Side
    <3>3. balance[a] = 0
      BY Zenon, <2>4 DEF Seeded
    <3> HIDE DEF Cr, Db
    <3>4. Credits(a) = 0 /\ Debits(a) = 0
      BY Zenon, <2>1, <3>2, TotalEmpty
    <3> QED BY <3>3, <3>4
  <2> QED BY Zenon, <2>2, <2>3, <2>4
<1> QED
  BY Zenon, <1>7, <1>9 DEF BalanceMatchesEntries

\* A debit and a credit of the same amount are booked, together with the new
\* balances of their two accounts.
Booked(d, c, n) ==
    /\ d \notin entries /\ c \notin entries
    /\ n \in Nat /\ d.amount = n /\ c.amount = n
    /\ d.dir = "DEBIT" /\ c.dir = "CREDIT"
    /\ entries' = entries \cup {d, c}
    /\ \A a \in AccountId :
          balance'[a] = IF a = d.account
                        THEN IF a = c.account THEN balance[a]
                             ELSE balance[a] - n
                        ELSE IF a = c.account THEN balance[a] + n
                             ELSE balance[a]

\* Such a step keeps balances and entries together.
LEMMA PostingBalances ==
  ASSUME IsFiniteSet(Units(entries)), BalanceMatchesEntries,
         balance \in [AccountId -> Int],
         NEW d, NEW c, NEW n, Booked(d, c, n)
  PROVE  IsFiniteSet(Units(entries')) /\ BalanceMatchesEntries'
<1> USE DEF Booked
<1>1. IsFiniteSet(Units(entries'))
  <2>1. d # c
    OBVIOUS
  <2>2. IsFiniteSet(Units(entries \cup {d}))
    BY Zenon, TotalAdd
  <2>3. IsFiniteSet(Units((entries \cup {d}) \cup {c}))
    <3>1. c \notin entries \cup {d}
      BY Zenon, <2>1
    <3> QED BY Zenon, <2>2, <3>1, TotalAdd
  <2>4. (entries \cup {d}) \cup {c} = entries'
    OBVIOUS
  <2> QED BY Zenon, <2>3, <2>4
<1>2. ASSUME NEW a \in AccountId
      PROVE  balance'[a] = Credits(a)' - Debits(a)'
  <2> DEFINE Cr == {e \in Side(entries, "CREDIT") : e.account = a}
             Db == {e \in Side(entries, "DEBIT") : e.account = a}
  <2>1. /\ IsFiniteSet(Units(Cr)) /\ Total(Cr) \in Nat
        /\ IsFiniteSet(Units(Db)) /\ Total(Db) \in Nat
    <3>1. Cr \in SUBSET entries /\ Db \in SUBSET entries
      BY Zenon DEF Side
    <3> QED BY Zenon, <3>1, TotalPart
  <2>2. Cr' = IF c.account = a THEN Cr \cup {c} ELSE Cr
    BY Zenon DEF Side
  <2>3. Db' = IF d.account = a THEN Db \cup {d} ELSE Db
    BY Zenon DEF Side
  <2>4. c \notin Cr /\ d \notin Db
    BY Zenon DEF Side
  <2>5. Total(Cr \cup {c}) = Total(Cr) + n
    <3> HIDE DEF Cr
    <3> QED BY <2>1, <2>4, TotalAdd
  <2>6. Total(Db \cup {d}) = Total(Db) + n
    <3> HIDE DEF Db
    <3> QED BY <2>1, <2>4, TotalAdd
  <2>7. Credits(a)' = IF c.account = a THEN Total(Cr) + n ELSE Total(Cr)
    <3>1. Credits(a)' = Total(Cr')
      BY Zenon DEF Credits
    <3> HIDE DEF Cr
    <3> QED BY Zenon, <2>2, <2>5, <3>1
  <2>8. Debits(a)' = IF d.account = a THEN Total(Db) + n ELSE Total(Db)
    <3>1. Debits(a)' = Total(Db')
      BY Zenon DEF Debits
    <3> HIDE DEF Db
    <3> QED BY Zenon, <2>3, <2>6, <3>1
  <2>9. balance[a] = Total(Cr) - Total(Db)
    <3>1. Credits(a) = Total(Cr) /\ Debits(a) = Total(Db)
      BY Zenon DEF Credits, Debits
    <3> HIDE DEF Cr, Db
    <3> QED BY Zenon, <3>1 DEF BalanceMatchesEntries
  <2> HIDE DEF Cr, Db
  <2> QED BY <2>1, <2>7, <2>8, <2>9
<1> QED
  BY Zenon, <1>1, <1>2 DEF BalanceMatchesEntries

-----------------------------------------------------------------------------
(* What a commit adds to the tables, and what the tables keep *)

LEMMA PublishedRows ==
  ASSUME IInv, NEW r \in Request, Stage(r) = "commit", Publish(r),
         NEW h, h = header[r],
         NEW d, d = Entry(r, call[r].from, "DEBIT", call[r].amount),
         NEW k, k = Entry(r, call[r].to, "CREDIT", call[r].amount)
  PROVE  Shown(r, call[r], h, d, k)
<1>1. ReqInv(r)
  BY Zenon DEF IInv
<1>2. Valid(call[r]) /\ call[r] \in Call
  BY Zenon, <1>1 DEF ReqInv, CallOK, InTx, Valid
<1>3. h = Txn(r, call[r].kind, call[r].key, call[r].orig) /\ legs[r] = {d, k}
  BY Zenon, <1>1 DEF ReqInv, RowOK, Writing
<1>4. /\ h \in TxnRow /\ h.id = r /\ h.kind = call[r].kind
      /\ h.key = call[r].key /\ h.reverses = call[r].orig
  BY <1>2, <1>3 DEF Txn, TxnRow, Call, TxId
<1>5. h # None
  BY Zenon, <1>4, NoneAssumption
<1>6. /\ d \in EntryRow /\ d.tx = r /\ d.account = call[r].from
      /\ d.dir = "DEBIT" /\ d.amount = call[r].amount
  BY Zenon, <1>2 DEF Entry, EntryRow, Valid, TxId
<1>7. /\ k \in EntryRow /\ k.tx = r /\ k.account = call[r].to
      /\ k.dir = "CREDIT" /\ k.amount = call[r].amount
  BY Zenon, <1>2 DEF Entry, EntryRow, Valid, TxId
<1>8. sess[r] \in {"open", "indoubt"}
  BY Zenon, <1>1 DEF ReqInv, SessOK, Stage, InTx
<1>9. (\A t \in txns : t.id # r) /\ (\A e \in entries : e.tx # r)
  BY Zenon, <1>1, <1>8 DEF ReqInv, FreshOK
<1>10. \A t \in txns : t.key # h.key
  BY Zenon, <1>5 DEF IInv, UniqueInv
<1>11. /\ txns' = txns \cup {h} /\ entries' = entries \cup {d, k}
       /\ exists' = exists
  BY Zenon, <1>3 DEF Publish
<1>12. EntriesOf(r)' = {d, k}
  BY Zenon, <1>6, <1>7, <1>9, <1>11 DEF EntriesOf
<1>13. \A id : id # r => EntriesOf(id)' = EntriesOf(id)
  BY Zenon, <1>6, <1>7, <1>11 DEF EntriesOf
<1> QED
  BY <1>4, <1>5, <1>6, <1>7, <1>9, <1>10, <1>11, <1>12, <1>13, Zenon DEF Shown

LEMMA PublishedBalances ==
  ASSUME IInv, NEW r \in Request, Stage(r) = "commit", Publish(r)
  PROVE  /\ balance' \in [AccountId -> Int]
         /\ \A a \in AccountId :
               balance'[a] = IF a = call[r].from
                             THEN balance[a] - call[r].amount
                             ELSE IF a = call[r].to
                             THEN balance[a] + call[r].amount ELSE balance[a]
         /\ \A a \in {call[r].from, call[r].to} :
               lock[a] = r /\ a \in exists /\ Storable(a, balance'[a])
<1>1. ReqInv(r) /\ DbType /\ GoType
  BY Zenon DEF IInv, TypeOK
<1>2. /\ call[r].from \in AccountId /\ call[r].to \in AccountId
      /\ call[r].from # call[r].to
  BY Zenon, <1>1 DEF ReqInv, CallOK, InTx, Valid
<1> PICK n \in Int, sf \in Int, st \in Int :
      n = call[r].amount /\ sf = seen[r].from /\ st = seen[r].to
  <2>1. call[r].amount \in Int
    BY <1>1 DEF ReqInv, CallOK, InTx, Valid
  <2>2. seen[r].from \in Int /\ seen[r].to \in Int
    BY Zenon, <1>1 DEF GoType
  <2> QED BY Zenon, <2>1, <2>2
<1>3. /\ call[r].from \in exists /\ call[r].to \in exists
      /\ lock[call[r].from] = r /\ lock[call[r].to] = r
      /\ sf = balance[call[r].from] /\ st = balance[call[r].to]
  BY Zenon, <1>1 DEF ReqInv, LockOK, Writing
<1>4. /\ write[r][call[r].from] = sf - n
      /\ Storable(call[r].from, write[r][call[r].from])
      /\ write[r][call[r].to] = st + n
      /\ Storable(call[r].to, write[r][call[r].to])
      /\ \A a \in AccountId \ {call[r].from, call[r].to} : write[r][a] = None
  <2>1. RowOK(r)
    BY Zenon, <1>1 DEF ReqInv
  <2> QED BY Zenon, <1>2, <2>1 DEF RowOK, Debited, Credited, Writing
<1>5. /\ balance' = [a \in AccountId |->
                       IF write[r][a] = None THEN balance[a] ELSE write[r][a]]
      /\ balance \in [AccountId -> Int]
  BY Zenon, <1>1 DEF Publish, DbType
<1>6. write[r][call[r].from] # None /\ write[r][call[r].to] # None
  BY <1>4, AccountAssumption
<1>7. \A a \in AccountId :
         balance'[a] = IF a = call[r].from THEN balance[a] - n
                       ELSE IF a = call[r].to THEN balance[a] + n
                       ELSE balance[a]
  BY Zenon, <1>2, <1>3, <1>4, <1>5, <1>6
<1>8. balance' \in [AccountId -> Int]
  BY <1>5, <1>7
<1>9. /\ balance'[call[r].from] = write[r][call[r].from]
      /\ balance'[call[r].to] = write[r][call[r].to]
  BY Zenon, <1>2, <1>5, <1>6
<1>10. \A a \in {call[r].from, call[r].to} :
         lock[a] = r /\ a \in exists /\ Storable(a, balance'[a])
  BY Zenon, <1>3, <1>4, <1>9
<1> QED
  BY Zenon, <1>7, <1>8, <1>10

LEMMA PublishKeepsBook ==
  ASSUME BookInv, NEW r \in Request, NEW c, NEW h, NEW d, NEW k,
         Shown(r, c, h, d, k), Valid(c),
         c.kind = "REVERSAL" <=> c.orig # None,
         IsFiniteSet(Units(entries')),
         \A a \in AccountId \ exists : balance'[a] = balance[a]
  PROVE  BookInv'
<1> USE DEF Shown
<1>1. /\ Balanced(h)'
      /\ h.kind # "REVERSAL" => h.reverses = None
      /\ h.kind = "REVERSAL" => h.reverses \in TxId
  BY DEF Balanced, Valid, Call
<1>2. ASSUME NEW t \in txns PROVE Balanced(t)'
  <2>1. EntriesOf(t.id)' = EntriesOf(t.id)
    OBVIOUS
  <2>2. Balanced(t)
    BY Zenon DEF BookInv
  <2> QED BY <2>1, <2>2 DEF Balanced
<1>3. \A t \in txns' : /\ Balanced(t)'
                       /\ t.kind # "REVERSAL" => t.reverses = None
                       /\ t.kind = "REVERSAL" => t.reverses \in TxId
  BY Zenon, <1>1, <1>2 DEF BookInv
<1>4. \A e \in entries' : \E t \in txns' : t.id = e.tx
  BY ZenonT(30) DEF BookInv
<1>5. External \in exists' /\ \A a \in AccountId \ exists' : balance'[a] = 0
  BY Zenon DEF BookInv
<1> QED
  BY <1>3, <1>4, <1>5, Zenon DEF BookInv

LEMMA PublishKeepsMirrors ==
  ASSUME ReversalMirrors, UniqueInv', BookInv',
         NEW r \in Request, NEW c, NEW h, NEW d, NEW k,
         Shown(r, c, h, d, k), c.kind = "REVERSAL" => MirrorOf(c)
  PROVE  ReversalMirrors'
<1> USE DEF Shown
<1> SUFFICES ASSUME NEW t \in txns', t.kind = "REVERSAL"
             PROVE  /\ \A u \in txns' : u.reverses = t.reverses => u = t
                    /\ \E o \in txns' : o.id = t.reverses /\ o.kind = "TRANSFER"
                    /\ Legs(t.id)' = FlippedLegs(t.reverses)'
  BY Zenon DEF ReversalMirrors
<1>1. \A u \in txns' : u.reverses = t.reverses => u = t
  BY IdAssumption DEF UniqueInv, BookInv, TxId
<1>2. CASE t \in txns
  <2>1. PICK o \in txns : o.id = t.reverses /\ o.kind = "TRANSFER"
    BY Zenon, <1>2 DEF ReversalMirrors
  <2>2. Legs(t.id) = FlippedLegs(t.reverses)
    BY Zenon, <1>2 DEF ReversalMirrors
  <2>3. /\ EntriesOf(t.id)' = EntriesOf(t.id)
        /\ EntriesOf(t.reverses)' = EntriesOf(t.reverses)
    BY Zenon, <1>2, <2>1
  <2>4. Legs(t.id)' = FlippedLegs(t.reverses)'
    BY <2>2, <2>3, Zenon DEF Legs, FlippedLegs
  <2>5. o \in txns'
    OBVIOUS
  <2> QED BY <1>1, <2>1, <2>4, <2>5, Zenon
<1>3. CASE t = h
  <2>1. MirrorOf(c)
    BY Zenon, <1>3
  <2>2. PICK o \in txns : o.id = c.orig /\ o.kind = "TRANSFER"
    BY Zenon, <2>1 DEF MirrorOf, ById
  <2> PICK x, y : /\ x = Entry(c.orig, c.to, "DEBIT", c.amount)
                  /\ y = Entry(c.orig, c.from, "CREDIT", c.amount)
    OBVIOUS
  <2>3. EntriesOf(c.orig)' = {x, y}
    BY Zenon, <2>1, <2>2 DEF MirrorOf
  <2>4. /\ x.account = c.to /\ Flip(x.dir) = "CREDIT" /\ x.amount = c.amount
        /\ y.account = c.from /\ Flip(y.dir) = "DEBIT" /\ y.amount = c.amount
    BY Zenon DEF Entry, Flip
  <2>5. Legs(r)' = {<<c.from, "DEBIT", c.amount>>, <<c.to, "CREDIT", c.amount>>}
    BY ZenonT(40) DEF Legs
  <2>6. FlippedLegs(c.orig)'
          = {<<c.to, "CREDIT", c.amount>>, <<c.from, "DEBIT", c.amount>>}
    <3>1. FlippedLegs(c.orig)' = {<<x.account, Flip(x.dir), x.amount>>,
                                  <<y.account, Flip(y.dir), y.amount>>}
      BY <2>3, ZenonT(40) DEF FlippedLegs
    <3> QED
      BY Zenon, <2>4, <3>1
  <2>7. Legs(h.id)' = FlippedLegs(h.reverses)'
    BY Zenon, <2>5, <2>6
  <2>8. o \in txns' /\ o.id = h.reverses
    BY Zenon, <2>2
  <2> QED BY <1>1, <1>3, <2>2, <2>7, <2>8, Zenon
<1> QED
  BY Zenon, <1>2, <1>3

\* A commit keeps every invariant of the tables.
LEMMA CommitBooks ==
  ASSUME IInv, NEW r \in Request, Stage(r) = "commit", Publish(r)
  PROVE  Commits(r)
<1> PICK c, h, d, k : /\ c = call[r] /\ h = header[r]
                      /\ d = Entry(r, call[r].from, "DEBIT", call[r].amount)
                      /\ k = Entry(r, call[r].to, "CREDIT", call[r].amount)
  BY Zenon
<1>1. ReqInv(r) /\ DbType /\ SessType /\ UniqueInv /\ Books
  BY Zenon DEF IInv, TypeOK
<1>2. Shown(r, c, h, d, k)
  BY Zenon, PublishedRows
<1>3. /\ Valid(c) /\ sess[r] \in {"open", "indoubt"}
      /\ c.kind = "REVERSAL" <=> c.orig # None
  BY Zenon, <1>1 DEF ReqInv, CallOK, SessOK, Stage, InTx
<1>4. /\ balance' \in [AccountId -> Int]
      /\ \A a \in AccountId :
            balance'[a] = IF a = c.from THEN balance[a] - c.amount
                          ELSE IF a = c.to THEN balance[a] + c.amount
                          ELSE balance[a]
      /\ \A a \in {c.from, c.to} :
            lock[a] = r /\ a \in exists /\ Storable(a, balance'[a])
  BY PublishedBalances
<1>5. /\ h \in txns' /\ h.id = r /\ h # None /\ exists' = exists
      /\ txns' = txns \cup {h} /\ \A t \in txns : t.id # r /\ t.key # h.key
      /\ h.key = c.key
  BY Zenon, <1>2 DEF Shown
<1>6. header'[r] = None /\ \A q \in Request \ {r} : header'[q] = header[q]
  BY Zenon, <1>1 DEF SessType, Publish, EndTx
<1>7. DbType'
  <2>1. txns' \subseteq TxnRow /\ entries' \subseteq EntryRow
    BY Zenon, <1>1, <1>2 DEF Shown, DbType
  <2> QED
    BY Zenon, <1>1, <1>4, <1>5, <2>1 DEF DbType, Publish
<1>8. UniqueInv'
  <2>1. h.reverses # None => \A t \in txns : t.reverses # h.reverses
    BY Zenon, <1>1, <1>5 DEF UniqueInv
  <2>2. \A s \in Request \ {r} : header[s] # None =>
           /\ header[s].key # h.key
           /\ header[s].reverses # None => header[s].reverses # h.reverses
    BY Zenon, <1>1, <1>5 DEF UniqueInv
  <2> QED BY <1>1, <1>5, <1>6, <2>1, <2>2, SMTT(30) DEF UniqueInv
<1>9. IsFiniteSet(Units(entries')) /\ BalanceMatchesEntries'
  <2>1. PICK n \in Nat : n = c.amount
    BY Zenon, <1>3 DEF Valid
  <2>2. c.from # c.to
    BY Zenon, <1>3 DEF Valid
  <2>3. Booked(d, k, n)
    <3>1. /\ d.tx = r /\ d.account = c.from /\ d.dir = "DEBIT" /\ d.amount = n
          /\ k.tx = r /\ k.account = c.to /\ k.dir = "CREDIT" /\ k.amount = n
          /\ entries' = entries \cup {d, k} /\ \A e \in entries : e.tx # r
      BY Zenon, <1>2, <2>1 DEF Shown
    <3>2. d \notin entries /\ k \notin entries
      BY Zenon, <3>1
    <3>3. \A a \in AccountId :
             balance'[a] = IF a = c.from THEN balance[a] - n
                           ELSE IF a = c.to THEN balance[a] + n
                           ELSE balance[a]
      BY Zenon, <1>4, <2>1
    <3> QED BY ZenonT(30), <2>2, <3>1, <3>2, <3>3 DEF Booked
  <2>4. /\ balance \in [AccountId -> Int] /\ IsFiniteSet(Units(entries))
        /\ BalanceMatchesEntries
    BY Zenon, <1>1 DEF DbType, Books, BookInv
  <2> QED BY Zenon, <2>3, <2>4, PostingBalances
<1>10. BookInv'
  <2>1. \A a \in AccountId \ exists : balance'[a] = balance[a]
    BY Zenon, <1>4
  <2>2. BookInv
    BY Zenon, <1>1 DEF Books
  <2> QED BY Zenon, <1>2, <1>3, <1>9, <2>1, <2>2, PublishKeepsBook
<1>11. ReversalMirrors'
  <2>1. c.kind = "REVERSAL" => MirrorOf(c)
    BY Zenon, <1>1 DEF ReqInv, MirrorOK, InTx
  <2>2. ReversalMirrors
    BY Zenon, <1>1 DEF Books
  <2> QED BY Zenon, <1>2, <1>8, <1>10, <2>1, <2>2, PublishKeepsMirrors
<1>12. \A a \in AccountId \ {External} : balance'[a] >= 0
  <2> TAKE a \in AccountId \ {External}
  <2>1. CASE a \in {c.from, c.to}
    BY Zenon, <1>4, <2>1 DEF Storable
  <2>2. CASE a \notin {c.from, c.to}
    BY Zenon, <1>1, <1>4, <2>2 DEF Books
  <2> QED BY Zenon, <2>1, <2>2
<1>13. Books'
  BY Zenon, <1>9, <1>10, <1>11, <1>12 DEF Books
<1>14. /\ \E x, y, z : Shown(r, call[r], x, y, z)
       /\ \A a \in {call[r].from, call[r].to} : lock[a] = r
       /\ \A a \in AccountId \ {call[r].from, call[r].to} :
             balance'[a] = balance[a]
  BY Zenon, <1>2, <1>4
<1> QED
  BY Zenon, <1>7, <1>8, <1>13, <1>14 DEF Commits

\* The SELECT ... FOR UPDATE that returned two rows returned both.
LEMMA PairsFound ==
  ASSUME NEW r \in Request
  PROVE  PairFound(r)
<1> SUFFICES ASSUME Cardinality(found[r]) = 2,
                    found[r] \subseteq {call[r].from, call[r].to}
             PROVE  found[r] = {call[r].from, call[r].to}
  BY Zenon DEF PairFound
<1> PICK x, y : x = call[r].from /\ y = call[r].to
  OBVIOUS
<1>1. found[r] \in {{}, {x}, {y}, {x, y}}
  OBVIOUS
<1>2. Cardinality({}) = 0 /\ Cardinality({x}) = 1 /\ Cardinality({y}) = 1
  BY Zenon, FS_EmptySet, FS_Singleton
<1> QED BY <1>1, <1>2

-----------------------------------------------------------------------------
(* The initial state *)

LEMMA InitIInv == Init => IInv
<1> SUFFICES ASSUME Init PROVE IInv
  OBVIOUS
<1> USE DEF Init
<1>1. IsFiniteSet(Units(entries)) /\ BalanceMatchesEntries
  BY Zenon, SeededBalances
<1>2. /\ exists \subseteq AccountId /\ External \in exists
      /\ txns \subseteq TxnRow /\ entries \subseteq EntryRow
      /\ balance \in [AccountId -> Int]
      /\ \A a \in AccountId \ {External} : balance[a] >= 0
      /\ \A a \in AccountId \ exists : balance[a] = 0
  <2>1. /\ SeedAmount \in Nat \ {0} /\ External \in AccountId
        /\ \A s \in Seed : /\ s \in TxId
                           /\ SeedAccount[s] \in AccountId \ {External}
    BY Zenon, SeedAssumption, AccountAssumption DEF TxId
  <2>2. /\ exists \subseteq AccountId /\ External \in exists
        /\ txns \subseteq TxnRow /\ entries \subseteq EntryRow
    BY <2>1 DEF Seeded, Txn, Entry, TxnRow, EntryRow, Kind
  <2>3. Cardinality(Seed) \in Nat
    BY Zenon, SeedAssumption, FS_CardinalityType
  <2>4. -(SeedAmount * Cardinality(Seed)) \in Int
    BY SMTT(30), <2>1, <2>3
  <2>5. /\ balance \in [AccountId -> Int]
        /\ \A a \in AccountId \ {External} : balance[a] >= 0
        /\ \A a \in AccountId \ exists : balance[a] = 0
    BY <2>1, <2>2, <2>4 DEF Seeded
  <2> QED BY Zenon, <2>2, <2>5
<1>3. TypeOK
  <2>1. DbType
    BY Zenon, <1>2 DEF DbType
  <2>2. SessType
    BY Zenon DEF SessType, NoWrites
  <2>3. GoType
    BY DEF GoType, NoCall, NoReply, Reply, Labels
  <2> QED BY Zenon, <2>1, <2>2, <2>3 DEF TypeOK
<1>4. ASSUME NEW r \in Request PROVE ReqInv(r)
  <2>1. pc[r] = "idle" /\ sess[r] = "none" /\ Stage(r) = "idle"
    BY Zenon DEF Stage
  <2>2. CallOK(r) /\ MirrorOK(r) /\ LockOK(r) /\ RowOK(r)
    BY Zenon, <2>1 DEF CallOK, MirrorOK, LockOK, RowOK, InTx, Writing
  <2>3. SessOK(r)
    BY Zenon, <2>1, IdAssumption DEF SessOK, InTx
  <2>4. ReplyOK(r)
    BY Zenon, <2>1, NoneAssumption DEF ReplyOK, NoReply
  <2>5. FreshOK(r)
    BY IdAssumption DEF FreshOK, Seeded, Txn, Entry
  <2> QED BY Zenon, <2>2, <2>3, <2>4, <2>5 DEF ReqInv
<1>5. UniqueInv
  BY DEF UniqueInv, Seeded, Txn
<1>6. BookInv
  <2>1. ASSUME NEW s \in Seed
        PROVE  EntriesOf(s) = {Entry(s, External, "DEBIT", SeedAmount),
                               Entry(s, SeedAccount[s], "CREDIT", SeedAmount)}
    BY DEF EntriesOf, Seeded, Entry
  <2>2. \A t \in txns : Balanced(t)
    <3> TAKE t \in txns
    <3> PICK s \in Seed : t = Txn(s, "DEPOSIT", s, None)
      BY Zenon DEF Seeded
    <3>1. t.id = s /\ t.kind = "DEPOSIT"
      BY Zenon DEF Txn
    <3>2. SeedAccount[s] # External
      BY Zenon, SeedAssumption
    <3> DEFINE d == Entry(s, External, "DEBIT", SeedAmount)
               c == Entry(s, SeedAccount[s], "CREDIT", SeedAmount)
    <3>3. /\ d.dir = "DEBIT" /\ c.dir = "CREDIT" /\ d.amount = c.amount
          /\ d.account = External /\ c.account = SeedAccount[s]
      BY Zenon DEF Entry
    <3>4. EntriesOf(t.id) = {d, c}
      BY Zenon, <2>1, <3>1
    <3> HIDE DEF d, c
    <3> QED BY Zenon, <3>1, <3>2, <3>3, <3>4 DEF Balanced
  <2>3. \A t \in txns : t.kind = "DEPOSIT" /\ t.reverses = None
    BY DEF Seeded, Txn
  <2>4. \A e \in entries : \E t \in txns : t.id = e.tx
    <3> TAKE e \in entries
    <3> PICK s \in Seed : e.tx = s
      BY DEF Seeded, Entry
    <3>1. Txn(s, "DEPOSIT", s, None) \in txns
      BY Zenon DEF Seeded
    <3> QED BY Zenon, <3>1 DEF Txn
  <2> QED BY ZenonT(30), <1>1, <1>2, <2>2, <2>3, <2>4 DEF BookInv
<1>7. ReversalMirrors
  BY DEF ReversalMirrors, Seeded, Txn
<1> QED
  BY Zenon, <1>1, <1>2, <1>3, <1>4, <1>5, <1>6, <1>7 DEF IInv, Books

-----------------------------------------------------------------------------
(* What IInv says, state by state *)

LEMMA ReadsFresh == IInv => NoStaleRead
<1> SUFFICES ASSUME IInv PROVE NoStaleRead
  OBVIOUS
<1> SUFFICES ASSUME NEW r \in Request,
                    \/ pc[r] \in {"debit", "credit", "insertTx",
                                  "insertEntries", "commit"}
                    \/ sess[r] = "indoubt"
             PROVE  /\ seen[r].from = balance[call[r].from]
                    /\ seen[r].to = balance[call[r].to]
  BY Zenon DEF NoStaleRead
<1>1. Stage(r) \in Writing
  BY Zenon DEF Stage, Writing, IInv, ReqInv, SessOK, InTx
<1> QED
  BY Zenon, <1>1 DEF IInv, ReqInv, LockOK

LEMMA Funds == IInv => NoOverdraft
<1> SUFFICES ASSUME IInv PROVE NoOverdraft
  OBVIOUS
<1>1. ASSUME NEW r \in Request, pc[r] = "debit", call[r].from # External
      PROVE  seen[r].from >= call[r].amount
  <2>1. Stage(r) \in Writing
    BY Zenon, <1>1 DEF Stage, Writing
  <2> QED
    BY Zenon, <1>1, <2>1 DEF IInv, ReqInv, LockOK
<1> QED
  BY Zenon, <1>1 DEF IInv, Books, NoOverdraft

LEMMA OneAnswer == IInv => OneAnswerPerKey
<1> SUFFICES ASSUME IInv PROVE OneAnswerPerKey
  OBVIOUS
<1> SUFFICES ASSUME NEW r \in Request, reply[r].status = "ok"
             PROVE  \E t \in txns :
                       ByKey(call[r].key) = {t} /\ t.id = reply[r].tx
  BY Zenon DEF OneAnswerPerKey
<1>1. PICK t \in txns : t.id = reply[r].tx /\ t.key = call[r].key
  BY Zenon DEF IInv, ReqInv, ReplyOK
<1>2. \A u \in txns : u.key = call[r].key => u = t
  BY <1>1 DEF IInv, UniqueInv
<1>3. ByKey(call[r].key) = {t}
  BY Zenon, <1>1, <1>2 DEF ByKey
<1> QED
  BY Zenon, <1>1, <1>3

LEMMA OnlyAdds ==
  [Next]_vars => [/\ txns \subseteq txns' /\ entries \subseteq entries'
                  /\ audit \subseteq audit']_<<txns, entries, audit>>
<1> DEFINE Grows == /\ txns \subseteq txns' /\ entries \subseteq entries'
                    /\ audit \subseteq audit'
<1>1. ASSUME Next PROVE Grows
  <2> USE DEF dbVars, tables
  <2>1. ASSUME NEW r \in Request, ServerCommits(r) PROVE Grows
    BY Zenon, <2>1 DEF ServerCommits, Publish
  <2>2. ASSUME NEW r \in Request, NEW row, WriteAudit(r, row)
        PROVE  audit \subseteq audit'
    BY Zenon, <2>2 DEF WriteAudit
  <2>3. ASSUME NEW r \in Request, Transfer(r) \/ Deposit(r) \/ Reverse(r)
        PROVE  Grows
    BY Zenon, <2>3 DEF Transfer, Deposit, Reverse, Enter
  <2>4. ASSUME NEW r \in Request, Lookup(r) \/ LoadOriginal(r) \/ Refetch(r)
        PROVE  Grows
    BY Zenon, <2>4 DEF Lookup, LoadOriginal, Refetch, Replay, Reject
  <2>5. ASSUME NEW r \in Request, BeginTx(r) \/ LockRow(r) \/ ReadBalances(r)
        PROVE  Grows
    BY Zenon, <2>5 DEF BeginTx, LockRow, ReadBalances, Reject, Fail
  <2>6. ASSUME NEW r \in Request, Debit(r) \/ Credit(r) PROVE Grows
    BY Zenon, <2>6 DEF Debit, Credit, UpdateBalance, Fail
  <2>7. ASSUME NEW r \in Request, InsertTransaction(r) \/ InsertEntries(r)
        PROVE  Grows
    BY Zenon, <2>7 DEF InsertTransaction, InsertEntries, Fail
  <2>8. ASSUME NEW r \in Request, Commit(r) \/ LateCommit(r) PROVE Grows
    BY Zenon, <2>1, <2>8 DEF Commit, LateCommit
  <2>9. ASSUME NEW r \in Request,
               Rollback(r) \/ StatementFails(r) \/ Crash(r) \/ ServerAborts(r)
        PROVE  Grows
    BY Zenon, <2>9 DEF Rollback, StatementFails, Fail, Crash, ServerAborts
  <2>10. ASSUME NEW r \in Request, AuditSuccess(r) \/ AuditFailure(r)
         PROVE  Grows
    BY Zenon, <2>2, <2>10 DEF AuditSuccess, AuditFailure
  <2>11. ASSUME NEW a \in AccountId, CreateAccount(a) PROVE Grows
    BY Zenon, <2>11 DEF CreateAccount
  <2>12. AtRest => Grows
    BY Zenon DEF AtRest, vars
  <2> HIDE DEF Grows
  <2> QED
    BY Zenon, <1>1, <2>3, <2>4, <2>5, <2>6, <2>7, <2>8, <2>9, <2>10, <2>11,
       <2>12
       DEF Next, Step, TransferBody, DepositBody, ReverseBody, TxBody
<1> QED
  BY Zenon, <1>1 DEF vars, dbVars, tables

-----------------------------------------------------------------------------
(* Errors, answers and audit rows *)

\* A step of r: nothing of what the others were or will be told changes.
Untouched(q) ==
    /\ pc'[q] = pc[q] /\ call'[q] = call[q] /\ err'[q] = err[q]
    /\ reply'[q] = reply[q] /\ sess'[q] = sess[q]

Told(q) == ErrOK(q) /\ AnswerOK(q)
Truthful ==
    (\A q \in Request : Told(q)) /\ (\A w \in audit : AuditOK(w))

LEMMA ToldKept ==
  ASSUME NEW q \in Request, Told(q), Untouched(q), txns \subseteq txns'
  PROVE  Told(q)'
<1>1. ErrOK(q)'
  BY Zenon DEF Told, ErrOK, Untouched, ByKey, AlreadyReversed
<1>2. AnswerOK(q)'
  BY Zenon DEF Told, AnswerOK, Untouched
<1> QED
  BY Zenon, <1>1, <1>2 DEF Told

\* An audit row stays true while its request is left alone.
LEMMA AuditRowKept ==
  ASSUME NEW w, AuditOK(w), pc'[w.req] = pc[w.req],
         reply'[w.req] = reply[w.req], txns \subseteq txns'
  PROVE  AuditOK(w)'
  BY Zenon DEF AuditOK, Committed

\* A step of r that writes no audit row.
LEMMA ToldStep ==
  ASSUME OInv, NEW r \in Request, \A q \in Request \ {r} : Untouched(q), Told(r)',
         pc[r] = "done" => pc'[r] = pc[r] /\ reply'[r] = reply[r],
         txns \subseteq txns', audit' = audit, DbType
  PROVE  Truthful'
<1>1. \A q \in Request : Told(q)'
  BY Zenon, ToldKept DEF OInv, Told
<1>2. ASSUME NEW w \in audit PROVE AuditOK(w)'
  <2>1. AuditOK(w) /\ w.req \in Request /\ pc[w.req] = "done"
    BY Zenon DEF OInv, AuditOK, DbType, AuditRow
  <2>2. pc'[w.req] = pc[w.req] /\ reply'[w.req] = reply[w.req]
    BY Zenon, <2>1 DEF Untouched
  <2> QED
    BY Zenon, <2>1, <2>2, AuditRowKept
<1> QED
  BY Zenon, <1>1, <1>2 DEF Truthful

\* The facts about r that its steps start from.
LEMMA Known ==
  ASSUME IInv, OInv, NEW r \in Request
  PROVE  /\ DbType /\ SessType /\ GoType
         /\ CallOK(r) /\ SessOK(r) /\ FreshOK(r) /\ ReplyOK(r)
         /\ ErrOK(r) /\ AnswerOK(r) /\ OrderOK(r) /\ Told(r)
  BY Zenon DEF IInv, OInv, TypeOK, ReqInv, Told

\* Who has not answered has not answered wrongly.
LEMMA Unanswered ==
  ASSUME NEW r \in Request, reply'[r] = NoReply, pc'[r] # "done"
  PROVE  AnswerOK(r)'
<1>1. /\ NoReply.status = None /\ NoReply.tx = None /\ None \notin Error
  BY Zenon, NoneAssumption DEF NoReply
<1> QED
  BY Zenon, <1>1 DEF AnswerOK

\* A handler that has not answered yet goes on to label l with error e.
LEMMA MoveTold ==
  ASSUME IInv, OInv, NEW r \in Request, NEW l, NEW e \in Error \cup {None},
         pc[r] # "done", l # "done", Goto(r, l),
         err' = [err EXCEPT ![r] = e], UNCHANGED <<sess, reply, txns, audit>>,
         \A q \in Request \ {r} : call'[q] = call[q], ErrOK(r)'
  PROVE  Truthful'
<1>1. reply[r] = NoReply /\ DbType /\ GoType
  BY Zenon, Known DEF ReplyOK
<1>2. \A q \in Request \ {r} : Untouched(q)
  BY Zenon, <1>1 DEF Untouched, Goto, GoType
<1>3. pc'[r] = l
  BY Zenon, <1>1 DEF Goto, GoType
<1>4. AnswerOK(r)'
  BY Zenon, <1>1, <1>3, Unanswered
<1> QED
  BY Zenon, <1>1, <1>2, <1>4, ToldStep DEF Told

LEMMA EnterTold ==
  ASSUME IInv, OInv, NEW r \in Request, Transfer(r) \/ Deposit(r) \/ Reverse(r)
  PROVE  Truthful'
<1>1. PICK c \in Calls, e \in {None, "ErrInvalidAmount", "ErrSelfTransfer",
                               "ErrSystemAccount"} :
         pc[r] = "idle" /\ Enter(r, c, e)
  BY Zenon DEF Transfer, Deposit, Reverse, TransferError, DepositError
<1>2. e \in Error \cup {None} /\ (e # None => e \in Error)
  BY Zenon, <1>1 DEF Error, DomainError
<1> DEFINE l == IF e = None THEN "lookup" ELSE "auditFailure"
<1>3. /\ Goto(r, l) /\ err' = [err EXCEPT ![r] = e]
      /\ UNCHANGED <<sess, reply, txns, audit>>
      /\ call' = [call EXCEPT ![r] = c]
  BY Zenon, <1>1 DEF Enter, dbVars, sessVars, tables
<1>4. sess[r] = "none" /\ GoType
  BY Zenon, <1>1, Known DEF SessOK
<1>5. pc'[r] = l /\ err'[r] = e /\ sess'[r] = "none"
      /\ \A q \in Request \ {r} : call'[q] = call[q]
  BY Zenon, <1>3, <1>4 DEF Goto, GoType
<1>6. ErrOK(r)'
  BY Zenon, <1>1, <1>2, <1>5, NoneAssumption DEF ErrOK, InTx, Error, DomainError
<1> QED
  BY Zenon, <1>1, <1>2, <1>3, <1>5, <1>6, MoveTold
\* A call that fails says why.
LEMMA FailTold ==
  ASSUME IInv, OInv, NEW r \in Request, NEW e \in Error,
         pc[r] \in {"loadOriginal", "begin"} \cup (InTx \ {"rollback"}),
         Reject(r, e) \/ Fail(r, e),
         e = "ErrIdempotencyConflict" => ByKey(call[r].key) # {},
         e = "ErrAlreadyReversed" => AlreadyReversed(r)
  PROVE  Truthful'
<1>1. sess[r] \in {"none", "open"} /\ pc[r] # "done" /\ GoType
  BY Zenon, Known DEF SessOK, InTx
<1>2. PICK l \in {"auditFailure", "rollback"} :
         /\ Goto(r, l) /\ err' = [err EXCEPT ![r] = e] /\ call' = call
         /\ UNCHANGED <<sess, reply, txns, audit>>
  BY Zenon DEF Reject, Fail, dbVars, sessVars, tables
<1>3. pc'[r] = l /\ err'[r] = e
  BY Zenon, <1>1, <1>2 DEF Goto, GoType
<1>4. ErrOK(r)'
  <2>1. e # None
    BY Zenon, NoneAssumption
  <2> QED
    BY Zenon, <1>1, <1>2, <1>3, <2>1 DEF ErrOK, InTx, ByKey, AlreadyReversed
<1> QED
  BY Zenon, <1>1, <1>2, <1>4, MoveTold

\* A handler without an error goes on.
LEMMA GoOnTold ==
  ASSUME IInv, OInv, NEW r \in Request,
         pc[r] \in {"lookup", "loadOriginal", "begin"} \cup (InTx \ {"rollback"}),
         NEW l \in {"loadOriginal", "begin"} \cup (InTx \ {"rollback"}),
         Goto(r, l), UNCHANGED <<err, sess, reply, txns, audit>>,
         \A q \in Request \ {r} : call'[q] = call[q]
  PROVE  Truthful'
<1>1. err[r] = None /\ pc[r] # "done" /\ GoType
  BY Zenon, Known DEF ErrOK, InTx
<1>2. pc'[r] = l /\ err' = [err EXCEPT ![r] = None] /\ err'[r] = None
  BY Zenon, <1>1 DEF Goto, GoType
<1>3. ErrOK(r)' /\ l # "done"
  BY Zenon, <1>1, <1>2, NoneAssumption DEF ErrOK, InTx, Error, DomainError
<1> QED
  BY Zenon, <1>1, <1>2, <1>3, MoveTold

\* A replay answers with the stored transaction.
LEMMA ReplayTold ==
  ASSUME IInv, OInv, NEW r \in Request, pc[r] \in {"lookup", "refetch"},
         Replay(r)
  PROVE  Truthful'
<1>1. DbType /\ GoType /\ Told(r)
  BY Zenon, Known
<1>2. PICK t \in txns :
         /\ Return(r, "ok", t.id, EntriesOf(t.id))
         /\ UNCHANGED <<sess, call, err, txns, audit>>
  BY Zenon DEF Replay, ByKey, dbVars, sessVars, tables
<1>3. /\ pc'[r] = "done" /\ reply'[r].status = "ok" /\ reply'[r].tx = t.id
      /\ \A q \in Request \ {r} : Untouched(q)
  BY Zenon, <1>1, <1>2 DEF Return, Goto, Untouched, GoType
<1>4. Told(r)'
  <2>1. ErrOK(r)'
    BY Zenon, <1>1, <1>2, <1>3 DEF ErrOK, InTx, Told, ByKey, AlreadyReversed
  <2>2. AnswerOK(r)'
    BY Zenon, <1>3, NoneAssumption DEF AnswerOK, Error, DomainError
  <2> QED
    BY Zenon, <2>1, <2>2 DEF Told
<1> QED
  BY Zenon, <1>1, <1>2, <1>3, <1>4, ToldStep

LEMMA LookupTold ==
  ASSUME IInv, OInv, NEW r \in Request, Lookup(r) \/ Refetch(r)
  PROVE  Truthful'
<1>1. CASE Replay(r)
  BY Zenon, <1>1, ReplayTold DEF Lookup, Refetch
<1>2. CASE Lookup(r) /\ ~Replay(r)
  <2>1. PICK l \in {"loadOriginal", "begin"} :
           /\ pc[r] = "lookup" /\ Goto(r, l)
           /\ UNCHANGED <<call, err, sess, reply, txns, audit>>
    BY Zenon, <1>2 DEF Lookup, dbVars, sessVars, tables
  <2> QED
    BY Zenon, <2>1, GoOnTold
<1>3. CASE Refetch(r) /\ ~Replay(r)
  <2>1. /\ pc[r] = "refetch" /\ Goto(r, "auditFailure")
        /\ UNCHANGED <<call, err, sess, reply, txns, audit>>
    BY Zenon, <1>3 DEF Refetch, dbVars, sessVars, tables
  <2>2. err[r] = "ErrIdempotencyConflict" /\ GoType /\ ErrOK(r)
    BY Zenon, <2>1, Known DEF ErrOK
  <2>3. /\ pc'[r] = "auditFailure" /\ err[r] \in Error
        /\ err' = [err EXCEPT ![r] = err[r]]
    BY Zenon, <2>1, <2>2 DEF Goto, GoType, Error, DomainError
  <2>4. ErrOK(r)'
    BY Zenon, <2>1, <2>2, <2>3, NoneAssumption
       DEF ErrOK, InTx, ByKey, AlreadyReversed
  <2> QED
    BY Zenon, <2>1, <2>3, <2>4, MoveTold
<1> QED
  BY Zenon, <1>1, <1>2, <1>3

LEMMA LoadTold ==
  ASSUME IInv, OInv, NEW r \in Request, LoadOriginal(r)
  PROVE  Truthful'
<1>1. pc[r] = "loadOriginal" /\ GoType
  BY Zenon, Known DEF LoadOriginal
<1>2. CASE \E e \in {"ErrTransactionNotFound", "DbError", "ErrNotReversible"} :
              Reject(r, e)
  BY Zenon, <1>1, <1>2, FailTold DEF Error, DomainError
<1>3. CASE \E c : /\ call' = [call EXCEPT ![r] = c] /\ Goto(r, "begin")
                  /\ UNCHANGED <<dbVars, sessVars, err, reply>>
  <2>1. \A q \in Request \ {r} : call'[q] = call[q]
    BY Zenon, <1>1, <1>3 DEF GoType
  <2> QED
    BY Zenon, <1>1, <1>3, <2>1, GoOnTold DEF dbVars, sessVars, tables
<1> QED
  BY Zenon, <1>2, <1>3 DEF LoadOriginal

LEMMA BeginTold ==
  ASSUME IInv, OInv, NEW r \in Request, BeginTx(r)
  PROVE  Truthful'
<1>1. /\ pc[r] = "begin" /\ GoType /\ SessType /\ DbType /\ sess[r] = "none"
      /\ err[r] = None /\ reply[r] = NoReply
  BY Zenon, Known DEF BeginTx, SessOK, ErrOK, ReplyOK
<1>2. CASE Reject(r, "DbError")
  BY <1>1, <1>2, FailTold DEF Error
<1>3. CASE /\ sess' = [sess EXCEPT ![r] = "open"] /\ Goto(r, "lock")
           /\ UNCHANGED <<dbVars, call, err, reply>>
  <2>1. /\ pc'[r] = "lock" /\ sess'[r] = "open"
        /\ \A q \in Request \ {r} : Untouched(q)
    BY Zenon, <1>1, <1>3 DEF Goto, Untouched, GoType, SessType
  <2>2. Told(r)'
    <3>1. ErrOK(r)'
      BY Zenon, <1>1, <1>3, <2>1, NoneAssumption
         DEF ErrOK, InTx, Error, DomainError
    <3>2. AnswerOK(r)'
      BY Zenon, <1>1, <1>3, <2>1, Unanswered
    <3> QED
      BY Zenon, <3>1, <3>2 DEF Told
  <2> QED
    BY Zenon, <1>1, <1>3, <2>1, <2>2, ToldStep DEF dbVars, tables
<1>4. CASE /\ Return(r, "DbError", None, {})
           /\ UNCHANGED <<dbVars, sessVars, call, err>>
  <2>1. /\ pc'[r] = "done" /\ reply'[r].status = "DbError"
        /\ reply'[r].tx = None /\ sess' = sess
        /\ \A q \in Request \ {r} : Untouched(q)
    BY Zenon, <1>1, <1>4 DEF Return, Goto, Untouched, GoType, sessVars
  <2>2. Told(r)'
    <3>1. ErrOK(r)'
      BY Zenon, <1>1, <1>4, <2>1, NoneAssumption
         DEF ErrOK, InTx, Error, DomainError
    <3>2. AnswerOK(r)'
      BY Zenon, <1>1, <1>4, <2>1, NoneAssumption DEF AnswerOK, Error
    <3> QED
      BY Zenon, <3>1, <3>2 DEF Told
  <2> QED
    BY Zenon, <1>1, <1>4, <2>1, <2>2, ToldStep DEF dbVars, tables
<1> QED
  BY Zenon, <1>2, <1>3, <1>4 DEF BeginTx

\* The statements between BEGIN and COMMIT.
LEMMA StatementTold ==
  ASSUME IInv, OInv, NEW r \in Request,
         \/ LockRow(r) \/ ReadBalances(r) \/ Debit(r) \/ Credit(r)
         \/ InsertTransaction(r) \/ InsertEntries(r) \/ StatementFails(r)
  PROVE  Truthful'
<1>1. pc[r] \in InTx \ {"rollback"}
  BY Zenon DEF LockRow, ReadBalances, Debit, Credit, InsertTransaction,
         InsertEntries, StatementFails, InTx
<1>2. CASE \E e \in {"ErrAccountNotFound", "ErrInsufficientFunds", "DbError",
                     "ErrInvalidAmount"} : Fail(r, e)
  BY Zenon, <1>1, <1>2, FailTold DEF Error, DomainError
<1>3. CASE /\ Fail(r, "ErrIdempotencyConflict") /\ ByKey(call[r].key) # {}
  BY <1>1, <1>3, FailTold DEF Error, DomainError
<1>4. CASE Fail(r, "ErrAlreadyReversed") /\ AlreadyReversed(r)
  BY Zenon, <1>1, <1>4, FailTold DEF Error, DomainError
<1>5. CASE \E l \in InTx \ {"rollback"} :
              /\ Goto(r, l) /\ UNCHANGED <<call, err, sess, reply, dbVars>>
  BY Zenon, <1>1, <1>5, GoOnTold DEF dbVars, tables
<1>6. CASE UNCHANGED <<pc, call, err, sess, reply, dbVars>>
  <2>1. /\ DbType /\ (\A q \in Request : Untouched(q)) /\ Told(r)
        /\ txns' = txns /\ audit' = audit
    BY Zenon, <1>6, Known DEF Untouched, dbVars, tables
  <2>2. Told(r)'
    BY Zenon, <2>1, ToldKept
  <2> QED
    BY Zenon, <1>6, <2>1, <2>2, ToldStep
<1>7. LockRow(r) => UNCHANGED <<pc, call, err, sess, reply, dbVars>>
  BY Zenon DEF LockRow, goVars
<1>8. CASE ReadBalances(r)
  BY Zenon, <1>2, <1>5, <1>8 DEF ReadBalances, InTx, sessVars
<1>9. CASE Debit(r) \/ Credit(r)
  BY Zenon, <1>2, <1>5, <1>9 DEF Debit, Credit, UpdateBalance, InTx
<1>10. CASE InsertTransaction(r)
  BY Zenon, <1>3, <1>4, <1>5, <1>10 DEF InsertTransaction, InTx
<1>11. CASE InsertEntries(r) \/ StatementFails(r)
  BY Zenon, <1>2, <1>5, <1>11 DEF InsertEntries, StatementFails, InTx
<1> QED
  BY Zenon, <1>6, <1>7, <1>8, <1>9, <1>10, <1>11

\* The end of a transaction, or its handler's.
LEMMA EndTold ==
  ASSUME IInv, OInv, NEW r \in Request, pc[r] # "done",
         NEW l \in {"auditSuccess", "auditFailure", "refetch", "dead"},
         Goto(r, l), NEW e \in Error \cup {None}, err' = [err EXCEPT ![r] = e],
         NEW s, sess' = [sess EXCEPT ![r] = s], UNCHANGED <<call, reply, audit>>,
         txns \subseteq txns',
         l = "auditSuccess" => e = None, l = "auditFailure" => e # None,
         l = "refetch" => e = "ErrIdempotencyConflict",
         e = "ErrIdempotencyConflict" => ByKey(call[r].key) # {},
         e = "ErrAlreadyReversed" => AlreadyReversed(r),
         s \in {"committed", "indoubt"}
            => e = None \/ (e = "DbError" /\ "commit" \in Faults)
  PROVE  Truthful'
<1>1. GoType /\ SessType /\ DbType /\ reply[r] = NoReply
  BY Zenon, Known DEF ReplyOK
<1>2. /\ pc'[r] = l /\ err'[r] = e /\ sess'[r] = s
      /\ \A q \in Request \ {r} : Untouched(q)
  BY Zenon, <1>1 DEF Goto, Untouched, GoType, SessType
<1>3. ErrOK(r)'
  BY Zenon, <1>2 DEF ErrOK, InTx, ByKey, AlreadyReversed
<1>4. AnswerOK(r)'
  BY Zenon, <1>1, <1>2, Unanswered
<1> QED
  BY Zenon, <1>1, <1>2, <1>3, <1>4, ToldStep DEF Told

LEMMA CommitTold ==
  ASSUME IInv, OInv, NEW r \in Request, Commit(r) \/ Rollback(r) \/ Crash(r)
  PROVE  Truthful'
<1>1. /\ GoType /\ SessType /\ ErrOK(r) /\ SessOK(r)
      /\ err[r] \in Error \cup {None} /\ err' \in [Request -> Error \cup {None}]
      /\ "DbError" \in Error /\ "DbError" # None
  <2>1. GoType /\ SessType /\ ErrOK(r) /\ SessOK(r)
    BY Zenon, Known
  <2> QED
    BY Zenon, <2>1, NoneAssumption DEF GoType, Error, Commit, Rollback, Crash
<1>2. CASE Commit(r)
  <2>1. pc[r] = "commit" /\ txns \subseteq txns' /\ audit' = audit
    BY Zenon, <1>2 DEF Commit, ServerCommits, Publish, dbVars, tables
  <2>2. PICK s : sess' = [sess EXCEPT ![r] = s]
                 /\ \/ DoubleEntry(r) /\ s = "committed" /\ ServerCommits(r)
                    \/ ~DoubleEntry(r) /\ s = "aborted" /\ ServerCommits(r)
                    \/ "commit" \in Faults /\ s = "indoubt" /\ ~ServerCommits(r)
    BY Zenon, <1>2 DEF Commit, ServerCommits, Publish, EndTx
  <2>3. PICK l \in {"auditSuccess", "auditFailure"}, e \in {None, "DbError"} :
           /\ Goto(r, l) /\ err' = [err EXCEPT ![r] = e] /\ UNCHANGED <<call, reply>>
           /\ \/ l = "auditSuccess" /\ e = None
              \/ l = "auditFailure" /\ e = "DbError"
                 /\ (s = "aborted" \/ "commit" \in Faults)
    BY Zenon, <1>2, <2>2 DEF Commit
  <2>4. /\ e \in Error \cup {None} /\ e # "ErrIdempotencyConflict"
        /\ e # "ErrAlreadyReversed" /\ (e = None <=> l = "auditSuccess")
        /\ s = "aborted" \/ e = None \/ (e = "DbError" /\ "commit" \in Faults)
    BY Zenon, <2>2, <2>3, NoneAssumption DEF Error, DomainError
  <2> QED
    BY Zenon, <2>1, <2>2, <2>3, <2>4, EndTold
<1>3. CASE Rollback(r)
  <2>1. PICK l \in {"auditFailure", "refetch"}, s \in {"aborted", "open"} :
           /\ Goto(r, l) /\ sess' = [sess EXCEPT ![r] = s]
           /\ l = "refetch" => err[r] = "ErrIdempotencyConflict"
    BY Zenon, <1>1, <1>3 DEF Rollback, EndTx, sessVars, SessType, SessOK, InTx
  <2>2. /\ pc[r] = "rollback" /\ err' = [err EXCEPT ![r] = err[r]]
        /\ UNCHANGED <<call, reply, audit, txns>>
    BY Zenon, <1>1, <1>3 DEF Rollback, GoType, dbVars, tables
  <2>3. /\ err[r] # None
        /\ err[r] = "ErrIdempotencyConflict" => ByKey(call[r].key) # {}
        /\ err[r] = "ErrAlreadyReversed" => AlreadyReversed(r)
    BY Zenon, <1>1, <2>2 DEF ErrOK
  <2> QED
    BY Zenon, <1>1, <2>1, <2>2, <2>3, EndTold
<1>4. CASE Crash(r)
  <2>1. PICK s : /\ sess' = [sess EXCEPT ![r] = s]
                 /\ s = sess[r] \/ (pc[r] = "commit" /\ s = "indoubt")
    BY Zenon, <1>1, <1>4 DEF Crash, SessType
  <2>2. /\ pc[r] # "done" /\ Goto(r, "dead")
        /\ err' = [err EXCEPT ![r] = err[r]]
        /\ UNCHANGED <<call, reply, audit, txns>>
    BY Zenon, <1>1, <1>4 DEF Crash, Finished, GoType, dbVars, tables
  <2>3. /\ err[r] = "ErrIdempotencyConflict" => ByKey(call[r].key) # {}
        /\ err[r] = "ErrAlreadyReversed" => AlreadyReversed(r)
        /\ s \in {"committed", "indoubt"}
              => err[r] = None \/ (err[r] = "DbError" /\ "commit" \in Faults)
    BY Zenon, <1>1, <2>1 DEF ErrOK, InTx
  <2> QED
    BY Zenon, <1>1, <2>1, <2>2, <2>3, EndTold
<1> QED
  BY Zenon, <1>2, <1>3, <1>4

\* The server ends a transaction whose handler no longer waits for it.
LEMMA ServerTold ==
  ASSUME IInv, OInv, NEW r \in Request, ServerAborts(r) \/ LateCommit(r)
  PROVE  Truthful'
<1>1. GoType /\ SessType /\ DbType /\ ErrOK(r) /\ AnswerOK(r) /\ SessOK(r)
  BY Zenon, Known
<1>2. PICK s \in {"aborted", "committed"} :
         /\ sess' = [sess EXCEPT ![r] = s]
         /\ s = "committed" => sess[r] = "indoubt"
  BY Zenon DEF ServerAborts, LateCommit, ServerCommits, Publish, EndTx
<1>3. /\ sess[r] \in {"open", "indoubt"} /\ audit' = audit
      /\ txns \subseteq txns' /\ UNCHANGED goVars
  BY Zenon DEF ServerAborts, LateCommit, ServerCommits, Publish, dbVars, tables
<1>4. sess'[r] = s /\ \A q \in Request \ {r} : Untouched(q)
  BY Zenon, <1>1, <1>2, <1>3 DEF Untouched, SessType, goVars
<1>5. ErrOK(r)'
  BY Zenon, <1>1, <1>2, <1>3, <1>4 DEF ErrOK, ByKey, AlreadyReversed, goVars
<1>6. AnswerOK(r)'
  BY Zenon, <1>1, <1>3 DEF AnswerOK, goVars
<1> QED
  BY Zenon, <1>1, <1>3, <1>4, <1>5, <1>6, ToldStep DEF Told, goVars

\* The audit row says what the reply says.
LEMMA AuditTold ==
  ASSUME IInv, OInv, NEW r \in Request, AuditSuccess(r) \/ AuditFailure(r)
  PROVE  Truthful'
<1>1. /\ GoType /\ SessType /\ DbType /\ ErrOK(r) /\ SessOK(r) /\ ReplyOK(r)
      /\ Told(r)
  BY Zenon, Known
<1>2. PICK w, st, id :
         /\ Return(r, st, id, {}) /\ w.req = r /\ w.tx = id
         /\ audit' \subseteq audit \cup {w}
         /\ \/ w.outcome = "SUCCESS" /\ st = "ok" /\ id = r
               /\ pc[r] = "auditSuccess"
            \/ w.outcome = "FAILURE" /\ st = err[r] /\ id = None
               /\ pc[r] = "auditFailure"
  <2>1. CASE AuditSuccess(r)
    <3>1. PICK w : w = [req |-> r, outcome |-> "SUCCESS", reason |-> None,
                        tx |-> r]
      BY Zenon
    <3>2. w.req = r /\ w.tx = r /\ w.outcome = "SUCCESS"
      BY Zenon, <3>1
    <3>3. Return(r, "ok", r, {}) /\ audit' \subseteq audit \cup {w}
      BY Zenon, <2>1, <3>1 DEF AuditSuccess, WriteAudit
    <3>4. pc[r] = "auditSuccess"
      BY Zenon, <2>1 DEF AuditSuccess
    <3> QED
      BY Zenon, <3>2, <3>3, <3>4
  <2>2. CASE AuditFailure(r)
    <3>1. PICK w : w = [req |-> r, outcome |-> "FAILURE", reason |-> err[r],
                        tx |-> None]
      BY Zenon
    <3>2. w.req = r /\ w.tx = None /\ w.outcome = "FAILURE"
      BY Zenon, <3>1
    <3>3. Return(r, err[r], None, {}) /\ audit' \subseteq audit \cup {w}
      BY Zenon, <2>2, <3>1 DEF AuditFailure, WriteAudit
    <3>4. pc[r] = "auditFailure"
      BY Zenon, <2>2 DEF AuditFailure
    <3> QED
      BY Zenon, <3>2, <3>3, <3>4
  <2> QED
    BY Zenon, <2>1, <2>2
<1>3. UNCHANGED <<sess, call, err, txns>>
  BY Zenon DEF AuditSuccess, AuditFailure, sessVars, tables
<1>4. /\ pc'[r] = "done" /\ reply'[r].status = st /\ reply'[r].tx = id
      /\ \A q \in Request \ {r} : Untouched(q)
  BY Zenon, <1>1, <1>2, <1>3 DEF Return, Goto, Untouched, GoType
<1>5. /\ st = "ok" \/ (st = err[r] /\ st \in Error /\ id = None)
      /\ w.outcome = "FAILURE" => st \in Error /\ id = None
  BY Zenon, <1>1, <1>2 DEF ErrOK, GoType
<1>6. Told(r)'
  <2>1. ErrOK(r)'
    BY Zenon, <1>1, <1>3, <1>4 DEF ErrOK, InTx, ByKey, AlreadyReversed
  <2>2. AnswerOK(r)'
    BY Zenon, <1>2, <1>3, <1>4, <1>5, NoneAssumption
       DEF AnswerOK, Error, DomainError
  <2> QED
    BY Zenon, <2>1, <2>2 DEF Told
<1>7. \A q \in Request : Told(q)'
  BY Zenon, <1>3, <1>4, <1>6, ToldKept DEF OInv, Told
<1>8. ASSUME NEW v \in audit' PROVE AuditOK(v)'
  <2>1. CASE v \in audit
    <3>1. AuditOK(v) /\ v.req \in Request \ {r}
      BY Zenon, <1>1, <1>2, <2>1 DEF OInv, AuditOK, DbType, AuditRow
    <3> QED
      BY Zenon, <1>3, <1>4, <3>1, AuditRowKept DEF Untouched
  <2>2. CASE v = w
    <3>1. pc[r] = "auditSuccess" => \E t \in txns : t.id = r
      BY Zenon, <1>1 DEF SessOK, ReplyOK
    <3>2. CASE w.outcome = "SUCCESS"
      BY Zenon, <1>2, <1>3, <1>4, <2>2, <3>1, <3>2 DEF AuditOK, Committed
    <3>3. CASE w.outcome = "FAILURE"
      BY Zenon, <1>2, <1>4, <1>5, <2>2, <3>3 DEF AuditOK
    <3> QED
      BY Zenon, <1>2, <3>2, <3>3
  <2> QED
    BY Zenon, <1>2, <2>1, <2>2
<1> QED
  BY Zenon, <1>7, <1>8 DEF Truthful

\* Steps of no request.
LEMMA IdleTold ==
  ASSUME IInv, OInv,
         UNCHANGED vars \/ AtRest \/ \E a \in AccountId : CreateAccount(a)
  PROVE  Truthful'
<1>1. /\ DbType /\ (\A q \in Request : Untouched(q)) /\ audit' = audit
      /\ txns' = txns
  BY Zenon DEF IInv, TypeOK, AtRest, CreateAccount, vars, goVars, dbVars,
               tables, sessVars, Untouched
<1>2. \A q \in Request : Told(q)'
  BY Zenon, <1>1, ToldKept DEF OInv, Told
<1>3. ASSUME NEW w \in audit PROVE AuditOK(w)'
  <2>1. AuditOK(w) /\ w.req \in Request
    BY Zenon, <1>1 DEF OInv, DbType, AuditRow
  <2> QED
    BY Zenon, <1>1, <2>1, AuditRowKept DEF Untouched
<1> QED
  BY Zenon, <1>1, <1>2, <1>3 DEF Truthful

LEMMA NextTold == IInv /\ OInv /\ [Next]_vars => Truthful'
<1> SUFFICES ASSUME IInv, OInv, [Next]_vars PROVE Truthful'
  OBVIOUS
<1> QED
  BY Zenon, EnterTold, LookupTold, LoadTold, BeginTold, StatementTold,
     CommitTold, ServerTold, AuditTold, IdleTold
     DEF Next, Step, TransferBody, DepositBody, ReverseBody, TxBody

-----------------------------------------------------------------------------
(* Row locks *)

Orderly == IsFiniteSet(LockedRows) /\ \A q \in Request : OrderOK(q)

\* A step of r that takes no lock and leaves the others where they are.
LEMMA OrderStep ==
  ASSUME IInv, OInv, NEW r \in Request, lock' = lock \/ lock' = Released(r),
         \A q \in Request \ {r} : pc'[q] = pc[q] /\ found'[q] = found[q],
         pc'[r] = "lock" => Held(r)' = {}
  PROVE  Orderly'
<1>1. \A a \in AccountId : lock'[a] = lock[a] \/ (lock[a] = r /\ lock'[a] = None)
  BY Zenon DEF Released
<1>2. \A q \in Request \ {r} : Held(q)' = Held(q)
  BY Zenon, <1>1, IdAssumption DEF Held
<1>3. \A q \in Request : OrderOK(q)'
  <2>1. OrderOK(r)'
    BY Zenon DEF OrderOK
  <2>2. ASSUME NEW q \in Request \ {r} PROVE OrderOK(q)'
    BY Zenon, <1>2 DEF OInv, OrderOK
  <2> QED
    BY Zenon, <2>1, <2>2
<1>4. LockedRows' \subseteq LockedRows
  BY Zenon, <1>1 DEF LockedRows
<1> QED
  BY Zenon, <1>3, <1>4, FS_Subset DEF Orderly, OInv

LEMMA LockOrder ==
  ASSUME IInv, OInv, NEW r \in Request, LockRow(r)
  PROVE  Orderly'
<1>1. PICK a \in NextToLock(r) :
         lock[a] = None /\ lock' = [lock EXCEPT ![a] = r]
  BY Zenon DEF LockRow
<1>2. /\ GoType /\ SessType /\ pc[r] = "lock" /\ OrderOK(r)
      /\ pc' = pc /\ found' = found
  BY Zenon DEF IInv, OInv, TypeOK, LockRow, goVars
<1>3. /\ a \in AccountId /\ a \in found[r] /\ found[r] \subseteq Int
      /\ \A b \in found[r] \ Held(r) : a <= b
  BY Zenon, <1>1, <1>2, AccountAssumption DEF NextToLock, GoType
<1>4. \A b \in AccountId : lock'[b] = IF b = a THEN r ELSE lock[b]
  <2>1. lock \in [AccountId -> Request \cup {None}]
    BY Zenon, <1>2 DEF SessType
  <2> QED
    BY Zenon, <1>1, <1>3, <2>1
<1>5. Held(r)' = Held(r) \cup {a} /\ \A q \in Request \ {r} : Held(q)' = Held(q)
  BY Zenon, <1>1, <1>3, <1>4, IdAssumption DEF Held
<1>6. OrderOK(r)'
  <2>1. Held(r) \subseteq found[r]
        /\ \A x \in Held(r), y \in found[r] \ Held(r) : x < y
    BY Zenon, <1>2 DEF OrderOK
  <2>2. Held(r)' \subseteq found'[r]
    BY Zenon, <1>2, <1>3, <1>5, <2>1
  <2>3. ASSUME NEW x \in Held(r)', NEW y \in found'[r] \ Held(r)' PROVE x < y
    <3>1. y \in found[r] \ Held(r) /\ y # a /\ y \in Int /\ a \in Int
      BY Zenon, <1>2, <1>3, <1>5
    <3>2. a < y
      BY <1>3, <3>1
    <3> QED
      BY Zenon, <1>5, <2>1, <3>1, <3>2
  <2> QED
    BY Zenon, <2>2, <2>3 DEF OrderOK
<1>7. \A q \in Request \ {r} : OrderOK(q)'
  BY Zenon, <1>2, <1>5 DEF OInv, OrderOK
<1>8. LockedRows' \subseteq LockedRows \cup {a}
  BY Zenon, <1>4 DEF LockedRows
<1>9. IsFiniteSet(LockedRows \cup {a})
  BY Zenon, FS_AddElement DEF OInv
<1> QED
  BY Zenon, <1>6, <1>7, <1>8, <1>9, FS_Subset DEF Orderly

LEMMA NextOrder == IInv /\ OInv /\ [Next]_vars => Orderly'
<1> SUFFICES ASSUME IInv, OInv, [Next]_vars PROVE Orderly'
  OBVIOUS
<1> DEFINE Leaves(r) ==
             /\ lock' = lock \/ lock' = Released(r)
             /\ \A q \in Request \ {r} : pc'[q] = pc[q] /\ found'[q] = found[q]
             /\ pc'[r] # "lock"
<1>0. ASSUME NEW r \in Request, Leaves(r) PROVE Orderly'
  BY Zenon, <1>0, OrderStep
<1>1. GoType /\ SessType
  BY Zenon DEF IInv, TypeOK
<1>2. ASSUME NEW r \in Request, NEW l, l # "lock", Goto(r, l), found' = found,
             lock' = lock \/ lock' = Released(r)
      PROVE  Orderly'
  BY Zenon, <1>0, <1>1, <1>2 DEF Goto, GoType
<1>3. ASSUME NEW r \in Request, NEW e, Fail(r, e) \/ Reject(r, e)
      PROVE  Orderly'
  BY Zenon, <1>2, <1>3 DEF Fail, Reject, sessVars
<1>4. ASSUME NEW r \in Request, Transfer(r) \/ Deposit(r) \/ Reverse(r)
      PROVE  Orderly'
  BY Zenon, <1>2, <1>4 DEF Transfer, Deposit, Reverse, Enter, sessVars
<1>5. ASSUME NEW r \in Request, Lookup(r) \/ LoadOriginal(r) \/ Refetch(r)
      PROVE  Orderly'
  BY Zenon, <1>2, <1>3, <1>5
     DEF Lookup, LoadOriginal, Refetch, Replay, Return, sessVars
<1>6. ASSUME NEW r \in Request, BeginTx(r) PROVE Orderly'
  <2>1. pc[r] = "begin" /\ Held(r) = {}
    BY Zenon, <1>6 DEF BeginTx, IInv, ReqInv, SessOK, Held
  <2>2. CASE /\ found' = [found EXCEPT
                            ![r] = {call[r].from, call[r].to} \cap exists]
             /\ Goto(r, "lock") /\ lock' = lock
    <3>1. Held(r)' = {}
      BY Zenon, <2>1, <2>2 DEF Held
    <3>2. \A q \in Request \ {r} : pc'[q] = pc[q] /\ found'[q] = found[q]
      BY Zenon, <1>1, <2>2 DEF Goto, GoType
    <3> QED
      BY Zenon, <2>2, <3>1, <3>2, OrderStep
  <2>3. CASE Return(r, "DbError", None, {}) /\ found' = found /\ lock' = lock
    BY Zenon, <1>2, <2>3 DEF Return
  <2> QED
    BY Zenon, <1>3, <1>6, <2>2, <2>3 DEF BeginTx, sessVars
<1>7. ASSUME NEW r \in Request,
             \/ ReadBalances(r) \/ Debit(r) \/ Credit(r)
             \/ InsertTransaction(r) \/ InsertEntries(r) \/ StatementFails(r)
      PROVE  Orderly'
  <2>1. CASE ReadBalances(r) \/ StatementFails(r)
    BY Zenon, <1>2, <1>3, <2>1 DEF ReadBalances, StatementFails, sessVars
  <2>2. CASE Debit(r) \/ Credit(r)
    BY Zenon, <1>2, <1>3, <2>2 DEF Debit, Credit, UpdateBalance
  <2>3. CASE InsertTransaction(r) \/ InsertEntries(r)
    BY Zenon, <1>2, <1>3, <2>3 DEF InsertTransaction, InsertEntries
  <2> QED
    BY Zenon, <1>7, <2>1, <2>2, <2>3
<1>8. ASSUME NEW r \in Request, Commit(r) \/ Rollback(r) PROVE Orderly'
  <2>1. lock' = lock \/ lock' = Released(r)
    BY Zenon, <1>8 DEF Commit, Rollback, ServerCommits, Publish, EndTx, sessVars
  <2>2. PICK l \in {"auditSuccess", "auditFailure", "refetch"} :
           Goto(r, l) /\ found' = found
    BY Zenon, <1>8 DEF Commit, Rollback
  <2> QED
    BY Zenon, <1>2, <2>1, <2>2
<1>9. ASSUME NEW r \in Request, AuditSuccess(r) \/ AuditFailure(r) \/ Crash(r)
      PROVE  Orderly'
  BY Zenon, <1>2, <1>9 DEF AuditSuccess, AuditFailure, Crash, Return, sessVars
<1>10. ASSUME NEW r \in Request, ServerAborts(r) \/ LateCommit(r)
       PROVE  Orderly'
  <2>1. pc[r] \notin InTx
    BY Zenon, <1>10 DEF ServerAborts, LateCommit, IInv, ReqInv, SessOK
  <2>2. lock' = Released(r) /\ pc' = pc /\ found' = found
    BY Zenon, <1>10
       DEF ServerAborts, LateCommit, ServerCommits, Publish, EndTx, goVars
  <2> QED
    BY Zenon, <1>0, <2>1, <2>2 DEF InTx
<1>11. ASSUME \/ UNCHANGED vars \/ AtRest \/ \E a \in AccountId : CreateAccount(a)
       PROVE  Orderly'
  <2>1. UNCHANGED <<lock, pc, found>>
    BY Zenon, <1>11 DEF AtRest, CreateAccount, vars, sessVars, goVars
  <2>2. LockedRows' = LockedRows /\ \A q \in Request : OrderOK(q)'
    BY Zenon, <2>1 DEF OInv, OrderOK, Held, LockedRows
  <2> QED
    BY Zenon, <2>2 DEF OInv, Orderly
<1> QED
  BY Zenon, <1>4, <1>5, <1>6, <1>7, <1>8, <1>9, <1>10, <1>11, LockOrder
     DEF Next, Step, TransferBody, DepositBody, ReverseBody, TxBody

-----------------------------------------------------------------------------
(* The invariant *)

LEMMA InitOInv == Init => OInv
<1> SUFFICES ASSUME Init PROVE OInv
  OBVIOUS
<1>1. LockedRows = {} /\ audit = {}
  BY Zenon DEF Init, LockedRows
<1>2. ASSUME NEW r \in Request PROVE ErrOK(r) /\ AnswerOK(r) /\ OrderOK(r)
  BY Zenon, NoneAssumption
     DEF Init, ErrOK, AnswerOK, OrderOK, NoReply, InTx, Error,
                        DomainError
<1> QED
  BY Zenon, <1>1, <1>2, FS_EmptySet DEF OInv

LEMMA NextOInv == IInv /\ OInv /\ [Next]_vars => OInv'
  BY Zenon, NextTold, NextOrder DEF OInv, Truthful, Told, Orderly

-----------------------------------------------------------------------------
(* No circle of waiting transactions *)

\* A non-empty set of natural numbers has a least element.
LEMMA LeastNat ==
  ASSUME NEW T, T \subseteq Nat, T # {}
  PROVE  \E x \in T : \A y \in T : x <= y
<1> DEFINE R == OpToRel(<, Nat)
<1>1. IsWellFoundedOn(R, Nat)
  BY Zenon, NatLessThanWellFounded
<1>2. \A x, y \in Nat : <<x, y>> \in R <=> x < y
  BY Zenon DEF OpToRel
<1> HIDE DEF R
<1>3. \E x \in T : \A y \in T : ~(<<y, x>> \in R)
  BY Zenon, <1>1, WFMin
<1>4. \A x \in T : x \in Nat
  OBVIOUS
<1>5. \A x, y \in T : ~(<<y, x>> \in R) => x <= y
  BY <1>2, <1>4
<1> QED
  BY Zenon, <1>3, <1>5

\* A non-empty finite set of integers has a greatest element: the one with
\* the fewest elements above it.
LEMMA Greatest ==
  ASSUME NEW W, W \subseteq Int, W # {}, IsFiniteSet(W)
  PROVE  \E a \in W : \A b \in W : b <= a
<1> DEFINE Above(a) == {b \in W : b > a}
           T == {Cardinality(Above(a)) : a \in W}
<1>1. \A a \in W : IsFiniteSet(Above(a)) /\ Cardinality(Above(a)) \in Nat
  <2> TAKE a \in W
  <2>1. IsFiniteSet(Above(a))
    BY Zenon, FS_Subset
  <2> QED
    BY Zenon, <2>1, FS_CardinalityType
<1>2. PICK a \in W : \A b \in W : Cardinality(Above(a)) <= Cardinality(Above(b))
  <2>1. T \subseteq Nat /\ T # {}
    BY Zenon, <1>1
  <2> HIDE DEF Above
  <2>2. PICK x \in T : \A y \in T : x <= y
    BY Zenon, <2>1, LeastNat
  <2> QED
    BY Zenon, <2>2
<1>3. ASSUME NEW b \in W, b > a PROVE FALSE
  <2>1. \A c \in W : c \in Int
    OBVIOUS
  <2>2. a \in Int /\ b \in Int /\ ~(b > b)
    BY <2>1
  <2>3. \A c \in W : c > b => c > a
    BY <1>3, <2>1, <2>2
  <2>4. Above(b) \in SUBSET Above(a) /\ b \in Above(a) /\ b \notin Above(b)
    BY Zenon, <1>3, <2>2, <2>3
  <2>5. /\ Cardinality(Above(b)) <= Cardinality(Above(a))
        /\ Cardinality(Above(b)) # Cardinality(Above(a))
    BY Zenon, <1>1, <2>4, FS_Subset
  <2> QED
    BY <1>1, <1>2, <2>5
<1>4. \A b \in W : b \in Int
  OBVIOUS
<1> QED
  BY <1>3, <1>4

\* A transaction that waits at its INSERT waits for one that waits for nobody,
\* so a circle could only be one of row locks; and there every transaction
\* would hold a row below the one it waits for.
LEMMA NoCircle == IInv /\ OInv => NoDeadlock
<1> SUFFICES ASSUME IInv, OInv, NEW S \in (SUBSET Request) \ {{}},
                    \A r \in S : Blockers(r) \cap S # {}
             PROVE  FALSE
  BY Zenon DEF NoDeadlock
<1>1. /\ GoType /\ SessType
      /\ \A r \in Request : SessOK(r) /\ RowOK(r) /\ OrderOK(r)
  BY Zenon DEF IInv, OInv, TypeOK, ReqInv
<1>2. ASSUME NEW s \in Request, header[s] # None PROVE Blockers(s) = {}
  <2>1. pc[s] \in {"lock", "insertTx"} => sess[s] = "open"
    BY Zenon, <1>1 DEF SessOK, InTx
  <2>2. pc[s] \notin {"lock", "insertTx"}
    BY Zenon, <1>1, <1>2, <2>1 DEF RowOK, Stage, Writing
  <2> QED
    BY Zenon, <2>2 DEF Blockers
<1>3. ASSUME NEW r \in S
      PROVE  /\ pc[r] = "lock"
             /\ \E a \in NextToLock(r) : lock[a] \in S
  <2>1. PICK s \in S : s \in Blockers(r)
    OBVIOUS
  <2>2. Blockers(s) # {} /\ s \in Request
    OBVIOUS
  <2>3. header[s] = None
    BY Zenon, <1>2, <2>2
  <2> QED
    BY Zenon, <2>1, <2>3 DEF Blockers
<1> DEFINE W == {a \in AccountId :
                   lock[a] \in S /\ \E r \in S : a \in NextToLock(r)}
<1>4. \A r \in S : \E a \in NextToLock(r) : a \in W
  <2> TAKE r \in S
  <2>1. PICK a \in NextToLock(r) : lock[a] \in S
    BY Zenon, <1>3
  <2>2. a \in AccountId
    BY Zenon, <1>1, <2>1 DEF NextToLock, GoType
  <2> QED
    BY Zenon, <2>1, <2>2
<1>5. W # {} /\ W \subseteq Int /\ W \subseteq LockedRows
  <2>1. \A a \in W : lock[a] # None
    BY Zenon, IdAssumption
  <2> QED
    BY Zenon, <1>4, <2>1, AccountAssumption DEF LockedRows
<1>6. IsFiniteSet(W)
  BY Zenon, <1>5, FS_Subset DEF OInv
<1> HIDE DEF W
<1>7. PICK a \in W : \A b \in W : b <= a
  BY Zenon, <1>5, <1>6, Greatest
<1> USE DEF W
<1>8. PICK r \in S : r = lock[a]
  OBVIOUS
<1>9. PICK b \in NextToLock(r) : b \in W
  BY Zenon, <1>4
<1>10. a \in Held(r) /\ b \in found[r] \ Held(r) /\ pc[r] = "lock"
  BY Zenon, <1>3, <1>8, <1>9 DEF Held, NextToLock
<1>11. a < b
  BY Zenon, <1>1, <1>10 DEF OrderOK
<1>12. a \in Int /\ b \in Int
  BY Zenon, <1>5, <1>9
<1> QED
  BY <1>7, <1>9, <1>11, <1>12

-----------------------------------------------------------------------------
(* What the answers say, state by state *)

LEMMA ConflictFound == OInv => ConflictIsReplayable
  BY Zenon DEF OInv, ErrOK, ConflictIsReplayable

LEMMA SuccessShown == IInv /\ OInv => SuccessIsCommitted
<1> SUFFICES ASSUME IInv, OInv,
                    NEW id \in {w.tx : w \in audit}
                               \cup {reply[r].tx : r \in Request},
                    id # None
             PROVE  /\ \E t \in txns : t.id = id
                    /\ Cardinality(EntriesOf(id)) = 2
  BY Zenon DEF SuccessIsCommitted
<1>1. \E t \in txns : t.id = id
  <2>1. CASE \E w \in audit : id = w.tx
    <3>1. PICK w \in audit : id = w.tx
      BY Zenon, <2>1
    <3>2. w \in AuditRow /\ AuditOK(w)
      BY Zenon DEF IInv, OInv, TypeOK, DbType
    <3> QED
      BY Zenon, <3>1, <3>2 DEF AuditRow, AuditOK, Committed
  <2>2. CASE \E r \in Request : id = reply[r].tx
    <3>1. PICK r \in Request : id = reply[r].tx
      BY Zenon, <2>2
    <3>2. AnswerOK(r) /\ ReplyOK(r)
      BY Zenon DEF IInv, OInv, ReqInv
    <3> QED
      BY Zenon, <3>1, <3>2 DEF AnswerOK, ReplyOK
  <2> QED
    BY Zenon, <2>1, <2>2
<1>2. PICK t \in txns : t.id = id
  BY Zenon, <1>1
<1>3. Balanced(t)
  BY Zenon DEF IInv, Books, BookInv
<1>4. PICK d, c : EntriesOf(id) = {d, c} /\ d # c
  <2>1. \E d, c : EntriesOf(t.id) = {d, c} /\ d # c
    BY <1>3 DEF Balanced
  <2> QED
    BY Zenon, <1>2, <2>1
<1>5. Cardinality({d, c}) = 2
  <2>1. IsFiniteSet({d}) /\ Cardinality({d}) = 1
    BY Zenon, FS_Singleton
  <2>2. Cardinality({d} \cup {c}) = Cardinality({d}) + 1
    BY Zenon, <1>4, <2>1, FS_AddElement
  <2>3. {d, c} = {d} \cup {c}
    OBVIOUS
  <2> QED
    BY <2>1, <2>2, <2>3
<1> QED
  BY Zenon, <1>1, <1>4, <1>5

\* A failed call has no rows, and none to come unless its COMMIT is in doubt.
LEMMA FailureShown ==
  ASSUME IInv, OInv, NEW r \in Request, reply[r].status \in Error,
         reply[r].status \in DomainError \/ "commit" \notin Faults
  PROVE  ~Committed(r) /\ sess[r] # "indoubt"
<1>1. ErrOK(r) /\ AnswerOK(r) /\ FreshOK(r)
  BY Zenon DEF IInv, OInv, ReqInv
<1>2. sess[r] \notin {"committed", "indoubt"}
  BY Zenon, <1>1, NoneAssumption DEF ErrOK, AnswerOK, DomainError
<1> QED
  BY Zenon, <1>1, <1>2 DEF FreshOK, Committed

LEMMA FailureQuiet ==
  ASSUME "commit" \notin Faults, IInv, OInv
  PROVE  FailureLeavesNoTrace
<1> SUFFICES ASSUME NEW r \in Request,
                    \/ reply[r].status \in Error
                    \/ \E w \in audit : w.req = r /\ w.outcome = "FAILURE"
             PROVE  ~Committed(r)
  BY Zenon DEF FailureLeavesNoTrace
<1>1. reply[r].status \in Error
  BY Zenon DEF OInv, AuditOK
<1> QED
  BY Zenon, <1>1, FailureShown

LEMMA RejectionShown == IInv /\ OInv => RejectionIsFinal
  BY Zenon, FailureShown DEF RejectionIsFinal, Error

-----------------------------------------------------------------------------
(* The audit log is complete while its INSERT works *)

Outcomes(q) == {w.outcome : w \in {w \in audit : w.req = q}}
Logged(q) ==
    pc[q] = "done" =>
        Outcomes(q) = IF reply[q].status # "ok" THEN {"FAILURE"}
                      ELSE IF reply[q].tx = q THEN {"SUCCESS"} ELSE {}

LEMMA LoggedKept ==
  ASSUME NEW r \in Request, AuditComplete, audit \subseteq audit',
         \A w \in audit' \ audit : w.req = r,
         \A q \in Request \ {r} : pc'[q] = pc[q] /\ reply'[q] = reply[q],
         Logged(r)'
  PROVE  AuditComplete'
<1>1. ASSUME NEW q \in Request \ {r} PROVE Logged(q)'
  <2>1. Outcomes(q)' = Outcomes(q)
    BY Zenon DEF Outcomes
  <2> QED
    BY <2>1 DEF AuditComplete, Logged, Outcomes
<1> QED
  BY <1>1 DEF AuditComplete, Logged, Outcomes

\* A handler that goes on without an answer.
LEMMA LoggedGoto ==
  ASSUME GoType, NEW r \in Request, AuditComplete, NEW l, l # "done",
         Goto(r, l), UNCHANGED <<audit, reply>>
  PROVE  AuditComplete'
<1>1. pc'[r] = l /\ \A q \in Request \ {r} : pc'[q] = pc[q]
  BY Zenon DEF GoType, Goto
<1>2. Logged(r)'
  BY Zenon, <1>1 DEF Logged
<1> QED
  BY Zenon, <1>1, <1>2, LoggedKept

LEMMA LoggedReplay ==
  ASSUME IInv, OInv, NEW r \in Request, AuditComplete,
         pc[r] \in {"lookup", "refetch"}, Replay(r)
  PROVE  AuditComplete'
<1>1. GoType /\ SessOK(r) /\ ErrOK(r) /\ FreshOK(r) /\ audit' = audit
  BY Zenon, Known DEF Replay, dbVars
<1>2. sess[r] # "committed"
  BY Zenon, <1>1, NoneAssumption DEF SessOK, ErrOK, Error, DomainError
<1>3. PICK t \in txns : Return(r, "ok", t.id, EntriesOf(t.id))
  BY Zenon DEF Replay, ByKey
<1>4. /\ pc'[r] = "done" /\ reply'[r].status = "ok" /\ reply'[r].tx # r
      /\ \A q \in Request \ {r} : pc'[q] = pc[q] /\ reply'[q] = reply[q]
  BY Zenon, <1>1, <1>2, <1>3 DEF Return, Goto, GoType, FreshOK
<1>5. \A w \in audit : w.req # r
  BY Zenon DEF OInv, AuditOK
<1>6. Logged(r)'
  BY Zenon, <1>1, <1>4, <1>5 DEF Logged, Outcomes
<1> QED
  BY Zenon, <1>1, <1>4, <1>6, LoggedKept

LEMMA LoggedAudit ==
  ASSUME AuditReliable, AmountOK, IInv, OInv, NEW r \in Request, AuditComplete,
         AuditSuccess(r) \/ AuditFailure(r)
  PROVE  AuditComplete'
<1>1. /\ GoType /\ ErrOK(r) /\ Representable(call[r].amount)
      /\ "audit" \notin Faults
  BY Zenon, Known DEF AmountOK, AuditReliable
<1>2. PICK w, st :
         /\ Return(r, st, w.tx, {}) /\ w.req = r /\ audit' = audit \cup {w}
         /\ \/ w.outcome = "SUCCESS" /\ st = "ok" /\ w.tx = r
            \/ w.outcome = "FAILURE" /\ st # "ok"
  <2>1. CASE AuditSuccess(r)
    <3>1. PICK w : w = [req |-> r, outcome |-> "SUCCESS", reason |-> None,
                        tx |-> r]
      BY Zenon
    <3>2. w.req = r /\ w.tx = r /\ w.outcome = "SUCCESS"
      BY Zenon, <3>1
    <3>3. Return(r, "ok", r, {}) /\ audit' = audit \cup {w}
      BY Zenon, <1>1, <2>1, <3>1 DEF AuditSuccess, WriteAudit
    <3> QED
      BY Zenon, <3>2, <3>3
  <2>2. CASE AuditFailure(r)
    <3>1. PICK w : w = [req |-> r, outcome |-> "FAILURE", reason |-> err[r],
                        tx |-> None]
      BY Zenon
    <3>2. w.req = r /\ w.tx = None /\ w.outcome = "FAILURE"
      BY Zenon, <3>1
    <3>3. Return(r, err[r], None, {}) /\ audit' = audit \cup {w}
      BY Zenon, <1>1, <2>2, <3>1 DEF AuditFailure, WriteAudit
    <3>4. err[r] # "ok"
      BY Zenon, <1>1, <2>2, NoneAssumption
         DEF AuditFailure, ErrOK, GoType, Error, DomainError
    <3> QED
      BY Zenon, <3>2, <3>3, <3>4
  <2> QED
    BY Zenon, <2>1, <2>2
<1>3. /\ pc'[r] = "done" /\ reply'[r].status = st /\ reply'[r].tx = w.tx
      /\ \A q \in Request \ {r} : pc'[q] = pc[q] /\ reply'[q] = reply[q]
  BY Zenon, <1>1, <1>2 DEF Return, Goto, GoType
<1>4. \A v \in audit : v.req # r
  BY Zenon DEF OInv, AuditOK, AuditSuccess, AuditFailure
<1>5. Outcomes(r)' = {w.outcome}
  BY Zenon, <1>2, <1>4 DEF Outcomes
<1>6. Logged(r)'
  BY Zenon, <1>2, <1>3, <1>5 DEF Logged
<1> QED
  BY Zenon, <1>2, <1>3, <1>6, LoggedKept

LEMMA NextLogged ==
  AuditReliable /\ AmountOK /\ IInv /\ OInv /\ AuditComplete /\ [Next]_vars
      => AuditComplete'
<1> SUFFICES ASSUME AuditReliable, AmountOK, IInv, OInv, AuditComplete,
                    [Next]_vars
             PROVE  AuditComplete'
  OBVIOUS
<1>1. GoType
  BY Zenon DEF IInv, TypeOK
<1>2. ASSUME NEW r \in Request, NEW l, l # "done", Goto(r, l),
             UNCHANGED <<audit, reply>>
      PROVE  AuditComplete'
  BY Zenon, <1>1, <1>2, LoggedGoto
<1>3. ASSUME UNCHANGED <<pc, reply, audit>> PROVE AuditComplete'
  BY Zenon, <1>3 DEF AuditComplete
<1>4. ASSUME NEW r \in Request, NEW e, Fail(r, e) \/ Reject(r, e)
      PROVE  AuditComplete'
  BY Zenon, <1>2, <1>4 DEF Fail, Reject, dbVars
<1>5. ASSUME NEW r \in Request, Transfer(r) \/ Deposit(r) \/ Reverse(r)
      PROVE  AuditComplete'
  BY Zenon, <1>2, <1>5 DEF Transfer, Deposit, Reverse, Enter, dbVars
<1>6. ASSUME NEW r \in Request, Lookup(r) \/ LoadOriginal(r) \/ Refetch(r)
      PROVE  AuditComplete'
  BY Zenon, <1>2, <1>4, <1>6, LoggedReplay
     DEF Lookup, LoadOriginal, Refetch, dbVars
<1>7. ASSUME NEW r \in Request, BeginTx(r) \/ ReadBalances(r) \/ StatementFails(r)
      PROVE  AuditComplete'
  BY Zenon, <1>2, <1>4, <1>7
     DEF BeginTx, ReadBalances, StatementFails, AuditReliable, dbVars
<1>8. ASSUME NEW r \in Request, Debit(r) \/ Credit(r) PROVE AuditComplete'
  BY Zenon, <1>2, <1>4, <1>8 DEF Debit, Credit, UpdateBalance, dbVars
<1>9. ASSUME NEW r \in Request, InsertTransaction(r) \/ InsertEntries(r)
      PROVE  AuditComplete'
  BY Zenon, <1>2, <1>4, <1>9 DEF InsertTransaction, InsertEntries, dbVars
<1>10. ASSUME NEW r \in Request, Commit(r) \/ Rollback(r) \/ Crash(r)
       PROVE  AuditComplete'
  <2>1. PICK l \in {"auditSuccess", "auditFailure", "refetch", "dead"} :
           Goto(r, l)
    BY Zenon, <1>10 DEF Commit, Rollback, Crash
  <2>2. UNCHANGED <<audit, reply>>
    BY Zenon, <1>10 DEF Commit, Rollback, Crash, ServerCommits, Publish, dbVars
  <2> QED
    BY Zenon, <1>2, <2>1, <2>2
<1>11. ASSUME NEW r \in Request, LockRow(r) \/ ServerAborts(r) \/ LateCommit(r)
       PROVE  AuditComplete'
  BY Zenon, <1>3, <1>11
     DEF LockRow, ServerAborts, LateCommit, ServerCommits, Publish,
                     goVars, dbVars
<1>12. ASSUME UNCHANGED vars \/ AtRest \/ \E a \in AccountId : CreateAccount(a)
       PROVE  AuditComplete'
  BY Zenon, <1>3, <1>12 DEF AtRest, CreateAccount, vars, goVars, dbVars
<1> QED
  BY Zenon, <1>5, <1>6, <1>7, <1>8, <1>9, <1>10, <1>11, <1>12, LoggedAudit
     DEF Next, Step, TransferBody, DepositBody, ReverseBody, TxBody

\* Amounts come from the calls and from stored entries only.
LEMMA NextAmount ==
  AuditReliable /\ AmountOK /\ IInv /\ [Next]_vars => AmountOK'
<1> SUFFICES ASSUME AuditReliable, AmountOK, IInv, [Next]_vars PROVE AmountOK'
  OBVIOUS
<1>1. GoType /\ \A r \in Request : ReqInv(r)
  BY Zenon DEF IInv, TypeOK
<1>2. ASSUME UNCHANGED <<call, entries>> PROVE AmountOK'
  BY Zenon, <1>2 DEF AmountOK
<1>3. ASSUME NEW r \in Request, NEW c, Representable(c.amount),
             call' = [call EXCEPT ![r] = c], entries' = entries
      PROVE  AmountOK'
  BY Zenon, <1>1, <1>3 DEF AmountOK, GoType
<1>4. ASSUME NEW r \in Request, Transfer(r) \/ Deposit(r) \/ Reverse(r)
      PROVE  AmountOK'
  BY Zenon, <1>3, <1>4
     DEF Transfer, Deposit, Reverse, Enter, AuditReliable, dbVars,
                    tables
<1>5. ASSUME NEW r \in Request, LoadOriginal(r) PROVE AmountOK'
  <2>1. CASE \E e : Reject(r, e)
    BY Zenon, <1>2, <2>1 DEF Reject, dbVars, tables
  <2>2. CASE \E d, c \in entries : /\ call' = [call EXCEPT ![r] = Mirror(@, d, c)]
                                   /\ UNCHANGED dbVars
    <3>1. PICK d, c \in entries : /\ call' = [call EXCEPT ![r] = Mirror(@, d, c)]
                                  /\ UNCHANGED dbVars
      BY Zenon, <2>2
    <3>2. PICK m : m = Mirror(call[r], d, c)
      OBVIOUS
    <3>3. m.amount = d.amount
      <4>1. call[r] \in Call \cup {NoCall}
        BY Zenon, <1>1 DEF GoType
      <4> QED
        BY Zenon, <3>2, <4>1 DEF Mirror, Call, NoCall
    <3>4. call' = [call EXCEPT ![r] = m] /\ entries' = entries
      BY Zenon, <1>1, <3>1, <3>2 DEF GoType, dbVars, tables
    <3> QED
      BY Zenon, <1>3, <3>3, <3>4 DEF AmountOK
  <2> QED
    BY Zenon, <1>5, <2>1, <2>2 DEF LoadOriginal, Side, EntriesOf
<1>6. ASSUME NEW r \in Request, Stage(r) = "commit", ServerCommits(r),
             call' = call
      PROVE  AmountOK'
  <2> PICK d, k : /\ d = Entry(r, call[r].from, "DEBIT", call[r].amount)
                  /\ k = Entry(r, call[r].to, "CREDIT", call[r].amount)
    OBVIOUS
  <2>1. legs[r] = {d, k}
    BY Zenon, <1>1, <1>6 DEF ReqInv, RowOK, Writing
  <2>2. \A e \in legs[r] : e.amount = call[r].amount
    <3>1. d.amount = call[r].amount /\ k.amount = call[r].amount
      BY Zenon DEF Entry
    <3> QED
      BY Zenon, <2>1, <3>1
  <2>3. entries' \subseteq entries \cup legs[r]
    BY Zenon, <1>6 DEF ServerCommits, Publish, dbVars, tables
  <2> QED
    BY Zenon, <1>6, <2>2, <2>3 DEF AmountOK
<1>7. ASSUME NEW r \in Request, Commit(r) PROVE AmountOK'
  BY Zenon, <1>2, <1>6, <1>7 DEF Commit, Stage, dbVars, tables
<1>8. ASSUME NEW r \in Request, LateCommit(r) PROVE AmountOK'
  BY Zenon, <1>6, <1>8 DEF LateCommit, Stage, goVars
<1>9. ASSUME NEW r \in Request, Lookup(r) \/ Refetch(r) \/ BeginTx(r)
      PROVE  AmountOK'
  BY Zenon, <1>2, <1>9
     DEF Lookup, Refetch, Replay, BeginTx, Reject, dbVars, tables
<1>10. ASSUME NEW r \in Request,
              LockRow(r) \/ ReadBalances(r) \/ Debit(r) \/ Credit(r)
       PROVE  AmountOK'
  BY Zenon, <1>2, <1>10
     DEF LockRow, ReadBalances, Debit, Credit, UpdateBalance, Fail,
                     goVars, dbVars, tables
<1>11. ASSUME NEW r \in Request, \/ InsertTransaction(r) \/ InsertEntries(r)
                                 \/ StatementFails(r) \/ Rollback(r)
       PROVE  AmountOK'
  BY Zenon, <1>2, <1>11
     DEF InsertTransaction, InsertEntries, StatementFails, Fail,
                     Rollback, dbVars, tables
<1>12. ASSUME NEW r \in Request, \/ AuditSuccess(r) \/ AuditFailure(r)
                                 \/ Crash(r) \/ ServerAborts(r)
       PROVE  AmountOK'
  BY Zenon, <1>2, <1>12
     DEF AuditSuccess, AuditFailure, Crash, ServerAborts, goVars,
                     dbVars, tables
<1>13. ASSUME UNCHANGED vars \/ AtRest \/ \E a \in AccountId : CreateAccount(a)
       PROVE  AmountOK'
  BY Zenon, <1>2, <1>13 DEF AtRest, CreateAccount, vars, goVars, dbVars, tables
<1> QED
  BY Zenon, <1>4, <1>5, <1>7, <1>8, <1>9, <1>10, <1>11, <1>12, <1>13
     DEF Next, Step, TransferBody, DepositBody, ReverseBody, TxBody

LEMMA InitAInv == AuditReliable /\ Init => AInv
<1> SUFFICES ASSUME AuditReliable, Init PROVE AInv
  OBVIOUS
<1>1. \A r \in Request : Representable(call[r].amount) /\ pc[r] # "done"
  BY BoundAssumption DEF Init, NoCall, Representable
<1>2. ASSUME NEW e \in entries PROVE e.amount = SeedAmount
  <2>1. \/ \E s \in Seed : e = Entry(s, External, "DEBIT", SeedAmount)
        \/ \E s \in Seed : e = Entry(s, SeedAccount[s], "CREDIT", SeedAmount)
    BY Zenon DEF Init, Seeded
  <2> QED
    BY <2>1 DEF Entry
<1> QED
  BY Zenon, <1>1, <1>2 DEF AInv, AmountOK, AuditComplete, AuditReliable
=============================================================================
