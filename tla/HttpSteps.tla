----------------------------- MODULE HttpSteps ------------------------------
(***************************************************************************)
(* Every step of the HTTP handlers is a step of the ledger or leaves it    *)
(* alone, and preserves HInv: requests and statuses match the service, and *)
(* the balances of the users and of EXTERNAL add up to nothing.            *)
(***************************************************************************)
EXTENDS HttpApi, LedgerInvariant, LedgerRefinement, FiniteSetTheorems, TLAPS

\* What the handler of r has received and answered.
HandlerOK(r) ==
    /\ wire[r] = None => pc[r] = "idle" /\ http[r] = None
    /\ pc[r] # "idle" => wire[r] # None /\ wire[r].key = call[r].key
    /\ http[r] = 400 => pc[r] = "idle"
    /\ http[r] \notin {None, 400} =>
          /\ pc[r] = "done"
          /\ http[r] = IF reply[r].status = "ok" THEN 201
                       ELSE mapError(reply[r].status)

\* The balances GET /api/accounts would list now.
UserBalances == [a \in UserAccounts |-> balance[a]]

\* No money appears or disappears: the users hold what EXTERNAL paid in.
Conserved ==
    /\ IsFiniteSet(Coins(UserBalances))
    /\ Sum(UserBalances) + balance[External] = 0

HInv ==
    /\ wire \in [Request -> Wire \cup {None}]
    /\ http \in [Request -> Int \cup {None}]
    /\ \A r \in Request : HandlerOK(r)
    /\ Conserved /\ ListAddsUp

-----------------------------------------------------------------------------
(* Counting the money *)

\* Raising one row by n adds n coins.
LEMMA CoinsAdd ==
  ASSUME NEW f, NEW g, DOMAIN g = DOMAIN f, NEW a \in DOMAIN f, NEW n \in Nat,
         f[a] \in Nat, g[a] = f[a] + n,
         \A b \in DOMAIN f \ {a} : g[b] = f[b],
         IsFiniteSet(Coins(f))
  PROVE  IsFiniteSet(Coins(g)) /\ Sum(g) = Sum(f) + n
<1> DEFINE New == {a} \X ((f[a] + 1) .. (f[a] + n))
<1>1. IsFiniteSet(New) /\ Cardinality(New) = n
  <2>1. /\ IsFiniteSet((f[a] + 1) .. (f[a] + n))
        /\ Cardinality((f[a] + 1) .. (f[a] + n)) = n
    <3>1. PICK x \in Int, y \in Int : x = f[a] + 1 /\ y = f[a] + n
      OBVIOUS
    <3>2. /\ IsFiniteSet(x .. y)
          /\ Cardinality(x .. y) = IF x > y THEN 0 ELSE y - x + 1
      BY Zenon, FS_Interval
    <3>3. (IF x > y THEN 0 ELSE y - x + 1) = n
      BY <3>1
    <3> QED
      BY Zenon, <3>1, <3>2, <3>3
  <2>2. IsFiniteSet({a}) /\ Cardinality({a}) = 1
    BY Zenon, FS_Singleton
  <2>3. IsFiniteSet(New) /\ Cardinality(New)
          = Cardinality({a}) * Cardinality((f[a] + 1) .. (f[a] + n))
    BY Zenon, <2>1, <2>2, FS_Product
  <2> QED
    BY <2>1, <2>2, <2>3
<1>2. Coins(g) = Coins(f) \cup New
  <2>1. ASSUME NEW b \in DOMAIN f, b # a
        PROVE  {b} \X (1 .. g[b]) = {b} \X (1 .. f[b])
    BY Zenon, <2>1
  <2>2. {a} \X (1 .. g[a]) = ({a} \X (1 .. f[a])) \cup New
    <3>1. 1 .. g[a] = (1 .. f[a]) \cup ((f[a] + 1) .. (f[a] + n))
      OBVIOUS
    <3> QED
      BY Zenon, <3>1
  <2> HIDE DEF New
  <2> QED
    BY <2>1, <2>2 DEF Coins
<1>3. Coins(f) \cap New = {}
  <2>1. ASSUME NEW b \in DOMAIN f, NEW u \in {b} \X (1 .. f[b]), u \in New
        PROVE  FALSE
    <3>1. u[1] = b /\ u[1] = a /\ u[2] \in 1 .. f[b]
          /\ u[2] \in (f[a] + 1) .. (f[a] + n)
      BY Zenon, <2>1
    <3> QED
      BY <3>1
  <2> QED
    BY <2>1 DEF Coins
<1> HIDE DEF New
<1>4. /\ IsFiniteSet(Coins(f) \cup New)
      /\ Cardinality(Coins(f) \cup New)
           = Cardinality(Coins(f)) + Cardinality(New) - Cardinality({})
  BY <1>1, <1>3, FS_Union
<1>5. Cardinality({}) = 0 /\ Cardinality(Coins(f)) \in Nat
  BY Zenon, FS_EmptySet, FS_CardinalityType
<1> QED
  BY <1>1, <1>2, <1>4, <1>5 DEF Sum

\* The same read backwards.
LEMMA CoinsSub ==
  ASSUME NEW f, NEW g, DOMAIN g = DOMAIN f, NEW a \in DOMAIN f, NEW n \in Nat,
         f[a] \in Nat, g[a] \in Nat, g[a] = f[a] - n,
         \A b \in DOMAIN f \ {a} : g[b] = f[b],
         IsFiniteSet(Coins(f))
  PROVE  IsFiniteSet(Coins(g)) /\ Sum(g) = Sum(f) - n
<1>1. Coins(g) \subseteq Coins(f)
  <2>1. ASSUME NEW b \in DOMAIN f
        PROVE  {b} \X (1 .. g[b]) \subseteq {b} \X (1 .. f[b])
    <3>1. CASE b = a
      <4>1. 1 .. g[a] \subseteq 1 .. f[a]
        OBVIOUS
      <4> QED
        BY Zenon, <3>1, <4>1
    <3>2. CASE b # a
      BY Zenon, <3>2
    <3> QED
      BY Zenon, <3>1, <3>2
  <2> QED
    BY <2>1 DEF Coins
<1>2. IsFiniteSet(Coins(g))
  BY Zenon, <1>1, FS_Subset
<1>3. f[a] = g[a] + n
  OBVIOUS
<1>4. Sum(f) = Sum(g) + n
  BY Zenon, <1>2, <1>3, CoinsAdd
<1>5. Sum(g) \in Nat
  BY Zenon, <1>2, FS_CardinalityType DEF Sum
<1> QED
  BY <1>2, <1>4, <1>5

\* The demo accounts hold SeedAmount each.
LEMMA CoinsSeeds ==
  ASSUME NEW f, DOMAIN f = {SeedAccount[s] : s \in Seed},
         \A a \in DOMAIN f : f[a] = SeedAmount
  PROVE  /\ IsFiniteSet(Coins(f))
         /\ Sum(f) = SeedAmount * Cardinality(Seed)
<1> DEFINE D == {SeedAccount[s] : s \in Seed}
           I == 1 .. SeedAmount
<1>1. IsFiniteSet(I) /\ Cardinality(I) = SeedAmount /\ SeedAmount \in Nat
  <2>1. SeedAmount \in Nat \ {0}
    BY Zenon, SeedAssumption
  <2> QED
    BY <2>1, FS_Interval
<1>2. IsFiniteSet(D) /\ Cardinality(D) = Cardinality(Seed)
  <2>1. SeedAccount \in Bijection(Seed, D)
    BY Zenon, SeedAssumption DEF Bijection, Injection, Surjection, IsInjective
  <2>2. ExistsBijection(Seed, D)
    BY Zenon, <2>1 DEF ExistsBijection
  <2> QED
    BY Zenon, <2>2, SeedAssumption, FS_Bijection
<1>3. Coins(f) = D \X I
  BY DEF Coins
<1>4. IsFiniteSet(D \X I) /\ Cardinality(D \X I) = Cardinality(D) * Cardinality(I)
  BY Zenon, <1>1, <1>2, FS_Product
<1>5. Cardinality(Seed) \in Nat
  BY Zenon, SeedAssumption, FS_CardinalityType
<1> QED
  BY <1>1, <1>2, <1>3, <1>4, <1>5 DEF Sum

\* A step of the atomic ledger keeps the sum: a posting takes from one account
\* what it gives to another, and a new account is empty.
LEMMA ConservedStep ==
  ASSUME Conserved, balance \in [AccountId -> Int], exists \subseteq AccountId,
         External \in exists,
         \A a \in AccountId \ {External} : balance[a] >= 0,
         \A a \in AccountId \ {External} : balance'[a] >= 0,
         Atomic!Next \/ UNCHANGED <<balance, exists>>
  PROVE  Conserved'
<1> DEFINE U == UserAccounts
<1> PICK f : f = UserBalances
  OBVIOUS
<1>1. /\ DOMAIN f = U /\ U = exists \ {External} /\ U \subseteq AccountId
      /\ \A a \in U : f[a] = balance[a] /\ f[a] \in Nat
      /\ External \in AccountId /\ balance[External] \in Int
  <2>1. \A a \in U : balance[a] \in Int /\ balance[a] >= 0
    BY DEF UserAccounts
  <2> QED
    BY <2>1, AccountAssumption DEF UserBalances, UserAccounts
<1>2. IsFiniteSet(Coins(f)) /\ Sum(f) + balance[External] = 0 /\ Sum(f) \in Nat
  <2>1. IsFiniteSet(Coins(f)) /\ Sum(f) + balance[External] = 0
    BY DEF Conserved
  <2> QED
    BY Zenon, <2>1, FS_CardinalityType DEF Sum
<1>3. CASE UNCHANGED <<balance, exists>>
  BY Zenon, <1>3 DEF Conserved, UserBalances, UserAccounts
<1>4. ASSUME NEW t, NEW d, NEW c, Atomic!Post(t, d, c) PROVE Conserved'
  <2>1. /\ d.account \in exists /\ c.account \in U /\ d.account # c.account
        /\ d.amount = c.amount /\ exists' = exists
        /\ balance' = [balance EXCEPT ![d.account] = @ - d.amount,
                                      ![c.account] = @ + c.amount]
        /\ d.amount \in Nat
    BY Zenon, <1>1, <1>4 DEF Atomic!Post, Atomic!EntryRow
  <2>2. PICK x, y, n : /\ x = d.account /\ y = c.account /\ n = d.amount
                        /\ n \in Nat
    BY Zenon, <2>1
  <2>3. /\ x \in AccountId /\ y \in U /\ x # y /\ balance \in [AccountId -> Int]
        /\ balance' = [balance EXCEPT ![x] = @ - n, ![y] = @ + n]
    BY Zenon, <2>1, <2>2
  <2>4. /\ \A a \in AccountId : a # x /\ a # y => balance'[a] = balance[a]
        /\ balance'[x] = balance[x] - n /\ balance'[y] = balance[y] + n
    BY Zenon, <1>1, <2>3
  <2>5. U' = U /\ UserBalances' = [a \in U |-> balance'[a]]
    BY Zenon, <2>1 DEF UserBalances, UserAccounts
  <2>6. PICK g : g = [f EXCEPT ![y] = @ + n]
    BY Zenon
  <2>7. DOMAIN g = U /\ g[y] = f[y] + n /\ \A a \in U \ {y} : g[a] = f[a]
    BY Zenon, <1>1, <2>3, <2>6 DEF UserBalances
  <2>8. IsFiniteSet(Coins(g)) /\ Sum(g) = Sum(f) + n
    BY SMTT(30), <1>1, <1>2, <2>2, <2>3, <2>7, CoinsAdd
  <2>9. CASE x = External
    <3>1. UserBalances' = g
      BY Zenon, <1>1, <2>3, <2>4, <2>5, <2>6, <2>9 DEF UserBalances
    <3> QED
      BY SMTT(30), <1>1, <1>2, <2>2, <2>4, <2>8, <2>9, <3>1 DEF Conserved
  <2>10. CASE x # External
    <3>1. x \in U /\ g[x] \in Nat /\ balance'[x] \in Nat
          /\ balance'[x] = g[x] - n
      <4>1. x \in U
        BY Zenon, <1>1, <2>1, <2>2, <2>10
      <4>2. g[x] = balance[x] /\ balance[x] \in Nat
        BY Zenon, <1>1, <2>3, <2>7, <4>1
      <4>3. balance'[x] >= 0
        BY Zenon, <1>1, <2>10, <4>1
      <4> QED
        BY <2>2, <2>4, <4>1, <4>2, <4>3
    <3>2. PICK h : h = UserBalances'
      OBVIOUS
    <3>3. /\ DOMAIN h = DOMAIN g /\ h[x] = balance'[x]
          /\ \A a \in DOMAIN g \ {x} : h[a] = g[a]
      <4>1. \A a \in U \ {x} : balance'[a] = g[a]
        BY Zenon, <1>1, <2>3, <2>4, <2>7
      <4> QED
        BY Zenon, <2>5, <2>7, <3>1, <3>2, <4>1
    <3>4. IsFiniteSet(Coins(h)) /\ Sum(h) = Sum(g) - n
      BY SMTT(30), <2>2, <2>7, <2>8, <3>1, <3>3, CoinsSub
    <3>5. balance'[External] = balance[External]
      BY Zenon, <1>1, <2>3, <2>4, <2>10 DEF UserAccounts
    <3> QED
      BY SMTT(30), <1>1, <1>2, <2>2, <2>8, <3>2, <3>4, <3>5 DEF Conserved
  <2> QED
    BY Zenon, <2>9, <2>10
<1>5. ASSUME NEW a \in AccountId, Atomic!OpenAccount(a) PROVE Conserved'
  <2>1. /\ a \notin exists /\ exists' = exists \cup {a}
        /\ \A b \in AccountId : balance'[b] = IF b = a THEN 0 ELSE balance[b]
    BY Zenon, <1>5 DEF Atomic!OpenAccount
  <2>2. balance'[External] = balance[External] /\ a # External
    BY Zenon, <1>1, <2>1
  <2>3. Coins(UserBalances') = Coins(UserBalances)
    <3>1. UserAccounts' = U \cup {a} /\ a \notin U
      BY Zenon, <2>1, <2>2 DEF UserAccounts
    <3>2. {a} \X (1 .. 0) = {}
      OBVIOUS
    <3>3. /\ DOMAIN UserBalances' = U \cup {a}
          /\ UserBalances'[a] = 0 /\ \A b \in U : UserBalances'[b] = f[b]
      BY Zenon, <1>1, <2>1, <3>1 DEF UserBalances
    <3> QED
      BY <1>1, <3>2, <3>3 DEF Coins
  <2> QED
    BY Zenon, <1>2, <2>2, <2>3 DEF Conserved, Sum
<1> QED
  BY Zenon, <1>3, <1>4, <1>5
     DEF Atomic!Next, Atomic!PostOriginal, Atomic!PostReversal

-----------------------------------------------------------------------------
(* The handlers take steps of the ledger *)

\* A request is handed to the service once, while its handler is idle.
LEMMA HttpStep == HInv /\ [HttpNext]_allVars => [Next]_vars
<1> SUFFICES ASSUME HInv, [HttpNext]_allVars PROVE [Next]_vars
  OBVIOUS
<1>1. ASSUME NEW r \in Request, NEW route, Receive(r, route) PROVE [Next]_vars
  <2>1. pc[r] = "idle"
    BY Zenon, <1>1 DEF Receive, HInv, HandlerOK
  <2>2. PICK w \in Wire : Refuse(r, w) \/ Serve(r, w)
    BY Zenon, <1>1 DEF Receive
  <2>3. CASE Refuse(r, w)
    BY Zenon, <2>3 DEF Refuse
  <2>4. CASE Serve(r, w)
    <3>1. PICK c \in Calls : c = ToCall(w)
      BY Zenon, <2>4, WireAssumption DEF Serve
    <3>2. Enter(r, c, CASE c.kind = "TRANSFER" -> TransferError(c)
                        [] c.kind = "DEPOSIT" -> DepositError(c)
                        [] c.kind = "REVERSAL" -> None)
      BY Zenon, <2>4, <3>1 DEF Serve
    <3>3. c.kind \in {"TRANSFER", "DEPOSIT", "REVERSAL"}
      BY Zenon, CallAssumption
    <3>4. Transfer(r) \/ Deposit(r) \/ Reverse(r)
      BY Zenon, <2>1, <3>2, <3>3 DEF Transfer, Deposit, Reverse
    <3> QED
      BY Zenon, <3>4 DEF Next
  <2> QED
    BY Zenon, <2>2, <2>3, <2>4
<1>2. ASSUME NEW r \in Request, InService(r) \/ Befall(r) PROVE [Next]_vars
  BY Zenon, <1>2 DEF InService, Befall, Next
<1>3. ASSUME NEW r \in Request, Respond(r) PROVE [Next]_vars
  BY Zenon, <1>3 DEF Respond
<1>4. createAccount \/ listAccounts => [Next]_vars
  BY DEF createAccount, listAccounts, Next
<1> QED
  BY Zenon, <1>1, <1>2, <1>3, <1>4
     DEF HttpNext, createTransfer, createDeposit, reverseTransfer, allVars

\* Inside the service a handler keeps its key and does not become idle again,
\* and an answer stays what it was.
Onward(r) ==
    /\ pc[r] # "idle" /\ pc'[r] # "idle" /\ call'[r].key = call[r].key
    /\ pc[r] = "done" => pc'[r] = "done" /\ reply'[r] = reply[r]
Aside(q) == pc'[q] = pc[q] /\ call'[q] = call[q] /\ reply'[q] = reply[q]

LEMMA ServiceMoves ==
  ASSUME IInv, NEW r \in Request,
         \/ Step(r) \/ StatementFails(r) \/ Crash(r) \/ ServerAborts(r)
         \/ LateCommit(r)
  PROVE  Onward(r) /\ \A q \in Request \ {r} : Aside(q)
<1> DEFINE Goal == Onward(r) /\ \A q \in Request \ {r} : Aside(q)
<1> SUFFICES Goal
  OBVIOUS
<1>1. GoType /\ SessOK(r)
  BY DEF IInv, TypeOK, ReqInv
<1>2. ASSUME NEW l, l # "idle", Goto(r, l), pc[r] \notin {"idle", "done"},
             UNCHANGED <<call, reply>>
      PROVE  Goal
  BY Zenon, <1>1, <1>2 DEF Goto, GoType, Onward, Aside
<1>3. ASSUME NEW s, NEW id, NEW rows, Return(r, s, id, rows),
             pc[r] \notin {"idle", "done"}, call' = call
      PROVE  Goal
  BY Zenon, <1>1, <1>3 DEF Return, Goto, GoType, Onward, Aside
<1>4. ASSUME NEW e, Fail(r, e) \/ Reject(r, e), pc[r] \notin {"idle", "done"}
      PROVE  Goal
  BY Zenon, <1>2, <1>4 DEF Fail, Reject
<1>5. ASSUME UNCHANGED <<pc, call, reply>>, pc[r] # "idle" PROVE Goal
  BY Zenon, <1>5 DEF Onward, Aside
<1>6. ASSUME NEW d, NEW c, call' = [call EXCEPT ![r] = Mirror(@, d, c)],
             Goto(r, "begin"), pc[r] = "loadOriginal", reply' = reply
      PROVE  Goal
  <2>1. call[r] \in Call \cup {NoCall} /\ call \in [Request -> Call \cup {NoCall}]
    BY Zenon, <1>1 DEF GoType
  <2>2. call'[r].key = call[r].key /\ \A q \in Request \ {r} : call'[q] = call[q]
    BY Zenon, <1>6, <2>1 DEF Mirror, Call, NoCall
  <2>3. pc'[r] = "begin" /\ \A q \in Request \ {r} : pc'[q] = pc[q]
    BY Zenon, <1>1, <1>6 DEF Goto, GoType
  <2> QED
    BY Zenon, <1>6, <2>2, <2>3 DEF Onward, Aside
<1> HIDE DEF Goal
<1>7. CASE Lookup(r) \/ Refetch(r)
  BY Zenon, <1>2, <1>3, <1>7 DEF Lookup, Refetch, Replay
<1>8. CASE LoadOriginal(r)
  BY Zenon, <1>4, <1>6, <1>8 DEF LoadOriginal
<1>9. CASE BeginTx(r)
  BY Zenon, <1>2, <1>3, <1>4, <1>9 DEF BeginTx
<1>10. CASE LockRow(r) \/ ReadBalances(r)
  BY Zenon, <1>2, <1>4, <1>5, <1>10 DEF LockRow, ReadBalances, goVars
<1>11. CASE Debit(r) \/ Credit(r)
  BY Zenon, <1>2, <1>4, <1>11 DEF Debit, Credit, UpdateBalance
<1>12. CASE InsertTransaction(r) \/ InsertEntries(r)
  BY Zenon, <1>2, <1>4, <1>12 DEF InsertTransaction, InsertEntries
<1>13. CASE Commit(r) \/ Rollback(r)
  <2>1. PICK l \in {"auditSuccess", "auditFailure", "refetch"} :
           Goto(r, l) /\ UNCHANGED <<call, reply>>
    BY Zenon, <1>13 DEF Commit, Rollback
  <2>2. pc[r] \in {"commit", "rollback"}
    BY Zenon, <1>13 DEF Commit, Rollback
  <2> QED
    BY Zenon, <1>2, <2>1, <2>2
<1>14. CASE AuditSuccess(r) \/ AuditFailure(r)
  BY Zenon, <1>3, <1>14 DEF AuditSuccess, AuditFailure
<1>15. CASE StatementFails(r) \/ Crash(r)
  BY Zenon, <1>2, <1>4, <1>15 DEF StatementFails, Crash, Finished, InTx
<1>16. CASE ServerAborts(r) \/ LateCommit(r)
  BY Zenon, <1>1, <1>5, <1>16 DEF ServerAborts, LateCommit, SessOK, goVars
<1> QED
  BY Zenon, <1>7, <1>8, <1>9, <1>10, <1>11, <1>12, <1>13, <1>14, <1>15, <1>16
     DEF Step, TransferBody, DepositBody, ReverseBody, TxBody

-----------------------------------------------------------------------------
(* The invariant of the handlers *)

LEMMA HttpInitInv == HttpInit => HInv
<1> SUFFICES ASSUME HttpInit PROVE HInv
  OBVIOUS
<1>1. Init /\ Seeded
  BY DEF HttpInit, Init
<1>2. \A r \in Request : HandlerOK(r)
  BY <1>1, AccountAssumption DEF HttpInit, Init, HandlerOK
<1>3. Conserved /\ \A a \in DOMAIN UserBalances : UserBalances[a] >= 0
  <2>1. SeedAmount \in Nat \ {0} /\ External \in AccountId
        /\ \A s \in Seed : SeedAccount[s] \in AccountId \ {External}
    BY Zenon, SeedAssumption, AccountAssumption
  <2>2. UserAccounts = {SeedAccount[s] : s \in Seed}
    BY Zenon, <1>1, <2>1 DEF UserAccounts, Seeded
  <2>3. PICK f : f = UserBalances
    OBVIOUS
  <2>4. /\ DOMAIN f = {SeedAccount[s] : s \in Seed}
        /\ \A a \in DOMAIN f : f[a] = SeedAmount
    <3>1. \A a \in UserAccounts : balance[a] = SeedAmount
      BY Zenon, <1>1, <2>1 DEF UserAccounts, Seeded
    <3> QED
      BY Zenon, <2>2, <2>3, <3>1 DEF UserBalances
  <2>5. IsFiniteSet(Coins(f)) /\ Sum(f) = SeedAmount * Cardinality(Seed)
    BY Zenon, <2>4, CoinsSeeds
  <2>6. balance[External] = -(SeedAmount * Cardinality(Seed))
    BY Zenon, <1>1, <2>1 DEF Seeded
  <2>7. Sum(f) \in Nat
    BY Zenon, <2>5, FS_CardinalityType DEF Sum
  <2> QED
    BY SMTT(30), <2>1, <2>3, <2>4, <2>5, <2>6, <2>7 DEF Conserved
<1>4. ListAddsUp
  <2>1. listed.rows = UserBalances /\ listed.external = balance[External]
    BY DEF HttpInit, UserBalances
  <2> QED
    BY Zenon, <1>3, <2>1 DEF Conserved, ListAddsUp
<1>5. /\ wire \in [Request -> Wire \cup {None}]
      /\ http \in [Request -> Int \cup {None}]
  BY DEF HttpInit
<1> QED
  BY Zenon, <1>2, <1>3, <1>4, <1>5 DEF HInv

\* A handler that nothing happens to.
LEMMA HandlerKept ==
  ASSUME NEW q, HandlerOK(q), Aside(q), wire'[q] = wire[q], http'[q] = http[q]
  PROVE  HandlerOK(q)'
  BY DEF HandlerOK, Aside

LEMMA ReceiveInv ==
  ASSUME IInv, HInv, NEW r \in Request, NEW route, Receive(r, route)
  PROVE  /\ wire' \in [Request -> Wire \cup {None}]
         /\ http' \in [Request -> Int \cup {None}]
         /\ \A q \in Request : HandlerOK(q)'
         /\ listed' = listed
<1>1. GoType /\ pc[r] = "idle" /\ http[r] = None
  BY DEF Receive, HInv, HandlerOK, IInv, TypeOK
<1>2. PICK w \in Wire : /\ wire' = [wire EXCEPT ![r] = w]
                        /\ Refuse(r, w) \/ Serve(r, w)
  BY Zenon DEF Receive
<1>3. /\ wire' \in [Request -> Wire \cup {None}] /\ wire'[r] = w /\ w # None
      /\ \A q \in Request \ {r} : wire'[q] = wire[q]
  BY Zenon, <1>2, WireAssumption DEF HInv
<1>4. CASE Refuse(r, w)
  <2>1. /\ http' \in [Request -> Int \cup {None}] /\ http'[r] = 400
        /\ \A q \in Request \ {r} : http'[q] = http[q] /\ Aside(q)
        /\ pc' = pc
    BY <1>4 DEF Refuse, HInv, vars, goVars, Aside
  <2>2. HandlerOK(r)'
    BY Zenon, <1>1, <1>3, <2>1 DEF HandlerOK
  <2>3. \A q \in Request \ {r} : HandlerOK(q)'
    BY <1>3, <2>1, HandlerKept DEF HInv
  <2> QED
    BY SMTT(30), <1>3, <2>1, <2>2, <2>3 DEF Receive
<1>5. CASE Serve(r, w)
  <2>1. PICK c \in Calls : c = ToCall(w) /\ \E e : Enter(r, c, e)
    BY Zenon, <1>5, WireAssumption DEF Serve
  <2>2. c.key = w.key
    BY Zenon, <1>3, <2>1, WireAssumption DEF ToCall, WireRequest
  <2>3. pc'[r] \in {"lookup", "auditFailure"} /\ call'[r] = c /\ http' = http
        /\ \A q \in Request \ {r} : Aside(q)
    BY Zenon, <1>1, <1>5, <2>1 DEF Enter, Goto, GoType, Aside, Serve
  <2>4. HandlerOK(r)'
    BY SMTT(30), <1>1, <1>3, <2>2, <2>3, AccountAssumption DEF HandlerOK
  <2>5. \A q \in Request \ {r} : HandlerOK(q)'
    BY Zenon, <1>3, <2>3, HandlerKept DEF HInv
  <2> QED
    BY Zenon, <1>3, <2>3, <2>4, <2>5 DEF Receive, HInv
<1> QED
  BY Zenon, <1>2, <1>4, <1>5

LEMMA RespondInv ==
  ASSUME IInv, OInv, HInv, NEW r \in Request, Respond(r)
  PROVE  /\ wire' \in [Request -> Wire \cup {None}]
         /\ http' \in [Request -> Int \cup {None}]
         /\ \A q \in Request : HandlerOK(q)'
         /\ listed' = listed
<1>1. /\ pc[r] = "done" /\ http[r] = None /\ wire' = wire /\ listed' = listed
      /\ UNCHANGED vars /\ HandlerOK(r)
  BY DEF Respond, HInv
<1>2. PICK s : s = IF reply[r].status = "ok" THEN 201
                   ELSE mapError(reply[r].status)
  OBVIOUS
<1>3. s \in {201, 404, 409, 422, 500} /\ http' = [http EXCEPT ![r] = s]
  <2>1. mapError(reply[r].status) \in {404, 409, 422, 500}
    BY DEF mapError
  <2>2. s \in {201, 404, 409, 422, 500}
    BY <1>2, <2>1
  <2> QED
    BY <1>2, <2>2 DEF Respond
<1>4. /\ http' \in [Request -> Int \cup {None}] /\ http'[r] = s
      /\ \A q \in Request \ {r} : http'[q] = http[q]
  BY <1>3 DEF HInv
<1>5. \A q \in Request : Aside(q)
  BY Zenon, <1>1 DEF Aside, vars, goVars
<1>6. HandlerOK(r)'
  BY SMTT(30), <1>3, <1>1, <1>2, <1>4, <1>5, AccountAssumption
     DEF HandlerOK, Aside
<1>7. \A q \in Request \ {r} : HandlerOK(q)'
  BY Zenon, <1>1, <1>4, <1>5, HandlerKept DEF HInv
<1> QED
  BY Zenon, <1>1, <1>4, <1>6, <1>7 DEF HInv

LEMMA ServiceInv ==
  ASSUME IInv, HInv, NEW r \in Request, InService(r) \/ Befall(r)
  PROVE  /\ wire' \in [Request -> Wire \cup {None}]
         /\ http' \in [Request -> Int \cup {None}]
         /\ \A q \in Request : HandlerOK(q)'
         /\ listed' = listed
<1>1. wire' = wire /\ http' = http /\ listed' = listed
  BY DEF InService, Befall, httpVars
<1>2. Onward(r) /\ \A q \in Request \ {r} : Aside(q)
  BY Zenon, ServiceMoves DEF InService, Befall
<1>3. HandlerOK(r)'
  BY <1>1, <1>2 DEF HInv, HandlerOK, Onward
<1>4. \A q \in Request \ {r} : HandlerOK(q)'
  BY Zenon, <1>1, <1>2, HandlerKept DEF HInv
<1> QED
  BY Zenon, <1>1, <1>3, <1>4 DEF HInv

LEMMA HttpNextInv ==
  ASSUME IInv, OInv, IInv', HInv, [HttpNext]_allVars, Conserved'
  PROVE  HInv'
<1> DEFINE Good == /\ wire' \in [Request -> Wire \cup {None}]
                   /\ http' \in [Request -> Int \cup {None}]
                   /\ \A q \in Request : HandlerOK(q)'
<1>1. ASSUME UNCHANGED <<vars, wire, http>> PROVE Good
  <2>1. \A q \in Request : Aside(q)
    BY Zenon, <1>1 DEF Aside, vars, goVars
  <2> QED
    BY Zenon, <1>1, <2>1, HandlerKept DEF HInv
<1>2. CASE listAccounts
  <2>1. Good
    BY Zenon, <1>1, <1>2 DEF listAccounts
  <2>2. /\ listed'.rows = UserBalances /\ listed'.external = balance[External]
    BY Zenon, <1>2 DEF listAccounts, UserBalances
  <2>3. \A a \in DOMAIN UserBalances : UserBalances[a] >= 0
    BY DEF UserBalances, UserAccounts, IInv, Books, TypeOK, DbType
  <2>4. ListAddsUp'
    BY Zenon, <2>2, <2>3 DEF ListAddsUp, HInv, Conserved
  <2> QED
    BY Zenon, <2>1, <2>4 DEF HInv
<1>3. CASE createAccount
  <2>1. \A q \in Request : Aside(q) /\ UNCHANGED <<wire, http, listed>>
    BY Zenon, <1>3 DEF createAccount, CreateAccount, Aside, goVars, httpVars
  <2>2. Good
    BY Zenon, <1>3, <2>1, HandlerKept DEF HInv, createAccount, httpVars
  <2>3. listed' = listed
    BY Zenon, <1>3 DEF createAccount, httpVars
  <2> QED
    BY Zenon, <2>2, <2>3 DEF HInv, ListAddsUp
<1>4. CASE UNCHANGED allVars
  <2>1. Good /\ listed' = listed
    BY Zenon, <1>1, <1>4 DEF allVars, httpVars
  <2> QED
    BY Zenon, <2>1 DEF HInv, ListAddsUp
<1>5. ASSUME NEW r \in Request,
             \/ createTransfer(r) \/ createDeposit(r) \/ reverseTransfer(r)
             \/ InService(r) \/ Respond(r) \/ Befall(r)
      PROVE  HInv'
  <2>1. Good /\ listed' = listed
    BY ZenonT(30), <1>5, ReceiveInv, RespondInv, ServiceInv
       DEF createTransfer, createDeposit, reverseTransfer
  <2> QED
    BY Zenon, <2>1 DEF HInv, ListAddsUp
<1> QED
  BY Zenon, <1>2, <1>3, <1>4, <1>5 DEF HttpNext

-----------------------------------------------------------------------------
(* What a status says *)

LEMMA StatusShown ==
  ASSUME IInv, OInv, HInv,
         OneAnswerPerKey, SuccessIsCommitted, RejectionIsFinal
  PROVE  StatusIsTruth
<1> SUFFICES ASSUME NEW r \in Request
             PROVE  /\ http[r] = 201 =>
                          \E t \in txns : /\ ByKey(wire[r].key) = {t}
                                          /\ Cardinality(EntriesOf(t.id)) = 2
                    /\ http[r] \in {400, 404, 409, 422}
                          => ~Committed(r) /\ sess[r] # "indoubt"
                    /\ http[r] = 400 => \A w \in audit : w.req # r
  BY DEF StatusIsTruth
<1>1. HandlerOK(r) /\ SessOK(r) /\ FreshOK(r) /\ AnswerOK(r) /\ reply[r] \in Reply
  BY DEF IInv, OInv, HInv, ReqInv, TypeOK, GoType
<1>2. None \notin {201, 400, 404, 409, 422}
  BY AccountAssumption
<1>3. ASSUME http[r] = 201
      PROVE  \E t \in txns : /\ ByKey(wire[r].key) = {t}
                             /\ Cardinality(EntriesOf(t.id)) = 2
  <2>1. /\ pc[r] = "done" /\ wire[r].key = call[r].key
        /\ reply[r].status = "ok"
    BY <1>1, <1>2, <1>3 DEF HandlerOK, mapError
  <2>2. PICK t \in txns : ByKey(call[r].key) = {t} /\ t.id = reply[r].tx
    BY Zenon, <2>1 DEF OneAnswerPerKey
  <2>3. t.id # None
    BY Zenon, IdAssumption DEF IInv, TypeOK, DbType, TxnRow, TxId
  <2>4. Cardinality(EntriesOf(t.id)) = 2
    BY Zenon, <2>2, <2>3 DEF SuccessIsCommitted
  <2> QED
    BY Zenon, <2>1, <2>2, <2>4
<1>4. ASSUME http[r] \in {404, 409, 422}
      PROVE  ~Committed(r) /\ sess[r] # "indoubt"
  <2>1. pc[r] = "done" /\ reply[r].status # "ok"
        /\ http[r] = mapError(reply[r].status)
    BY <1>1, <1>2, <1>4 DEF HandlerOK
  <2>2. reply[r].status \in Error
    BY Zenon, <1>1, <2>1 DEF AnswerOK, Reply
  <2>3. reply[r].status \in DomainError
    BY <1>4, <2>1, <2>2 DEF mapError, Error, DomainError
  <2> QED
    BY Zenon, <2>3 DEF RejectionIsFinal
<1>5. ASSUME http[r] = 400
      PROVE  /\ ~Committed(r) /\ sess[r] # "indoubt"
             /\ \A w \in audit : w.req # r
  <2>1. pc[r] = "idle" /\ sess[r] = "none"
    BY SMTT(30), <1>1, <1>5 DEF HandlerOK, SessOK
  <2> QED
    BY ZenonT(30), <1>1, <2>1 DEF FreshOK, Committed, OInv, AuditOK
<1> QED
  BY SMTT(30), <1>3, <1>4, <1>5

LEMMA ConflictShown == OInv /\ HInv => ConflictIsFinal
<1> SUFFICES ASSUME OInv, HInv, NEW r \in Request, http[r] = 409
             PROVE  ByKey(wire[r].key) # {} \/ AlreadyReversed(r)
  BY DEF ConflictIsFinal
<1>1. HandlerOK(r) /\ ErrOK(r) /\ AnswerOK(r)
  BY DEF OInv, HInv
<1>2. /\ pc[r] = "done" /\ wire[r].key = call[r].key
      /\ mapError(reply[r].status) = 409
  BY <1>1, AccountAssumption DEF HandlerOK
<1>3. reply[r].status \in {"ErrAlreadyReversed", "ErrIdempotencyConflict"}
  BY <1>2 DEF mapError
<1>4. err[r] = reply[r].status
  BY Zenon, <1>1, <1>3 DEF AnswerOK, Error, DomainError
<1> QED
  BY SMTT(30), <1>1, <1>2, <1>3, <1>4 DEF ErrOK

-----------------------------------------------------------------------------
(* The money in the accounts *)

\* What the atomic ledger does to the balances moves money only.
LEMMA SumKept ==
  ASSUME IInv, IInv', Conserved, [Atomic!Next]_Atomic!tables
  PROVE  Conserved'
<1>1. Atomic!Next \/ UNCHANGED <<balance, exists>>
  BY Zenon DEF Atomic!tables
<1>2. balance \in [AccountId -> Int] /\ exists \subseteq AccountId
  BY DEF IInv, TypeOK, DbType
<1>3. External \in exists /\ \A a \in AccountId \ {External} : balance[a] >= 0
  BY Zenon DEF IInv, Books, BookInv
<1>4. \A a \in AccountId \ {External} : balance'[a] >= 0
  BY Zenon DEF IInv, Books
<1> QED
  BY Zenon, <1>1, <1>2, <1>3, <1>4, ConservedStep
=============================================================================
