----------------------------- MODULE DataProofs -----------------------------
(***************************************************************************)
(* What is written to the database is what was meant: the way of an amount *)
(* through parsing, rounding, arithmetic and the NUMERIC columns is exact, *)
(* whatever the digits; the data migrations leave the same rows however    *)
(* often they run; and the trigger on entries, by itself, lets no session  *)
(* unbalance a transaction unless it takes a leg away.                     *)
(***************************************************************************)
EXTENDS Money, Migrations, Schema, FiniteSetTheorems, TLAPS

-----------------------------------------------------------------------------
(* Amounts *)

\* A balance or an amount of n units, as a decimal.
Exact(n) == Unit * n

\* A decimal that is a whole number of units survives every conversion.
LEMMA ExactKept ==
  ASSUME NEW n \in Int
  PROVE  Round(Exact(n)) = Exact(n) /\ Column(Exact(n)) = n
<1>1. Round(100 * n) = 100 * n
  BY DEF Round, Truncate, Unit
<1>2. Column(100 * n) = n
  BY DEF Column, Truncate, Unit
<1> QED
  BY Zenon, <1>1, <1>2 DEF Exact, Unit

\* Rounding yields the nearest number of units, halves away from zero.
LEMMA RoundNearest ==
  ASSUME NEW d \in Int
  PROVE  \E k \in Int :
            /\ Round(d) = Exact(k)
            /\ k > 0 => /\ 2 * d - Unit < 2 * Unit * k
                        /\ 2 * Unit * k <= 2 * d + Unit
<1> DEFINE five == Truncate(d, 10)
           k == Truncate(IF five < 0 THEN five - 5 ELSE five + 5, 10)
<1>1. five \in Int /\ (d >= 0 => 10 * five <= d /\ d < 10 * five + 10)
      /\ (d < 0 => five <= 0)
  BY DEF Truncate
<1>2. k \in Int /\ (k > 0 => 10 * k <= five + 5 /\ five + 5 < 10 * k + 10)
  <2> HIDE DEF five
  <2> QED BY <1>1 DEF Truncate
<1>3. Round(d) = 100 * k
  BY DEF Round, Unit
<1>4. k > 0 => d >= 0
  <2> HIDE DEF five
  <2>1. five <= 0 => k <= 0
    BY <1>1 DEF Truncate
  <2> HIDE DEF k
  <2> QED BY <1>1, <1>2, <2>1
<1> HIDE DEF five, k
<1>5. k > 0 => 2 * d - 100 < 200 * k /\ 200 * k <= 2 * d + 100
  BY <1>1, <1>2, <1>4
<1> QED
  BY <1>2, <1>3, <1>5 DEF Exact, Unit

AmountInv ==
    /\ src \in Int /\ dst \in Int /\ book \in Int
    /\ RoundedOnce /\ PostsNearest

LEMMA TransferAmounts ==
  ASSUME AmountInv, NEW b, b.text \in Int \cup {Junk}, Transfer(b)
  PROVE  AmountInv'
<1>1. b.text \in Int /\ UnmarshalJSON(b) = Round(b.text)
  BY Zenon, MoneyAssumption DEF Transfer, UnmarshalJSON, FromString
<1> PICK t \in Int : t = b.text
  BY Zenon, <1>1
<1>2. PICK k \in Int :
         /\ Round(t) = Exact(k)
         /\ k > 0 => /\ 2 * t - Unit < 2 * Unit * k
                     /\ 2 * Unit * k <= 2 * t + Unit
  BY Zenon, RoundNearest
<1>3. UnmarshalJSON(b) = Exact(k)
  BY Zenon, <1>1, <1>2
<1>4. k > 0
  <2>1. Exact(k) > 0
    BY Zenon, <1>3 DEF Transfer, IsPositive
  <2> QED
    BY <2>1 DEF Exact, Unit
<1>5. /\ src \in Int /\ dst \in Int /\ book \in Int
      /\ src + dst = 2 * Opening /\ dst = Opening + book
  BY Zenon DEF AmountInv, RoundedOnce
<1>6. /\ Exact(src) - Exact(k) = Exact(src - k)
      /\ Exact(dst) + Exact(k) = Exact(dst + k)
  BY <1>5 DEF Exact, Unit
<1>7. /\ NewFromDecimal(src) = Exact(src)
      /\ NewFromDecimal(dst) = Exact(dst)
  BY Zenon, <1>5, ExactKept DEF NewFromDecimal, Exact
<1>8. Column(Sub(NewFromDecimal(src), Exact(k))) = src - k
  <2>1. src - k \in Int
    BY <1>5
  <2> QED
    BY <1>6, <1>7, <2>1, ExactKept DEF Sub
<1>9. Column(Add(NewFromDecimal(dst), Exact(k))) = dst + k
  <2>1. dst + k \in Int
    BY <1>5
  <2> QED
    BY Zenon, <1>6, <1>7, <2>1, ExactKept DEF Add
<1>10. /\ src' = src - k /\ dst' = dst + k /\ book' = book + k
       /\ last' = [asked |-> t, posted |-> k]
  BY Zenon, <1>3, <1>8, <1>9, ExactKept DEF Transfer
<1>11. RoundedOnce' /\ src' \in Int /\ dst' \in Int /\ book' \in Int
  BY <1>5, <1>10, MoneyAssumption DEF RoundedOnce
<1>12. PostsNearest'
  <2>1. last'.asked = t /\ last'.posted = k
    BY Zenon, <1>10
  <2> QED
    BY Zenon, <1>2, <1>4, <2>1 DEF PostsNearest
<1> QED
  BY Zenon, <1>11, <1>12 DEF AmountInv

\* Whatever texts the clients write: amounts stay exact.
THEOREM AmountsInductive == MoneySpec => []AmountInv
<1>1. MoneyInit => AmountInv
  <2> SUFFICES ASSUME MoneyInit PROVE AmountInv
    OBVIOUS
  <2>1. /\ src = Opening /\ dst = Opening /\ book = 0
        /\ last.asked = Unit /\ last.posted = 1 /\ Opening \in Nat
    BY Zenon, MoneyAssumption DEF MoneyInit
  <2> QED
    BY <2>1 DEF AmountInv, RoundedOnce, PostsNearest, Unit
<1>2. AmountInv /\ [MoneyNext]_moneyVars => AmountInv'
  <2> SUFFICES ASSUME AmountInv, [MoneyNext]_moneyVars PROVE AmountInv'
    OBVIOUS
  <2>1. CASE UNCHANGED moneyVars
    BY Zenon, <2>1 DEF moneyVars, AmountInv, RoundedOnce, PostsNearest
  <2>2. ASSUME NEW q \in BOOLEAN, NEW s \in Texts,
               Transfer([quoted |-> q, text |-> s])
        PROVE  AmountInv'
    <3>1. PICK b : b = [quoted |-> q, text |-> s]
      BY Zenon
    <3>2. b.text = s /\ s \in Int \cup {Junk}
      BY <3>1 DEF Texts
    <3>3. Transfer(b)
      BY Zenon, <2>2, <3>1
    <3> QED
      BY Zenon, <3>2, <3>3, TransferAmounts, MoneyAssumption
  <2>3. CASE SendAll
    <3>1. PICK b : b = MarshalJSON(NewFromDecimal(src))
      OBVIOUS
    <3>2. b.text = Round(Round(Exact(src))) /\ src \in Int
      BY Zenon, <3>1
         DEF MarshalJSON, NewFromDecimal, String, Exact, AmountInv
    <3>3. b.text = Exact(src)
      BY Zenon, <3>2, ExactKept
    <3>4. b.text \in Int
      BY <3>2, <3>3 DEF Exact, Unit
    <3>5. Transfer(b)
      BY Zenon, <2>3, <3>1 DEF SendAll
    <3> QED
      BY Zenon, <3>4, <3>5, TransferAmounts, MoneyAssumption
  <2> QED
    BY Zenon, <2>1, <2>2, <2>3 DEF MoneyNext
<1> QED
  BY <1>1, <1>2, PTL DEF MoneySpec

\* An amount is rounded once, where it enters: what leaves one account is what
\* reaches the other and what the entries record.
THEOREM AmountsExact == MoneySpec => []RoundedOnce
<1>1. AmountInv => RoundedOnce
  BY Zenon DEF AmountInv
<1> QED
  BY <1>1, AmountsInductive, PTL

\* What is posted is the nearest multiple of 0.0001 to what was asked, halves
\* away from zero, and never nothing.
THEOREM AmountsNearest == MoneySpec => []PostsNearest
<1>1. AmountInv => PostsNearest
  BY Zenon DEF AmountInv
<1> QED
  BY <1>1, AmountsInductive, PTL

\* The balance shown, sent back as an amount, passes the funds check and
\* empties the account.
THEOREM BalanceShown == MoneySpec => []ShownIsStored
<1>1. AmountInv => ShownIsStored
  <2> SUFFICES ASSUME AmountInv PROVE ShownIsStored
    OBVIOUS
  <2>1. src \in Int /\ Exact(src) \in Int
    BY DEF AmountInv, Exact, Unit
  <2>2. NewFromDecimal(src) = Exact(src)
    BY Zenon, <2>1, ExactKept DEF NewFromDecimal, Exact
  <2>3. UnmarshalJSON(MarshalJSON(Exact(src))) = Exact(src)
    <3>1. MarshalJSON(Exact(src)).text = Exact(src)
      BY Zenon, <2>1, ExactKept DEF MarshalJSON, String
    <3>2. Exact(src) # Junk
      BY Zenon, <2>1, MoneyAssumption
    <3> QED
      BY Zenon, <2>1, <3>1, <3>2, ExactKept DEF UnmarshalJSON, FromString
  <2>4. ~LessThan(Exact(src), Exact(src))
    BY <2>1 DEF LessThan
  <2>5. Exact(src) - Exact(src) = Exact(0)
    BY <2>1 DEF Exact, Unit
  <2>6. Column(Sub(Exact(src), Exact(src))) = 0
    BY <2>5, ExactKept DEF Sub
  <2> QED
    BY Zenon, <2>2, <2>3, <2>4, <2>6 DEF ShownIsStored
<1> QED
  BY <1>1, AmountsInductive, PTL

-----------------------------------------------------------------------------
(* The data migrations *)

\* What the recorded level says about the tables: with postings in between, the
\* rows each migration left are still there; without, they are all there is.
Leftovers ==
    /\ level >= 2 => External \in exists
    /\ level = 3 => /\ Demo \subseteq exists
                    /\ SeedDebits \cup SeedCredits \subseteq entries
                    /\ \A s \in Seed : ByKey(s) # {}

Untouched ==
    IF level = 3 THEN Seeded
    ELSE /\ exists = IF level = 2 THEN {External} ELSE {}
         /\ balance = [a \in AccountId |-> 0]
         /\ txns = {} /\ entries = {}

\* What a file that deletes rows leaves nothing of, until the next file runs.
SeedsGone ==
    /\ Demo \cap exists = {} /\ \A a \in Demo : balance[a] = 0
    /\ \A e \in entries : e.tx \notin Seed
    /\ \A t \in txns : t.key \notin Seed

ExternalGone ==
    /\ External \notin exists /\ balance[External] = 0
    /\ \A e \in entries : e.account # External

LastFile ==
    /\ ran = "up2" => level = 2
    /\ ran = "up3" => level = 3
    /\ ran = "down3" => level = 2 /\ SeedsGone
    /\ ran = "down2" => level = 1 /\ ExternalGone

MInv ==
    /\ level \in 1 .. 3 /\ posted \in BOOLEAN
    /\ balance \in [AccountId -> Int]
    /\ \A t \in txns : t.id \in Seed => t.key = t.id
    /\ Leftovers /\ LastFile
    /\ ~posted => Untouched

\* The rows of the seed deposits.
LEMMA SeedRows ==
  ASSUME NEW s, NEW a
  PROVE  /\ Txn(s, "DEPOSIT", s, None).id = s
         /\ Txn(s, "DEPOSIT", s, None).key = s
         /\ Entry(s, a, "DEBIT", SeedAmount).tx = s
         /\ Entry(s, a, "CREDIT", SeedAmount).tx = s
  BY Zenon DEF Txn, Entry

\* Run again, 0002 up and 0003 up find all their rows in place.
LEMMA Up2Again ==
  ASSUME MInv, Up2, level = 2
  PROVE  UNCHANGED tables
<1>1. External \in exists
  BY DEF MInv, Leftovers
<1>2. exists' = exists
  BY Zenon, <1>1 DEF Up2
<1> QED
  BY Zenon, <1>1, <1>2 DEF Up2, tables

LEMMA Up3Again ==
  ASSUME MInv, Up3, level = 3
  PROVE  UNCHANGED tables
<1>1. /\ Demo \subseteq exists /\ SeedDebits \cup SeedCredits \subseteq entries
      /\ \A s \in Seed : ByKey(s) # {}
      /\ balance \in [AccountId -> Int]
  BY Zenon DEF MInv, Leftovers
<1>2. ~FirstTime
  BY Zenon, <1>1, MigrationsAssumption DEF FirstTime
<1>3. exists' = exists
  BY Zenon, <1>1 DEF Up3
<1>4. balance' = balance
  <2>1. \A a \in AccountId : a \notin Demo \ exists
    BY Zenon, <1>1
  <2>2. balance' = [a \in AccountId |-> balance[a]]
    BY Zenon, <1>2, <2>1 DEF Up3
  <2> QED
    BY Zenon, <1>1, <2>2
<1>5. txns' = txns
  <2>1. {u \in Seed : ByKey(u) = {} /\ ById(u) = {}} = {}
    BY Zenon, <1>1
  <2> QED
    BY Zenon, <2>1 DEF Up3
<1>6. entries' = entries
  BY Zenon, <1>1 DEF Up3
<1> QED
  BY Zenon, <1>3, <1>4, <1>5, <1>6 DEF tables

\* Run again, 0003 down and 0002 down find nothing to delete.
LEMMA Down3Again ==
  ASSUME MInv, Down3, ran = "down3"
  PROVE  /\ UNCHANGED <<exists, txns, entries>>
         /\ balance' = [balance EXCEPT ![External] = 0]
         /\ ~posted => balance' = balance
<1>1. /\ level = 2 /\ SeedsGone /\ balance \in [AccountId -> Int]
  BY Zenon DEF MInv, LastFile
<1>2. UNCHANGED <<exists, txns, entries>>
  BY Zenon, <1>1 DEF SeedsGone, Down3
<1>3. balance' = [balance EXCEPT ![External] = 0]
  <2>1. balance' = [a \in AccountId |-> IF a = External \/ a \in Demo THEN 0
                                        ELSE balance[a]]
    BY Zenon DEF Down3
  <2>2. \A a \in AccountId : a \in Demo => balance[a] = 0
    BY Zenon, <1>1 DEF SeedsGone
  <2> QED
    BY Zenon, <1>1, <2>1, <2>2
<1>4. ASSUME ~posted PROVE balance' = balance
  <2>1. balance = [a \in AccountId |-> 0]
    BY <1>1, <1>4 DEF MInv, Untouched
  <2> QED
    BY Zenon, <1>3, <2>1
<1> QED
  BY Zenon, <1>2, <1>3, <1>4

LEMMA Down2Again ==
  ASSUME MInv, Down2, ran = "down2"
  PROVE  UNCHANGED tables
<1>1. ExternalGone /\ balance \in [AccountId -> Int]
  BY Zenon DEF MInv, LastFile
<1>2. {e.tx : e \in {d \in entries : d.account = External}} = {}
  BY Zenon, <1>1 DEF ExternalGone
<1>3. entries' = entries
  BY Zenon, <1>2 DEF Down2
<1>4. txns' = txns
  <2>1. PICK left : /\ left = entries
                    /\ txns' = {t \in txns : t.id \notin
                          {e.tx : e \in {d \in left : d.account = External}}}
    BY Zenon, <1>2 DEF Down2
  <2> QED
    BY Zenon, <1>2, <2>1
<1>5. exists' = exists
  BY Zenon, <1>1 DEF Down2, ExternalGone
<1>6. balance' = balance
  BY <1>1 DEF Down2, ExternalGone
<1> QED
  BY Zenon, <1>3, <1>4, <1>5, <1>6 DEF tables

\* A step that keeps the tables, the level and what was posted.
LEMMA MStutter ==
  ASSUME MInv, UNCHANGED <<tables, level, ran, posted>>
  PROVE  MInv'
<1>1. /\ exists' = exists /\ balance' = balance /\ txns' = txns
      /\ entries' = entries /\ level' = level /\ posted' = posted
      /\ ran' = ran
  BY Zenon DEF tables
<1>2. Leftovers' /\ LastFile'
  BY Zenon, <1>1
     DEF MInv, Leftovers, ByKey, LastFile, SeedsGone, ExternalGone
<1>3. Untouched <=> Untouched'
  BY Zenon, <1>1 DEF Untouched, Seeded
<1> QED
  BY <1>1, <1>2, <1>3 DEF MInv

LEMMA Up2Steps ==
  ASSUME MInv, Up2
  PROVE  MInv'
<1>1. /\ level = 1 \/ ran = "up2"
      /\ level' = 2 /\ ran' = "up2" /\ posted' = posted
  BY Zenon DEF Up2, Runs
<1>2. CASE ran = "up2"
  <2>1. level = 2
    BY Zenon, <1>2 DEF MInv, LastFile
  <2> QED
    BY Zenon, <1>1, <1>2, <2>1, Up2Again, MStutter
<1>3. CASE level = 1
  <2>1. /\ exists' = exists \cup {External}
        /\ txns' = txns /\ entries' = entries
        /\ balance' = IF External \in exists THEN balance
                      ELSE [balance EXCEPT ![External] = 0]
    BY Zenon DEF Up2
  <2>2. balance' \in [AccountId -> Int]
    <3>1. balance \in [AccountId -> Int]
      BY Zenon DEF MInv
    <3>2. [balance EXCEPT ![External] = 0] \in [AccountId -> Int]
      BY <3>1, AccountAssumption
    <3> QED
      BY Zenon, <2>1, <3>1, <3>2
  <2>3. Leftovers' /\ LastFile'
    BY <1>1, <2>1 DEF Leftovers, LastFile
  <2>4. ASSUME ~posted PROVE Untouched'
    <3>1. /\ exists = {} /\ balance = [a \in AccountId |-> 0]
          /\ txns = {} /\ entries = {}
      BY <1>3, <2>4 DEF MInv, Untouched
    <3>2. balance' = [a \in AccountId |-> 0]
      BY Zenon, <2>1, <3>1
    <3> QED
      BY <1>1, <2>1, <3>1, <3>2 DEF Untouched
  <2> QED
    BY <1>1, <2>1, <2>2, <2>3, <2>4 DEF MInv
<1> QED
  BY Zenon, <1>1, <1>2, <1>3

\* 0003 up for the first time: no header has a seed's id, so every seed whose
\* key is missing is inserted.
LEMMA Up3Steps ==
  ASSUME MInv, Up3
  PROVE  MInv'
<1>1. /\ level = 2 \/ ran = "up3"
      /\ level' = 3 /\ ran' = "up3" /\ posted' = posted
  BY Zenon DEF Up3, Runs
<1>2. CASE ran = "up3"
  <2>1. level = 3
    BY Zenon, <1>2 DEF MInv, LastFile
  <2> QED
    BY Zenon, <1>1, <1>2, <2>1, Up3Again, MStutter
<1>3. CASE level = 2
  <2>1. /\ exists' = exists \cup Demo
        /\ balance' = [a \in AccountId |->
                          IF a \in Demo \ exists THEN SeedAmount
                          ELSE IF a = External /\ FirstTime THEN Liability
                          ELSE balance[a]]
        /\ txns' = txns \cup {Txn(s, "DEPOSIT", s, None) : s \in
                                 {u \in Seed : ByKey(u) = {} /\ ById(u) = {}}}
        /\ entries' = entries \cup SeedDebits \cup SeedCredits
    BY Zenon DEF Up3
  <2>2. balance' \in [AccountId -> Int]
    <3>1. SeedAmount \in Int /\ Liability \in Int
      <4>1. Cardinality(Seed) \in Nat
        BY Zenon, SeedAssumption, FS_CardinalityType
      <4> QED
        BY <4>1, SeedAssumption DEF Liability
    <3>2. \A a \in AccountId : balance[a] \in Int
      BY Zenon DEF MInv
    <3> QED
      BY Zenon, <2>1, <3>1, <3>2
  <2>3. ASSUME NEW t \in txns', t.id \in Seed
        PROVE  t.key = t.id
    <3>1. CASE t \in txns
      BY Zenon, <2>3, <3>1 DEF MInv
    <3>2. CASE t \notin txns
      <4>1. PICK s \in Seed : t = Txn(s, "DEPOSIT", s, None)
        BY Zenon, <2>1, <3>2
      <4> QED
        BY Zenon, <4>1, SeedRows
    <3> QED
      BY Zenon, <3>1, <3>2
  <2>4. ASSUME NEW s \in Seed
        PROVE  ByKey(s)' # {}
    <3>1. CASE ByKey(s) # {}
      BY Zenon, <2>1, <3>1 DEF ByKey
    <3>2. CASE ByKey(s) = {}
      <4>1. ById(s) = {}
        BY Zenon, <3>2 DEF ById, ByKey, MInv
      <4>2. Txn(s, "DEPOSIT", s, None) \in txns'
        BY Zenon, <2>1, <3>2, <4>1
      <4> QED
        BY Zenon, <4>2, SeedRows DEF ByKey
    <3> QED
      BY Zenon, <3>1, <3>2
  <2>5. Leftovers'
    <3>1. External \in exists
      BY <1>3 DEF MInv, Leftovers
    <3> QED
      BY Zenon, <1>1, <2>1, <2>4, <3>1 DEF Leftovers
  <2>6. ASSUME ~posted PROVE Untouched'
    <3>1. /\ exists = {External} /\ balance = [a \in AccountId |-> 0]
          /\ txns = {} /\ entries = {}
      BY <1>3, <2>6 DEF MInv, Untouched
    <3>2. /\ External \notin Demo /\ FirstTime
          /\ {u \in Seed : ByKey(u) = {} /\ ById(u) = {}} = Seed
      BY Zenon, <3>1, SeedAssumption DEF Demo, FirstTime, ByKey, ById
    <3>3. exists' = {External} \cup {SeedAccount[s] : s \in Seed}
      BY Zenon, <2>1, <3>1 DEF Demo
    <3>4. \A a \in AccountId : balance'[a] =
             IF a = External THEN -(SeedAmount * Cardinality(Seed))
             ELSE IF a \in exists' THEN SeedAmount ELSE 0
      BY Zenon, <2>1, <3>1, <3>2, <3>3 DEF Demo, Liability
    <3>5. balance' = [a \in AccountId |->
             IF a = External THEN -(SeedAmount * Cardinality(Seed))
             ELSE IF a \in exists' THEN SeedAmount ELSE 0]
      BY Zenon, <2>2, <3>4
    <3>6. /\ txns' = {Txn(s, "DEPOSIT", s, None) : s \in Seed}
          /\ entries' = SeedDebits \cup SeedCredits
      BY Zenon, <2>1, <3>1, <3>2
    <3> QED
      BY Zenon, <1>1, <3>3, <3>5, <3>6
         DEF Untouched, Seeded, SeedDebits, SeedCredits
  <2>7. LastFile'
    BY <1>1 DEF LastFile
  <2> QED
    BY <1>1, <2>2, <2>3, <2>5, <2>6, <2>7 DEF MInv
<1> QED
  BY Zenon, <1>1, <1>2, <1>3

\* 0003 down takes the seeds away and leaves everything else.
LEMMA Down3Steps ==
  ASSUME MInv, Down3
  PROVE  MInv'
<1>1. /\ level = 3 \/ ran = "down3"
      /\ level' = 2 /\ ran' = "down3" /\ posted' = posted
  BY Zenon DEF Down3, Runs
<1>2. /\ entries' = {e \in entries : e.tx \notin Seed}
      /\ txns' = {t \in txns : t.key \notin Seed}
      /\ exists' = exists \ Demo
      /\ balance' = [a \in AccountId |-> IF a = External \/ a \in Demo THEN 0
                                         ELSE balance[a]]
  BY Zenon DEF Down3
<1>3. balance' \in [AccountId -> Int]
  BY <1>2 DEF MInv
<1>4. \A t \in txns' : t.id \in Seed => t.key = t.id
  BY Zenon, <1>2 DEF MInv
<1>5. Leftovers' /\ LastFile'
  <2>1. External \in exists
    BY <1>1 DEF MInv, Leftovers, LastFile
  <2>2. External \notin Demo
    BY Zenon, SeedAssumption DEF Demo
  <2>3. Demo \subseteq AccountId
    BY Zenon, SeedAssumption DEF Demo
  <2>4. SeedsGone'
    BY Zenon, <1>2, <2>3 DEF SeedsGone, Demo
  <2> QED
    BY <1>1, <1>2, <2>1, <2>2, <2>4 DEF Leftovers, LastFile
<1>6. ASSUME ~posted, level = 3 PROVE Untouched'
  <2>1. Seeded
    BY Zenon, <1>1, <1>6 DEF MInv, Untouched
  <2>2. exists = {External} \cup Demo
    BY Zenon, <2>1 DEF Seeded, Demo
  <2>3. exists' = {External}
    <3>1. External \notin Demo
      BY Zenon, SeedAssumption DEF Demo
    <3> QED
      BY Zenon, <1>2, <2>2, <3>1
  <2>4. balance' = [a \in AccountId |-> 0]
    <3>1. ASSUME NEW a \in AccountId, a # External, a \notin Demo
          PROVE  balance[a] = 0
      BY Zenon, <2>1, <2>2, <3>1 DEF Seeded
    <3> QED
      BY Zenon, <1>2, <3>1
  <2>5. txns' = {}
    <3>1. \A t \in txns : t.key \in Seed
      BY Zenon, <2>1, SeedRows DEF Seeded
    <3> QED
      BY Zenon, <1>2, <3>1
  <2>6. entries' = {}
    <3>1. \A e \in entries : e.tx \in Seed
      BY ZenonT(30), <2>1, SeedRows DEF Seeded
    <3> QED
      BY Zenon, <1>2, <3>1
  <2> QED
    BY <1>1, <2>3, <2>4, <2>5, <2>6 DEF Untouched
<1>7. ASSUME ~posted, ran = "down3" PROVE Untouched'
  <2>1. level = 2 /\ Untouched
    BY Zenon, <1>7 DEF MInv, LastFile
  <2>2. tables' = tables
    BY Zenon, <1>7, Down3Again DEF tables
  <2> QED
    BY <1>1, <2>1, <2>2 DEF Untouched, tables
<1> QED
  BY <1>1, <1>3, <1>4, <1>5, <1>6, <1>7 DEF MInv

LEMMA Down2Steps ==
  ASSUME MInv, Down2
  PROVE  MInv'
<1>1. /\ level = 2 \/ ran = "down2"
      /\ level' = 1 /\ ran' = "down2" /\ posted' = posted
  BY Zenon DEF Down2, Runs
<1>2. /\ entries' \subseteq entries /\ txns' \subseteq txns
      /\ exists' = exists \ {External}
      /\ balance' = [balance EXCEPT ![External] = 0]
  BY Zenon DEF Down2
<1>3. balance' \in [AccountId -> Int]
  <2>1. balance \in [AccountId -> Int]
    BY Zenon DEF MInv
  <2>2. [balance EXCEPT ![External] = 0] \in [AccountId -> Int]
    BY <2>1, AccountAssumption
  <2> QED
    BY Zenon, <1>2, <2>2
<1>4. \A t \in txns' : t.id \in Seed => t.key = t.id
  BY Zenon, <1>2 DEF MInv
<1>5. Leftovers' /\ LastFile'
  <2>1. External \notin exists' /\ balance'[External] = 0
    BY <1>2, AccountAssumption DEF MInv
  <2>2. \A e \in entries' : e.account # External
    BY Zenon DEF Down2
  <2> QED
    BY <1>1, <2>1, <2>2 DEF Leftovers, LastFile, ExternalGone
<1>6. ASSUME ~posted, level = 2 PROVE Untouched'
  <2>1. /\ exists = {External} /\ balance = [a \in AccountId |-> 0]
        /\ txns = {} /\ entries = {}
    BY <1>1, <1>6 DEF MInv, Untouched
  <2>2. exists' = {} /\ txns' = {} /\ entries' = {}
    BY Zenon, <1>2, <2>1
  <2>3. balance' = [a \in AccountId |-> 0]
    BY Zenon, <1>2, <2>1
  <2> QED
    BY <1>1, <2>2, <2>3 DEF Untouched
<1>7. ASSUME ~posted, ran = "down2" PROVE Untouched'
  <2>1. level = 1 /\ Untouched
    BY Zenon, <1>7 DEF MInv, LastFile
  <2>2. tables' = tables
    BY Zenon, <1>7, Down2Again
  <2> QED
    BY <1>1, <2>1, <2>2 DEF Untouched, tables
<1> QED
  BY <1>1, <1>3, <1>4, <1>5, <1>6, <1>7 DEF MInv

\* The service adds rows, none of them with a seed's id, and removes none.
LEMMA ServeSteps ==
  ASSUME MInv, Serve
  PROVE  MInv'
<1>1. level' = level /\ ran' = ran /\ posted' = TRUE /\ level # 1
  BY DEF Serve
<1>2. ASSUME exists \subseteq exists', txns \subseteq txns',
             entries \subseteq entries', balance' \in [AccountId -> Int],
             \A t \in txns' \ txns : t.id \notin Seed,
             SeedsGone => SeedsGone'
      PROVE  MInv'
  <2>1. \A s : ByKey(s) # {} => ByKey(s)' # {}
    BY Zenon, <1>2 DEF ByKey
  <2>2. Leftovers'
    BY Zenon, <1>1, <1>2, <2>1 DEF MInv, Leftovers
  <2>3. \A t \in txns' : t.id \in Seed => t.key = t.id
    BY Zenon, <1>2 DEF MInv
  <2>4. LastFile'
    BY Zenon, <1>1, <1>2 DEF MInv, LastFile
  <2> QED
    BY Zenon, <1>1, <1>2, <2>2, <2>3, <2>4 DEF MInv
<1>3. ASSUME NEW r \in Request, NEW k \in Key, NEW a \in AccountId,
             Deposit(r, k, a, 1)
      PROVE  MInv'
  <2> DEFINE t == Txn(r, "DEPOSIT", k, None)
             d == Entry(r, External, "DEBIT", 1)
             c == Entry(r, a, "CREDIT", 1)
  <2>1. /\ d.account = External /\ d.amount = 1
        /\ c.account = a /\ c.amount = 1 /\ t.id = r
        /\ t.key = k /\ d.tx = r /\ c.tx = r
    BY Zenon DEF Txn, Entry
  <2>2. /\ balance' = [balance EXCEPT ![d.account] = @ - d.amount,
                                      ![c.account] = @ + c.amount]
        /\ txns' = txns \cup {t} /\ entries' = entries \cup {d, c}
        /\ exists' = exists /\ c.account \in exists
    BY Zenon, <1>3 DEF Deposit, PostOriginal, Post
  <2> HIDE DEF t, d, c
  <2>3. balance' = [balance EXCEPT ![External] = @ - 1, ![a] = @ + 1]
    BY Zenon, <2>1, <2>2
  <2>4. balance' \in [AccountId -> Int]
    BY <2>3, AccountAssumption DEF MInv
  <2>5. r \notin Seed /\ k \notin Seed
    BY Zenon, IdAssumption
  <2>6. ASSUME SeedsGone PROVE SeedsGone'
    <3>1. a \notin Demo /\ External \notin Demo /\ Demo \subseteq AccountId
      BY Zenon, <2>1, <2>2, <2>6, SeedAssumption DEF SeedsGone, Demo
    <3>2. \A b \in Demo : balance'[b] = balance[b]
      BY <2>3, <3>1 DEF MInv
    <3> QED
      BY Zenon, <2>1, <2>2, <2>5, <2>6, <3>2 DEF SeedsGone, Demo
  <2> QED
    BY Zenon, <1>2, <2>1, <2>2, <2>4, <2>5, <2>6
<1>4. ASSUME NEW a \in AccountId \ Demo, OpenAccount(a)
      PROVE  MInv'
  <2>1. balance' \in [AccountId -> Int]
    BY <1>4 DEF OpenAccount, MInv
  <2>2. ASSUME SeedsGone PROVE SeedsGone'
    <3>1. \A b \in Demo : balance'[b] = 0
      BY <1>4, <2>2 DEF OpenAccount, MInv, SeedsGone
    <3> QED
      BY Zenon, <1>4, <2>2, <3>1 DEF OpenAccount, SeedsGone, Demo
  <2> QED
    BY Zenon, <1>2, <1>4, <2>1, <2>2 DEF OpenAccount
<1> QED
  BY Zenon, <1>3, <1>4 DEF Serve

\* The rows of the migrations are where the recorded level says, in whatever
\* order the migrations run up, down and again, with postings in between.
THEOREM MigrationsInductive == MigrationsSpec => []MInv
<1>1. MigrationsInit => MInv
  <2> SUFFICES ASSUME MigrationsInit PROVE MInv
    OBVIOUS
  <2>1. /\ exists = {} /\ balance = [a \in AccountId |-> 0] /\ txns = {}
        /\ entries = {} /\ level = 1 /\ ran = "up1" /\ posted = FALSE
    BY Zenon DEF MigrationsInit
  <2>2. balance \in [AccountId -> Int]
    BY <2>1
  <2>3. Leftovers /\ LastFile /\ Untouched
    BY <2>1 DEF Leftovers, LastFile, Untouched
  <2>4. level \in 1 .. 3
    <3>1. level = 1
      BY Zenon, <2>1
    <3> QED
      BY <3>1
  <2> QED
    BY Zenon, <2>1, <2>2, <2>3, <2>4 DEF MInv
<1>2. MInv /\ [MigrationsNext]_vars => MInv'
  <2> SUFFICES ASSUME MInv, [MigrationsNext]_vars PROVE MInv'
    OBVIOUS
  <2>1. CASE UNCHANGED vars
    BY Zenon, <2>1, MStutter DEF vars
  <2> QED
    BY Zenon, <2>1, Up2Steps, Up3Steps, Down3Steps, Down2Steps, ServeSteps
       DEF MigrationsNext
<1> QED
  BY <1>1, <1>2, PTL DEF MigrationsSpec

\* However often the migrations went up and down before the service was used,
\* they leave the database that the ledger's proofs start from.
THEOREM MigrationsLeaveSeeded == MigrationsSpec => []LeavesSeeded
<1>1. MInv => LeavesSeeded
  BY Zenon DEF MInv, Untouched, LeavesSeeded
<1> QED
  BY <1>1, MigrationsInductive, PTL

\* A migration that is run again, up or down, whatever was posted since, changes
\* nothing, but that 0003 down sets EXTERNAL's balance to 0 once more.
THEOREM MigrationsRerun == MigrationsSpec => RerunChangesNothing
<1>1. ASSUME MInv, [MigrationsNext]_vars
      PROVE  [runs' # runs /\ ran' = ran
                => /\ UNCHANGED <<exists, txns, entries>>
                   /\ UNCHANGED balance \/ ZeroesExternal]_vars
  <2> SUFFICES ASSUME MigrationsNext, runs' # runs, ran' = ran
               PROVE  /\ UNCHANGED <<exists, txns, entries>>
                      /\ UNCHANGED balance \/ ZeroesExternal
    BY Zenon, <1>1
  <2>1. CASE Up2
    <3>1. ran = "up2" /\ level = 2
      BY Zenon, <1>1, <2>1 DEF Up2, Runs, MInv, LastFile
    <3> QED
      BY Zenon, <1>1, <2>1, <3>1, Up2Again DEF tables
  <2>2. CASE Up3
    <3>1. ran = "up3" /\ level = 3
      BY Zenon, <1>1, <2>2 DEF Up3, Runs, MInv, LastFile
    <3> QED
      BY Zenon, <1>1, <2>2, <3>1, Up3Again DEF tables
  <2>3. CASE Down3
    <3>1. ran = "down3"
      BY Zenon, <2>3 DEF Down3, Runs
    <3> QED
      BY Zenon, <1>1, <2>3, <3>1, Down3Again DEF ZeroesExternal
  <2>4. CASE Down2
    <3>1. ran = "down2"
      BY Zenon, <2>4 DEF Down2, Runs
    <3> QED
      BY Zenon, <1>1, <2>4, <3>1, Down2Again DEF tables
  <2>5. ~Serve
    BY Zenon DEF Serve
  <2> QED
    BY Zenon, <2>1, <2>2, <2>3, <2>4, <2>5 DEF MigrationsNext
<1> QED
  BY <1>1, MigrationsInductive, PTL DEF MigrationsSpec, RerunChangesNothing

-----------------------------------------------------------------------------
(* The trigger on entries, whatever is written to them *)

\* The legs of tx among the rows ids.
Part(table, ids, tx) == Net(table, Legs(table, ids, tx))

\* Session s takes no leg away from tx.
Keeps(s, tx) ==
    \A i \in DOMAIN own[s] : rows[i] # NoRow /\ rows[i].tx = tx
                                => own[s][i] # NoRow /\ own[s][i].tx = tx

\* What s writes to tx leaves its sum as it is.
Neutral(s, tx) ==
    Part(own[s], DOMAIN own[s], tx) = Part(rows, DOMAIN own[s], tx)

\* A row is written by one session at a time; the trigger is due for every leg
\* written and not checked; what was checked and takes no leg away is neutral,
\* and stays so, because it says nothing of rows that others may write.
SchemaInv ==
    /\ own = [s \in Session |-> own[s]] /\ queue = [s \in Session |-> queue[s]]
    /\ \A s \in Session : DOMAIN own[s] \subseteq EntryId
    /\ \A s, t \in Session : s # t => DOMAIN own[s] \cap DOMAIN own[t] = {}
    /\ \A s \in Session \ ending : \A i \in DOMAIN own[s] :
          own[s][i] # NoRow => own[s][i].tx \in queue[s]
    /\ \A s \in Session \cap ending, tx \in Tx \ lost :
          tx \notin queue[s] /\ Keeps(s, tx) => Neutral(s, tx)
    /\ KeptLegsBalance

BoundedTable == IsFiniteSet(EntryId) /\ MaxAmount \in Nat

LEMMA UnitsFinite ==
  ASSUME BoundedTable, NEW t, NEW ids \in SUBSET EntryId, NEW dir
  PROVE  /\ IsFiniteSet(LegUnits(t, ids, dir))
         /\ Cardinality(LegUnits(t, ids, dir)) \in Nat
<1>1. IsFiniteSet(ids) /\ IsFiniteSet(1 .. MaxAmount)
  <2>1. 1 \in Int /\ MaxAmount \in Int
    BY DEF BoundedTable
  <2> QED
    BY Zenon, <2>1, FS_Subset, FS_Interval DEF BoundedTable
<1>2. IsFiniteSet(ids \X (1 .. MaxAmount))
  BY Zenon, <1>1, FS_Product
<1>3. LegUnits(t, ids, dir) \in SUBSET (ids \X (1 .. MaxAmount))
  BY Zenon DEF LegUnits
<1> QED
  BY Zenon, <1>2, <1>3, FS_Subset, FS_CardinalityType

\* The sum of two groups of rows is the sum of their sums.
LEMMA PartSplit ==
  ASSUME BoundedTable, NEW t, NEW tx, NEW A \in SUBSET EntryId
  PROVE  /\ SumOf(t, tx) = Part(t, A, tx) + Part(t, EntryId \ A, tx)
         /\ Part(t, A, tx) \in Int /\ Part(t, EntryId \ A, tx) \in Int
<1> DEFINE I == Legs(t, A, tx)
           J == Legs(t, EntryId \ A, tx)
           n(ids, dir) == Cardinality(LegUnits(t, ids, dir))
<1>1. /\ I \in SUBSET EntryId /\ J \in SUBSET EntryId
      /\ Legs(t, EntryId, tx) = I \cup J /\ I \cap J = {}
  BY Zenon DEF Legs
<1>2. ASSUME NEW dir
      PROVE  \E x, y \in Nat :
                /\ n(I, dir) = x /\ n(J, dir) = y /\ n(I \cup J, dir) = x + y
  <2> DEFINE U == LegUnits(t, I, dir)
             V == LegUnits(t, J, dir)
  <2>1. IsFiniteSet(U) /\ IsFiniteSet(V)
        /\ Cardinality(U) \in Nat /\ Cardinality(V) \in Nat
    BY Zenon, <1>1, UnitsFinite
  <2>2. LegUnits(t, I \cup J, dir) = U \cup V
    <3> HIDE DEF I, J
    <3> QED BY Zenon DEF LegUnits
  <2>3. U \cap V = {}
    <3> HIDE DEF I, J
    <3> QED BY Zenon, <1>1 DEF LegUnits
  <2>4. PICK x, y \in Nat : x = Cardinality(U) /\ y = Cardinality(V)
    BY Zenon, <2>1
  <2>5. Cardinality(U \cup V) = x + y - Cardinality({})
    BY Zenon, <2>1, <2>3, <2>4, FS_Union
  <2>6. Cardinality({}) = 0 /\ x + y - 0 = x + y
    BY FS_EmptySet
  <2> QED
    BY Zenon, <2>2, <2>4, <2>5, <2>6
<1>3. PICK c, d \in Nat : /\ n(I, "CREDIT") = c /\ n(J, "CREDIT") = d
                          /\ n(I \cup J, "CREDIT") = c + d
  BY Zenon, <1>2
<1>4. PICK e, f \in Nat : /\ n(I, "DEBIT") = e /\ n(J, "DEBIT") = f
                          /\ n(I \cup J, "DEBIT") = e + f
  BY Zenon, <1>2
<1>5. /\ SumOf(t, tx) = (c + d) - (e + f)
      /\ Part(t, A, tx) = c - e /\ Part(t, EntryId \ A, tx) = d - f
  BY Zenon, <1>1, <1>3, <1>4 DEF SumOf, Part, Net
<1>6. (c + d) - (e + f) = (c - e) + (d - f) /\ c - e \in Int /\ d - f \in Int
  OBVIOUS
<1> QED
  BY Zenon, <1>5, <1>6

LEMMA PartSame ==
  ASSUME NEW t, NEW u, NEW A, NEW tx, \A i \in A : t[i] = u[i]
  PROVE  Part(t, A, tx) = Part(u, A, tx)
<1>1. Legs(t, A, tx) = Legs(u, A, tx)
  BY Zenon DEF Legs
<1>2. \A dir : LegUnits(t, Legs(t, A, tx), dir) = LegUnits(u, Legs(t, A, tx), dir)
  BY DEF LegUnits, Legs
<1> QED
  BY Zenon, <1>1, <1>2 DEF Part, Net

LEMMA PartNone ==
  ASSUME NEW t, NEW A, NEW tx, \A i \in A : t[i] # NoRow => t[i].tx # tx
  PROVE  Part(t, A, tx) = 0
<1>1. Legs(t, A, tx) = {}
  BY Zenon DEF Legs
<1>2. \A dir : LegUnits(t, {}, dir) = {}
  BY Zenon DEF LegUnits
<1>3. Cardinality({}) = 0
  BY Zenon, FS_EmptySet
<1>4. Part(t, A, tx) = Cardinality({}) - Cardinality({})
  BY Zenon, <1>1, <1>2 DEF Part, Net
<1> QED
  BY <1>3, <1>4

\* A table that a session sees: its own rows and those of the others.
LEMMA ViewSum ==
  ASSUME BoundedTable, NEW s \in Session, NEW tx,
         DOMAIN own[s] \subseteq EntryId
  PROVE  LET D == DOMAIN own[s]
         IN  /\ SumOf(View(s), tx)
                  = Part(own[s], D, tx) + Part(rows, EntryId \ D, tx)
             /\ SumOf(rows, tx)
                  = Part(rows, D, tx) + Part(rows, EntryId \ D, tx)
             /\ Part(own[s], D, tx) \in Int /\ Part(rows, D, tx) \in Int
             /\ Part(rows, EntryId \ D, tx) \in Int
<1> DEFINE D == DOMAIN own[s]
<1>1. \A i \in D : View(s)[i] = own[s][i]
  BY Zenon DEF View
<1>2. \A i \in EntryId \ D : View(s)[i] = rows[i]
  BY Zenon DEF View
<1>3. Part(View(s), D, tx) = Part(own[s], D, tx)
  BY <1>1, PartSame
<1>4. Part(View(s), EntryId \ D, tx) = Part(rows, EntryId \ D, tx)
  BY <1>2, PartSame
<1> QED
  BY ZenonT(30), <1>3, <1>4, PartSplit

\* A session whose writes, and the committed versions of the rows it writes,
\* a step leaves alone.
LEMMA OthersKept ==
  ASSUME NEW t \in Session, own'[t] = own[t],
         \A i \in DOMAIN own[t] : rows'[i] = rows[i], NEW tx
  PROVE  (Keeps(t, tx)' => Keeps(t, tx)) /\ (Neutral(t, tx) => Neutral(t, tx)')
<1>1. Part(rows', DOMAIN own[t], tx) = Part(rows, DOMAIN own[t], tx)
  BY PartSame
<1>2. Keeps(t, tx)' => Keeps(t, tx)
  BY Zenon DEF Keeps
<1>3. Part(own[t], DOMAIN own[t], tx)' = Part(own'[t], DOMAIN own'[t], tx)
      /\ Part(rows, DOMAIN own[t], tx)' = Part(rows', DOMAIN own'[t], tx)
  BY Zenon DEF Part, Net, Legs, LegUnits
<1> QED
  BY Zenon, <1>1, <1>2, <1>3 DEF Neutral

LEMMA BalanceKept ==
  ASSUME KeptLegsBalance, rows' = rows, lost' = lost
  PROVE  KeptLegsBalance'
  BY Zenon DEF KeptLegsBalance, SumOf, Net, Legs, LegUnits

\* INSERT, UPDATE and DELETE.
LEMMA WriteStep ==
  ASSUME SchemaInv, NEW s \in Session, NEW i \in EntryId, NEW stmt, NEW row,
         Write(s, stmt, i, row), Fires(stmt) \/ row = NoRow
  PROVE  SchemaInv'
<1>1. /\ s \notin ending /\ ~Locked(s, i)
      /\ rows' = rows /\ ending' = ending /\ lost' = lost
  BY Zenon DEF Write
<1>2. PICK w : w = [j \in DOMAIN own[s] \cup {i} |->
                       IF j = i THEN row ELSE own[s][j]]
  BY Zenon
<1>3. own' = [own EXCEPT ![s] = w]
  BY Zenon, <1>2 DEF Write
<1>4. /\ own' = [t \in Session |-> own'[t]] /\ own'[s] = w
      /\ \A t \in Session : t # s => own'[t] = own[t]
  BY Zenon, <1>3 DEF SchemaInv
<1>5. /\ queue' = [t \in Session |-> queue'[t]]
      /\ \A t \in Session : t # s => queue'[t] = queue[t]
      /\ queue[s] \subseteq queue'[s] /\ (Fires(stmt) => row.tx \in queue'[s])
  <2>1. CASE Fires(stmt)
    <3>1. queue' = [queue EXCEPT ![s] = queue[s] \cup {row.tx}]
      BY Zenon, <2>1 DEF Write
    <3> QED
      BY Zenon, <3>1 DEF SchemaInv
  <2>2. CASE ~Fires(stmt)
    <3>1. queue' = queue
      BY Zenon, <2>2 DEF Write
    <3> QED
      BY Zenon, <2>2, <3>1 DEF SchemaInv
  <2> QED
    BY Zenon, <2>1, <2>2
<1>6. /\ DOMAIN w = DOMAIN own[s] \cup {i} /\ w[i] = row
      /\ \A j \in DOMAIN own[s] : j # i => w[j] = own[s][j]
  BY Zenon, <1>2
<1>7. \A t \in Session : DOMAIN own'[t] \subseteq EntryId
  BY Zenon, <1>4, <1>6 DEF SchemaInv
<1>8. \A t, u \in Session : t # u => DOMAIN own'[t] \cap DOMAIN own'[u] = {}
  <2>1. \A t \in Session : t # s => DOMAIN own'[s] \cap DOMAIN own'[t] = {}
    <3> SUFFICES ASSUME NEW t \in Session, t # s
                 PROVE  DOMAIN own'[s] \cap DOMAIN own'[t] = {}
      BY Zenon
    <3>1. i \notin DOMAIN own[t]
      BY Zenon, <1>1 DEF Locked
    <3>2. DOMAIN own[s] \cap DOMAIN own[t] = {}
      BY Zenon DEF SchemaInv
    <3>3. DOMAIN own'[s] = DOMAIN own[s] \cup {i}
      BY Zenon, <1>4, <1>6
    <3>4. own'[t] = own[t]
      BY Zenon, <1>4
    <3> QED
      BY Zenon, <3>1, <3>2, <3>3, <3>4
  <2> QED
    BY Zenon, <1>4, <2>1 DEF SchemaInv
<1>9. ASSUME NEW t \in Session \ ending, NEW j \in DOMAIN own'[t],
             own'[t][j] # NoRow
      PROVE  own'[t][j].tx \in queue'[t]
  <2>1. CASE t # s
    BY Zenon, <1>4, <1>5, <1>9, <2>1 DEF SchemaInv
  <2>2. CASE t = s /\ j = i
    BY Zenon, <1>4, <1>5, <1>6, <1>9, <2>2
  <2>3. CASE t = s /\ j # i
    <3>1. own[s][j].tx \in queue[s]
      BY Zenon, <1>1, <1>4, <1>6, <1>9, <2>3 DEF SchemaInv
    <3> QED
      BY Zenon, <1>4, <1>5, <1>6, <1>9, <2>3, <3>1
  <2> QED
    BY Zenon, <2>1, <2>2, <2>3
<1>10. ASSUME NEW t \in Session \cap ending, NEW tx \in Tx \ lost,
              tx \notin queue'[t], Keeps(t, tx)'
       PROVE  Neutral(t, tx)'
  BY Zenon, <1>1, <1>4, <1>5, <1>10, OthersKept DEF SchemaInv
<1>11. KeptLegsBalance'
  BY Zenon, <1>1, BalanceKept DEF SchemaInv
<1> QED
  BY Zenon, <1>1, <1>4, <1>5, <1>7, <1>8, <1>9, <1>10, <1>11 DEF SchemaInv

\* COMMIT begins: of a transaction without an event the session wrote no leg.
LEMMA StartCommitStep ==
  ASSUME SchemaInv, NEW s \in Session, StartCommit(s)
  PROVE  SchemaInv'
<1>1. /\ s \notin ending /\ ending' = ending \cup {s}
      /\ rows' = rows /\ own' = own /\ queue' = queue /\ lost' = lost
  BY Zenon DEF StartCommit
<1>2. ASSUME NEW tx \in Tx \ lost, tx \notin queue[s], Keeps(s, tx)
      PROVE  Neutral(s, tx)
  <2>1. \A i \in DOMAIN own[s] : own[s][i] # NoRow => own[s][i].tx # tx
    <3>1. \A i \in DOMAIN own[s] : own[s][i] # NoRow => own[s][i].tx \in queue[s]
      BY Zenon, <1>1 DEF SchemaInv
    <3> QED
      BY Zenon, <1>2, <3>1
  <2>2. \A i \in DOMAIN own[s] : rows[i] # NoRow => rows[i].tx # tx
    BY Zenon, <1>2, <2>1 DEF Keeps
  <2>3. Part(own[s], DOMAIN own[s], tx) = 0
    BY <2>1, PartNone
  <2>4. Part(rows, DOMAIN own[s], tx) = 0
    BY <2>2, PartNone
  <2> QED
    BY Zenon, <2>3, <2>4 DEF Neutral
<1>3. ASSUME NEW t \in Session \cap ending', NEW tx \in Tx \ lost,
             tx \notin queue[t], Keeps(t, tx)'
      PROVE  Neutral(t, tx)'
  <2>1. Keeps(t, tx) /\ (Neutral(t, tx) => Neutral(t, tx)')
    BY Zenon, <1>1, <1>3, OthersKept
  <2> QED
    BY Zenon, <1>1, <1>2, <1>3, <2>1 DEF SchemaInv
<1>4. KeptLegsBalance'
  BY Zenon, <1>1, BalanceKept DEF SchemaInv
<1> QED
  BY Zenon, <1>1, <1>3, <1>4 DEF SchemaInv

\* The trigger: the rows of the other sessions add the same to what it sees
\* and to what was committed before.
LEMMA CheckStep ==
  ASSUME BoundedTable, SchemaInv, NEW s \in Session, NEW c,
         CheckDoubleEntry(s, c)
  PROVE  SchemaInv'
<1>1. /\ s \in ending /\ SumOf(View(s), c) = 0
      /\ queue' = [queue EXCEPT ![s] = queue[s] \ {c}]
      /\ rows' = rows /\ own' = own /\ ending' = ending /\ lost' = lost
  BY Zenon DEF CheckDoubleEntry
<1>2. /\ queue' = [t \in Session |-> queue'[t]]
      /\ queue'[s] = queue[s] \ {c}
      /\ \A t \in Session : t # s => queue'[t] = queue[t]
  BY Zenon, <1>1 DEF SchemaInv
<1>3. c \in Tx \ lost => Neutral(s, c)
  <2> SUFFICES ASSUME c \in Tx \ lost PROVE Neutral(s, c)
    BY Zenon
  <2>1. SumOf(rows, c) = 0 /\ DOMAIN own[s] \subseteq EntryId
    BY Zenon DEF SchemaInv, KeptLegsBalance
  <2>2. PICK x, y, z \in Int :
           /\ x = Part(own[s], DOMAIN own[s], c)
           /\ y = Part(rows, DOMAIN own[s], c)
           /\ SumOf(View(s), c) = x + z /\ SumOf(rows, c) = y + z
    BY Zenon, <2>1, ViewSum
  <2>3. x = y
    BY <1>1, <2>1, <2>2
  <2> QED
    BY Zenon, <2>2, <2>3 DEF Neutral
<1>4. ASSUME NEW t \in Session \cap ending, NEW tx \in Tx \ lost,
             tx \notin queue'[t], Keeps(t, tx)'
      PROVE  Neutral(t, tx)'
  <2>1. Keeps(t, tx) /\ (Neutral(t, tx) => Neutral(t, tx)')
    BY Zenon, <1>1, <1>4, OthersKept
  <2>2. CASE t = s /\ tx = c
    BY Zenon, <1>3, <2>1, <2>2
  <2>3. CASE ~(t = s /\ tx = c)
    <3>1. tx \notin queue[t]
      BY Zenon, <1>2, <1>4, <2>3
    <3> QED
      BY Zenon, <2>1, <3>1 DEF SchemaInv
  <2> QED
    BY Zenon, <2>2, <2>3
<1>5. KeptLegsBalance'
  BY Zenon, <1>1, BalanceKept DEF SchemaInv
<1>6. \A t \in Session \ ending' : \A i \in DOMAIN own'[t] :
         own'[t][i] # NoRow => own'[t][i].tx \in queue'[t]
  BY Zenon, <1>1, <1>2 DEF SchemaInv
<1> QED
  BY Zenon, <1>1, <1>2, <1>4, <1>5, <1>6 DEF SchemaInv

\* The session starts again, and the committed rows are the same or differ only
\* where it alone had written.
LEMMA BeginStep ==
  ASSUME SchemaInv, NEW s \in Session, Begin(s), lost \subseteq lost',
         \A i \in EntryId \ DOMAIN own[s] : rows'[i] = rows[i],
         KeptLegsBalance'
  PROVE  SchemaInv'
<1>1. /\ own' = [own EXCEPT ![s] = <<>>] /\ queue' = [queue EXCEPT ![s] = {}]
      /\ ending' = ending \ {s}
  BY Zenon DEF Begin
<1>2. /\ own' = [t \in Session |-> own'[t]] /\ own'[s] = <<>>
      /\ queue' = [t \in Session |-> queue'[t]]
      /\ \A t \in Session : t # s => own'[t] = own[t] /\ queue'[t] = queue[t]
  BY Zenon, <1>1 DEF SchemaInv
<1>3. DOMAIN own'[s] = {}
  BY <1>2
<1>4. \A t \in Session : DOMAIN own'[t] \subseteq EntryId
  BY Zenon, <1>2, <1>3 DEF SchemaInv
<1>5. \A t, u \in Session : t # u => DOMAIN own'[t] \cap DOMAIN own'[u] = {}
  BY Zenon, <1>2, <1>3 DEF SchemaInv
<1>6. \A t \in Session \ ending' : \A i \in DOMAIN own'[t] :
         own'[t][i] # NoRow => own'[t][i].tx \in queue'[t]
  BY Zenon, <1>1, <1>2, <1>3 DEF SchemaInv
<1>7. ASSUME NEW t \in Session \cap ending', NEW tx \in Tx \ lost',
             tx \notin queue'[t], Keeps(t, tx)'
      PROVE  Neutral(t, tx)'
  <2>1. t \in ending /\ t # s /\ tx \notin lost
    BY Zenon, <1>1, <1>7
  <2>2. \A i \in DOMAIN own[t] : rows'[i] = rows[i]
    BY Zenon, <2>1 DEF SchemaInv
  <2>3. Keeps(t, tx) /\ (Neutral(t, tx) => Neutral(t, tx)')
    BY Zenon, <1>2, <1>7, <2>1, <2>2, OthersKept
  <2> QED
    BY Zenon, <1>2, <1>7, <2>1, <2>3 DEF SchemaInv
<1> QED
  BY Zenon, <1>2, <1>4, <1>5, <1>6, <1>7 DEF SchemaInv

LEMMA RollbackStep ==
  ASSUME SchemaInv, NEW s \in Session, Rollback(s)
  PROVE  SchemaInv'
<1>1. Begin(s) /\ rows' = rows /\ lost' = lost
  BY Zenon DEF Rollback
<1>2. KeptLegsBalance'
  BY Zenon, <1>1, BalanceKept DEF SchemaInv
<1> QED
  BY Zenon, <1>1, <1>2, BeginStep

LEMMA CommitStep ==
  ASSUME BoundedTable, SchemaInv, NEW s \in Session, Commit(s)
  PROVE  SchemaInv'
<1>1. s \in ending /\ queue[s] = {} /\ rows' = View(s) /\ Begin(s)
  BY Zenon DEF Commit
<1>2. lost \subseteq lost' /\ \A tx : tx \notin lost' => Keeps(s, tx)
  BY Zenon DEF Commit, Keeps
<1>3. KeptLegsBalance'
  <2> SUFFICES ASSUME NEW tx \in Tx, tx \notin lost'
               PROVE  SumOf(rows', tx) = 0
    BY Zenon DEF KeptLegsBalance, SumOf, Net, Legs, LegUnits
  <2>1. Neutral(s, tx) /\ SumOf(rows, tx) = 0 /\ DOMAIN own[s] \subseteq EntryId
    BY Zenon, <1>1, <1>2 DEF SchemaInv, KeptLegsBalance
  <2> QED
    BY Zenon, <1>1, <2>1, ViewSum DEF Neutral
<1>4. \A i \in EntryId \ DOMAIN own[s] : rows'[i] = rows[i]
  BY Zenon, <1>1 DEF View
<1> QED
  BY Zenon, <1>1, <1>2, <1>3, <1>4, BeginStep

LEMMA SchemaStart == SchemaInit => SchemaInv
<1> SUFFICES ASSUME SchemaInit PROVE SchemaInv
  BY Zenon
<1>1. /\ rows = [i \in EntryId |-> NoRow] /\ own = [s \in Session |-> <<>>]
      /\ queue = [s \in Session |-> {}] /\ ending = {} /\ lost = {}
  BY Zenon DEF SchemaInit
<1>2. \A s \in Session : own[s] = <<>>
  BY Zenon, <1>1
<1>3. \A s \in Session : DOMAIN own[s] = {}
  BY <1>2
<1>4. KeptLegsBalance
  <2>1. \A i \in EntryId : rows[i] = NoRow
    BY Zenon, <1>1
  <2>2. \A tx : Part(rows, EntryId, tx) = 0
    BY <2>1, PartNone
  <2> QED
    BY Zenon, <2>2 DEF KeptLegsBalance, SumOf, Part
<1>5. own = [s \in Session |-> own[s]] /\ queue = [s \in Session |-> queue[s]]
  BY Zenon, <1>1
<1> QED
  BY Zenon, <1>1, <1>3, <1>4, <1>5 DEF SchemaInv

LEMMA SchemaStutter == SchemaInv /\ UNCHANGED schemaVars => SchemaInv'
<1> SUFFICES ASSUME SchemaInv, UNCHANGED schemaVars PROVE SchemaInv'
  BY Zenon
<1>1. /\ rows' = rows /\ own' = own /\ queue' = queue /\ ending' = ending
      /\ lost' = lost
  BY Zenon DEF schemaVars
<1>2. KeptLegsBalance'
  BY Zenon, <1>1, BalanceKept DEF SchemaInv
<1>3. ASSUME NEW t \in Session \cap ending, NEW tx \in Tx \ lost,
             tx \notin queue[t], Keeps(t, tx)'
      PROVE  Neutral(t, tx)'
  BY Zenon, <1>1, <1>3, OthersKept DEF SchemaInv
<1> QED
  BY Zenon, <1>1, <1>2, <1>3 DEF SchemaInv

LEMMA SchemaStep ==
  ASSUME BoundedTable, SchemaInv, [SchemaNext]_schemaVars
  PROVE  SchemaInv'
<1>1. CASE UNCHANGED schemaVars
  BY Zenon, <1>1, SchemaStutter
<1>2. ASSUME NEW s \in Session, NEW i \in EntryId,
             \/ \E row \in Row : Insert(s, i, row)
             \/ \E n \in 1 .. MaxAmount : UpdateAmount(s, i, n)
             \/ \E tx \in Tx : UpdateTransactionId(s, i, tx)
             \/ Delete(s, i)
      PROVE  SchemaInv'
  <2>1. Fires("insert") /\ Fires("amount") /\ Fires("move")
    BY Zenon DEF Fires
  <2> QED
    BY Zenon, <1>2, <2>1, WriteStep
    DEF Insert, UpdateAmount, UpdateTransactionId, Delete
<1>3. ASSUME NEW s \in Session,
             \/ StartCommit(s) \/ Rollback(s) \/ Commit(s)
             \/ \E tx \in queue[s] : CheckDoubleEntry(s, tx)
      PROVE  SchemaInv'
  BY Zenon, <1>3, StartCommitStep, RollbackStep, CommitStep, CheckStep
<1> QED
  BY Zenon, <1>1, <1>2, <1>3 DEF SchemaNext

\* For any number of sessions and rows, the deferred trigger of migration 0001
\* keeps every transaction balanced that no commit has taken a leg from,
\* whatever the sessions insert, amend, move and delete at once.
THEOREM TriggerSuffices ==
  ASSUME IsFiniteSet(EntryId), MaxAmount \in Nat
  PROVE  SchemaSpec => []KeptLegsBalance
<1>1. BoundedTable
  BY Zenon DEF BoundedTable
<1>2. SchemaInv /\ [SchemaNext]_schemaVars => SchemaInv'
  BY Zenon, <1>1, SchemaStep
<1>3. SchemaInv => KeptLegsBalance
  BY Zenon DEF SchemaInv
<1> QED
  BY SchemaStart, <1>2, <1>3, PTL DEF SchemaSpec
=============================================================================
