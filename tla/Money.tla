------------------------------- MODULE Money --------------------------------
(***************************************************************************)
(* internal/money and the way of an amount through the system: JSON text,  *)
(* Money, arithmetic, NUMERIC(20,4) column, Money, JSON text.              *)
(*                                                                         *)
(* A decimal is an integer number of millionths: two digits more than the  *)
(* four a Money keeps, which is every case decimal.Round tells apart.      *)
(***************************************************************************)
EXTENDS Integers

CONSTANTS
    MaxText,       \* largest decimal the clients write, either sign
    Junk,          \* text that is not a decimal
    Opening        \* balance of both accounts at the start, in 0.0001 units

ASSUME MoneyAssumption ==
    MaxText \in Nat /\ Opening \in Nat /\ Junk \notin Int

VARIABLES
    src, dst,   \* accounts.balance of the two accounts, in 0.0001 units
    book,       \* sum of the amounts in entries
    last        \* the text and the entry of the latest transfer

moneyVars == <<src, dst, book, last>>

Unit == 100   \* 0.0001 in millionths
Texts == (-MaxText .. MaxText) \cup {Junk}

-----------------------------------------------------------------------------
(* Conversions *)

Truncate(n, d) == IF n >= 0 THEN n \div d ELSE -((-n) \div d)

\* Mutant: digits beyond the fourth are cut off.
MutCut(d) == Unit * Truncate(d, Unit)

\* decimal.Round(4): cut to five digits, add half away from zero, cut to four.
Round(d) ==
    LET five == Truncate(d, Unit \div 10)
    IN  Unit * Truncate(IF five < 0 THEN five - 5 ELSE five + 5, 10)

\* Mutant: the constructor forgets to round.
MutUnrounded(s) == s

FromString(s) == IF s = Junk THEN Junk ELSE Round(s)

\* Storing a numeric in a NUMERIC(20,4) column rounds half away from zero.
Column(d) == Truncate(IF d < 0 THEN d - 50 ELSE d + 50, Unit)
NewFromDecimal(column) == Round(Unit * column)

\* Mutant: two decimal places, as for cents.
MutCents(m) == 100 * Unit * Truncate(m, 100 * Unit)

\* StringFixed(4): the decimal that the printed text denotes.
String(m) == Round(m)

MarshalJSON(m) == [quoted |-> TRUE, text |-> String(m)]

\* Quotes are optional; null and anything else that is no decimal is an error.
UnmarshalJSON(b) == FromString(b.text)

-----------------------------------------------------------------------------
(* Arithmetic and order *)

Add(m, other) == Round(m + other)
Sub(m, other) == Round(m - other)

IsPositive(m) == m > 0
LessThan(m, other) == m < other

-----------------------------------------------------------------------------
(* A transfer, reduced to its amounts *)

\* Transfer's two checks, the two UPDATEs and the amount of the entries; the
\* CHECK (amount > 0) of entries is left out so that a property can show it
\* is never needed.
Transfer(b) ==
    LET amount == UnmarshalJSON(b)
    IN  /\ amount # Junk
        /\ IsPositive(amount)
        /\ ~LessThan(NewFromDecimal(src), amount)
        /\ src' = Column(Sub(NewFromDecimal(src), amount))
        /\ dst' = Column(Add(NewFromDecimal(dst), amount))
        /\ book' = book + Column(amount)
        /\ last' = [asked |-> b.text, posted |-> Column(amount)]

\* A client sends what GET /api/accounts/{id} shows as the balance of src.
SendAll == Transfer(MarshalJSON(NewFromDecimal(src)))

MoneyInit ==
    /\ src = Opening /\ dst = Opening /\ book = 0
    /\ last = [asked |-> Unit, posted |-> 1]

MoneyNext ==
    \/ \E quoted \in BOOLEAN, s \in Texts :
          Transfer([quoted |-> quoted, text |-> s])
    \/ SendAll

MoneySpec == MoneyInit /\ [][MoneyNext]_moneyVars

-----------------------------------------------------------------------------
(* Properties *)

\* An amount is rounded once, where it enters: what leaves one account is what
\* reaches the other and what the entries record, however many digits the
\* client wrote.
RoundedOnce == src + dst = 2 * Opening /\ dst = Opening + book

\* What is posted is the nearest multiple of 0.0001 to what was asked, halves
\* away from zero, and never nothing: 0.00004 is refused, not posted as zero.
PostsNearest ==
    /\ last.posted > 0
    /\ 2 * last.asked - Unit < 2 * Unit * last.posted
    /\ 2 * Unit * last.posted <= 2 * last.asked + Unit

\* The balance a client is shown is the stored one, digit for digit: sent back
\* as an amount it passes the funds check and empties the account.
ShownIsStored ==
    LET shown == UnmarshalJSON(MarshalJSON(NewFromDecimal(src)))
    IN  /\ ~LessThan(NewFromDecimal(src), shown)
        /\ Column(Sub(NewFromDecimal(src), shown)) = 0
=============================================================================
