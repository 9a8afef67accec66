---------------------------- MODULE ServerProofs ----------------------------
(***************************************************************************)
(* No handler waits for a connection while it holds one or a row lock; the *)
(* server serves the complete schema only, and stopping it in time loses   *)
(* no request: for any number of handlers, connections, rows, migrations   *)
(* and kills.                                                              *)
(***************************************************************************)
EXTENDS Server, SequenceTheorems, TLAPS

-----------------------------------------------------------------------------
(* The inductive invariants *)

\* Operations that need a connection, and those that have one.
Taking == {"query", "refetch", "audit", "open", "begin"}
Holding == {"close", "lock", "end"}

Op == {Query, Refetch, Audit, Begin, End, <<"open">>, <<"close">>}
        \cup {Lock(a) : a \in Row}

\* What may come after an operation of kind k: nothing that needs a second
\* connection comes between BEGIN and its end, or before rows.Close().
After(k) ==
    IF k = "open" THEN {"close"}
    ELSE IF k = "begin" THEN {"lock"}
    ELSE IF k = "lock" THEN {"lock", "end"}
    ELSE Taking

\* Every BEGIN is ended and every listing closed.
Shape(s) ==
    /\ s \in Seq(Op)
    /\ \A i \in 1 .. Len(s) :
          /\ s[i][1] \in {"open", "begin", "lock"} => i < Len(s)
          /\ i < Len(s) => s[i + 1][1] \in After(s[i][1])

\* The kind of the next operation.
Now(s) == IF s = <<>> THEN "none" ELSE Head(s)[1]

SlotOK(r) ==
    /\ Shape(todo[r])
    /\ held[r] = IF Now(todo[r]) \in Holding THEN 1 ELSE 0
    /\ \A a \in Row : r \in lock[a] => Now(todo[r]) \in {"lock", "end"}
    /\ Waiting(r) => Now(todo[r]) \in Taking

\* No request waits twice.
Distinct(s) == \A i, j \in 1 .. Len(s) : s[i] = s[j] => i = j

PoolInv ==
    /\ todo \in [Slot -> Seq(Op)] /\ held \in [Slot -> Nat]
    /\ lock \in [Row -> SUBSET (Slot \cup {"outside"})]
    /\ queue \in Seq(Slot) /\ Distinct(queue)
    /\ \A r \in Slot : SlotOK(r)

\* The process: what is known of the schema in each phase, and that a pool
\* closed in time is closed behind the last request.
ProcInv ==
    /\ proc \in Phase /\ version \in 0 .. Latest /\ schema \in Nat
    /\ kills \in Nat
    /\ ~dirty => schema = version
    /\ proc \in Running \cup {"connecting"} => ~dirty /\ version = Latest
    /\ proc = "closing" /\ ~late => \A r \in Slot : todo[r] = <<>>
    /\ lost => late
    /\ lost => proc \in {"closing", "down"}

ServerInv == PoolInv /\ ProcInv

-----------------------------------------------------------------------------
(* Lists of operations *)

LEMMA KindOf ==
  ASSUME NEW op \in Op
  PROVE  op[1] \in Taking \cup Holding
  BY DEF Op, Query, Refetch, Audit, Begin, End, Lock, Taking, Holding

LEMMA NowKind ==
  ASSUME NEW s, Shape(s)
  PROVE  /\ Now(s) \in Taking \cup Holding \cup {"none"}
         /\ s = <<>> <=> Now(s) = "none"
<1>1. CASE s # <<>>
  <2>1. Head(s) \in Op
    BY Zenon, <1>1, HeadTailProperties DEF Shape
  <2>2. Head(s)[1] \in Taking \cup Holding
    BY Zenon, <2>1, KindOf
  <2> QED
    BY Zenon, <1>1, <2>2 DEF Now, Taking, Holding
<1> QED
  BY Zenon, <1>1 DEF Now

\* An operation is done: the rest of the request is as good as the whole.
LEMMA TailShape ==
  ASSUME NEW s, Shape(s), s # <<>>
  PROVE  /\ Shape(Tail(s))
         /\ Now(s) \in {"open", "begin", "lock"} => Now(Tail(s)) \in After(Now(s))
         /\ Now(Tail(s)) \in After(Now(s)) \cup {"none"}
<1>0. PICK t : t = Tail(s)
  BY Zenon
<1>1. PICK n \in Nat : n = Len(t)
  BY Zenon, <1>0, HeadTailProperties, LenProperties DEF Shape
<1>2. /\ t \in Seq(Op) /\ Len(s) = n + 1 /\ \A i \in 1 .. n : t[i] = s[i + 1]
  <2>1. Len(s) \in Nat
    BY Zenon, LenProperties DEF Shape
  <2> QED
    BY <1>0, <1>1, <2>1, HeadTailProperties DEF Shape
<1>3. Now(s) = s[1][1]
  BY DEF Now, Shape
<1>4. Shape(t)
  <2> SUFFICES ASSUME NEW i \in 1 .. n
               PROVE  /\ t[i][1] \in {"open", "begin", "lock"} => i < n
                      /\ i < n => t[i + 1][1] \in After(t[i][1])
    BY Zenon, <1>1, <1>2 DEF Shape
  <2>1. i + 1 \in 1 .. Len(s) /\ t[i] = s[i + 1]
    BY <1>2
  <2>2. i < n => t[i + 1] = s[(i + 1) + 1]
    BY <1>2
  <2>3. /\ s[i + 1][1] \in {"open", "begin", "lock"} => i + 1 < Len(s)
        /\ i + 1 < Len(s) => s[(i + 1) + 1][1] \in After(s[i + 1][1])
    BY Zenon, <2>1 DEF Shape
  <2> QED
    BY <1>2, <2>1, <2>2, <2>3
<1>5. n > 0 => Now(t) = s[2][1] /\ s[2][1] \in After(s[1][1])
  <2> SUFFICES ASSUME n > 0
               PROVE  Now(t) = s[2][1] /\ s[2][1] \in After(s[1][1])
    OBVIOUS
  <2>1. t # <<>> /\ t[1] = s[2]
    BY <1>1, <1>2
  <2>2. 1 \in 1 .. Len(s) /\ 1 < Len(s)
    BY <1>2
  <2>3. s[1 + 1][1] \in After(s[1][1])
    BY Zenon, <2>2 DEF Shape
  <2>4. Head(t) = t[1]
    BY <1>2, <2>1
  <2> QED
    BY <2>1, <2>3, <2>4 DEF Now
<1>6. n = 0 => Now(t) = "none" /\ s[1][1] \notin {"open", "begin", "lock"}
  <2>1. n = 0 => t = <<>>
    BY Zenon, <1>1, <1>2, EmptySeq
  <2>2. n = 0 => 1 \in 1 .. Len(s) /\ ~(1 < Len(s))
    BY <1>2
  <2> QED
    BY Zenon, <2>1, <2>2 DEF Now, Shape
<1> QED
  BY <1>0, <1>1, <1>3, <1>4, <1>5, <1>6

\* What an error leaves is the audit row, or nothing.
LEMMA ErrorShape ==
  ASSUME NEW s
  PROVE  Shape(AfterError(s)) /\ Now(AfterError(s)) \in {"audit", "none"}
<1>1. <<>> \in Seq(Op) /\ <<Audit>> \in Seq(Op) /\ <<Audit>> # <<>>
  BY DEF Op
<1>2. Shape(<<>>) /\ Now(<<>>) = "none"
  BY <1>1 DEF Shape, Now
<1>3. Shape(<<Audit>>) /\ Now(<<Audit>>) = "audit"
  BY <1>1 DEF Shape, Now, Audit
<1> QED
  BY Zenon, <1>2, <1>3 DEF AfterError

\* The re-fetch after a lost race.
LEMMA RefetchShape ==
  Shape(<<Refetch, Refetch>>) /\ Now(<<Refetch, Refetch>>) = "refetch"
<1>1. PICK s : s = <<Refetch, Refetch>>
  BY Zenon
<1>2. /\ s \in Seq(Op) /\ s # <<>> /\ Len(s) = 2
      /\ s[1] = Refetch /\ s[2] = Refetch
  BY <1>1 DEF Op
<1>3. Shape(s) /\ Now(s) = "refetch"
  BY <1>2 DEF Shape, Now, Refetch, After, Taking
<1> QED
  BY Zenon, <1>1, <1>3

\* A replayed request.
LEMMA ReplayShape == Shape(Replay) /\ Now(Replay) = "query"
<1>1. Replay \in Seq(Op) /\ Replay # <<>> /\ Len(Replay) = 2
  BY DEF Op, Replay
<1> QED
  BY <1>1 DEF Shape, Now, Replay, Query, After, Taking

\* One operation more in front of a request.
LEMMA ConsShape ==
  ASSUME NEW op \in Op, NEW s, Shape(s),
         Now(s) \in After(op[1]) \cup {"none"},
         op[1] \in {"open", "begin", "lock"} => Now(s) # "none"
  PROVE  Shape(<<op>> \o s) /\ Now(<<op>> \o s) = op[1]
<1>0. PICK t : t = <<op>> \o s
  BY Zenon
<1>1. PICK n \in Nat : n = Len(s)
  BY Zenon, LenProperties DEF Shape
<1>2. <<op>> \in Seq(Op) /\ Len(<<op>>) = 1 /\ <<op>>[1] = op
  OBVIOUS
<1>3. /\ t \in Seq(Op) /\ Len(t) = n + 1 /\ t[1] = op
      /\ \A i \in 1 .. n : t[i + 1] = s[i]
  <2>1. /\ t \in Seq(Op) /\ Len(t) = 1 + n
        /\ \A i \in 1 .. 1 + n : t[i] = IF i <= 1 THEN <<op>>[i] ELSE s[i - 1]
    BY <1>0, <1>1, <1>2, ConcatProperties DEF Shape
  <2>2. \A i \in 1 .. n : i + 1 \in 1 .. 1 + n /\ ~(i + 1 <= 1) /\ (i + 1) - 1 = i
    BY <1>1
  <2>3. 1 \in 1 .. 1 + n
    BY <1>1
  <2> QED
    BY <1>1, <1>2, <2>1, <2>2, <2>3
<1>4. n > 0 <=> Now(s) # "none"
  BY <1>1, NowKind, EmptySeq DEF Shape
<1>5. n > 0 => s[1][1] = Now(s)
  <2>1. n > 0 => s # <<>>
    BY <1>1
  <2> QED
    BY <2>1 DEF Now, Shape
<1>6. ASSUME NEW i \in 1 .. n + 1
      PROVE  /\ t[i][1] \in {"open", "begin", "lock"} => i < n + 1
             /\ i < n + 1 => t[i + 1][1] \in After(t[i][1])
  <2>1. CASE i = 1
    BY <1>1, <1>3, <1>4, <1>5, <2>1
  <2>2. CASE i # 1
    <3>1. PICK j \in 1 .. n : i = j + 1
      BY <1>1, <2>2
    <3>2. /\ s[j][1] \in {"open", "begin", "lock"} => j < n
          /\ j < n => s[j + 1][1] \in After(s[j][1])
      BY Zenon, <1>1 DEF Shape
    <3>3. t[i] = s[j] /\ (j < n => t[i + 1] = s[j + 1])
      BY <1>1, <1>3, <3>1
    <3> QED
      BY <1>1, <3>1, <3>2, <3>3
  <2> QED
    BY Zenon, <2>1, <2>2
<1>7. Shape(t)
  BY Zenon, <1>3, <1>6 DEF Shape
<1>8. Now(t) = op[1]
  <2>1. t # <<>> /\ Head(t) = t[1]
    BY <1>1, <1>3
  <2> QED
    BY Zenon, <1>3, <2>1 DEF Now
<1> QED
  BY Zenon, <1>0, <1>7, <1>8

\* The queries behind a listing.
LEMMA QueriesShape ==
  ASSUME NEW n \in Nat
  PROVE  /\ Shape([i \in 1 .. n |-> Query])
         /\ Now([i \in 1 .. n |-> Query]) \in {"query", "none"}
<1>1. PICK s : s = [i \in 1 .. n |-> Query]
  BY Zenon
<1>2. s \in Seq(Op) /\ Len(s) = n /\ \A i \in 1 .. n : s[i] = Query
  <2>1. s \in [1 .. n -> Op]
    BY Zenon, <1>1 DEF Op
  <2> QED
    BY <1>1, <2>1
<1>3. Shape(s)
  BY <1>2 DEF Shape, After, Taking, Query
<1>4. Now(s) \in {"query", "none"}
  <2>1. s # <<>> => n > 0 /\ Head(s) = s[1]
    BY <1>2, EmptySeq
  <2> QED
    BY <1>2, <2>1 DEF Now, Query
<1> QED
  BY Zenon, <1>1, <1>3, <1>4

LEMMA ListShape ==
  ASSUME NEW n \in Nat
  PROVE  Shape(List(n)) /\ Now(List(n)) = "open"
<1>1. PICK s : s = [i \in 1 .. n |-> Query]
  BY Zenon
<1>2. Shape(s) /\ Now(s) \in {"query", "none"}
  BY Zenon, <1>1, QueriesShape
<1>3. PICK t : t = <<<<"close">>>> \o s
  BY Zenon
<1>4. <<"close">> \in Op /\ <<"open">> \in Op
  BY DEF Op
<1>5. Shape(t) /\ Now(t) = "close"
  BY Zenon, <1>2, <1>3, <1>4, ConsShape DEF After, Taking
<1>6. Shape(<<<<"open">>>> \o t) /\ Now(<<<<"open">>>> \o t) = "open"
  BY Zenon, <1>4, <1>5, ConsShape DEF After
<1>7. List(n) = <<<<"open">>>> \o t
  <2>1. /\ <<<<"open">>>> \in Seq(Op) /\ <<<<"close">>>> \in Seq(Op)
        /\ s \in Seq(Op)
    BY <1>2, <1>4 DEF Shape
  <2>2. <<<<"open">>, <<"close">>>> = <<<<"open">>>> \o <<<<"close">>>>
    OBVIOUS
  <2> QED
    BY <1>1, <1>3, <2>1, <2>2, ConcatAssociative DEF List
<1> QED
  BY Zenon, <1>6, <1>7

LEMMA TxShape ==
  ASSUME NEW a \in Row, NEW b \in Row
  PROVE  Shape(WithTx(a, b)) /\ Now(WithTx(a, b)) = "begin"
<1>1. /\ WithTx(a, b) \in Seq(Op) /\ Len(WithTx(a, b)) = 4
      /\ WithTx(a, b) # <<>>
  BY DEF WithTx, Op
<1>2. /\ WithTx(a, b)[1][1] = "begin" /\ WithTx(a, b)[2][1] = "lock"
      /\ WithTx(a, b)[3][1] = "lock" /\ WithTx(a, b)[4][1] = "end"
  BY DEF WithTx, Begin, Lock, End
<1> QED
  BY <1>1, <1>2 DEF Shape, Now, After

LEMMA RequestShape ==
  ASSUME NEW s \in Requests
  PROVE  Shape(s) /\ Now(s) \in Taking
<1>1. CASE s \in {Get, Replay, Rejected}
  <2>1. Shape(Get) /\ Now(Get) = "query"
    BY DEF Get, Shape, Now, Query, Op
  <2>2. Shape(Rejected) /\ Now(Rejected) = "audit"
    BY DEF Rejected, Shape, Now, Audit, Op
  <2> QED
    BY Zenon, <1>1, <2>1, <2>2, ReplayShape DEF Taking
<1>2. CASE \E n \in 1 .. MaxList : s = List(n)
  BY <1>2, ListShape, PoolAssumption DEF Taking
<1>3. ASSUME NEW p \in Pairs, s \in {Posting(p[1], p[2]), Reversal(p[1], p[2])}
      PROVE  Shape(s) /\ Now(s) \in Taking
  <2>1. PICK w : w = WithTx(p[1], p[2])
    OBVIOUS
  <2>2. Shape(w) /\ Now(w) = "begin"
    BY Zenon, <2>1, TxShape DEF Pairs
  <2>3. Query \in Op /\ Query[1] = "query" /\ After("query") = Taking
    BY DEF Op, Query, After
  <2>4. ASSUME NEW t, Shape(t), Now(t) \in Taking
        PROVE  Shape(<<Query>> \o t) /\ Now(<<Query>> \o t) = "query"
    BY Zenon, <2>3, <2>4, ConsShape
  <2>5. PICK w1 : w1 = <<Query>> \o w
    BY Zenon
  <2>6. PICK w2 : w2 = <<Query>> \o w1
    BY Zenon
  <2>7. PICK w3 : w3 = <<Query>> \o w2
    BY Zenon
  <2>8. Shape(w1) /\ Now(w1) \in Taking
    BY Zenon, <2>2, <2>4, <2>5 DEF Taking
  <2>9. Shape(w2) /\ Now(w2) \in Taking
    BY Zenon, <2>8, <2>4, <2>6 DEF Taking
  <2>10. Shape(w3) /\ Now(w3) \in Taking
    BY Zenon, <2>9, <2>4, <2>7 DEF Taking
  <2>11. Posting(p[1], p[2]) = w1
    BY Zenon, <2>1, <2>5 DEF Posting
  <2>12. Reversal(p[1], p[2]) = w3
    <3>1. <<Query>> \in Seq(Op) /\ <<Query, Query>> \in Seq(Op) /\ w \in Seq(Op)
      BY <2>2, <2>3 DEF Shape
    <3>2. /\ <<Query, Query>> = <<Query>> \o <<Query>>
          /\ <<Query, Query, Query>> = <<Query>> \o <<Query, Query>>
      OBVIOUS
    <3>3. <<Query, Query>> \o w = w2
      BY <2>5, <2>6, <3>1, <3>2, ConcatAssociative
    <3>4. <<Query, Query, Query>> \o w = w3
      <4>1. PICK x, y : x = <<Query>> /\ y = <<Query, Query>>
        BY Zenon
      <4>2. (x \o y) \o w = x \o (y \o w)
        BY <3>1, <4>1, ConcatAssociative
      <4>3. <<Query, Query, Query>> = x \o y
        BY Zenon, <3>2, <4>1
      <4> QED
        BY <2>7, <3>3, <4>1, <4>2, <4>3, Zenon
    <3> QED
      BY Zenon, <2>1, <3>4 DEF Reversal
  <2> QED
    BY Zenon, <1>3, <2>8, <2>10, <2>11, <2>12
<1> QED
  BY Zenon, <1>1, <1>2, <1>3 DEF Requests

-----------------------------------------------------------------------------
(* The queue *)

LEMMA InRange ==
  ASSUME NEW S, NEW s \in Seq(S), NEW x
  PROVE  x \in Range(s) <=> \E i \in 1 .. Len(s) : s[i] = x
  BY DEF Range

\* A request that does not wait yet joins.
LEMMA JoinQueue ==
  ASSUME NEW q \in Seq(Slot), Distinct(q), NEW r \in Slot, r \notin Range(q)
  PROVE  /\ Append(q, r) \in Seq(Slot) /\ Distinct(Append(q, r))
         /\ \A p : p \in Range(Append(q, r)) => p \in Range(q) \/ p = r
<1>1. PICK n \in Nat : n = Len(q)
  BY Zenon, LenProperties
<1>2. PICK t : t = Append(q, r)
  BY Zenon
<1>3. /\ t \in Seq(Slot) /\ Len(t) = n + 1 /\ t[n + 1] = r
      /\ \A i \in 1 .. n : t[i] = q[i]
  BY <1>1, <1>2, AppendProperties
<1>4. \A i \in 1 .. n : q[i] # r
  BY Zenon, <1>1, InRange
<1>5. Distinct(t)
  BY <1>1, <1>3, <1>4 DEF Distinct
<1>6. \A p : p \in Range(t) => p \in Range(q) \/ p = r
  BY <1>1, <1>3, InRange
<1> QED
  BY Zenon, <1>2, <1>3, <1>5, <1>6

\* What leaving the queue, at its head or elsewhere, does to it.
Left(q, t, r) ==
    /\ t \in Seq(Slot) /\ Distinct(t) /\ r \notin Range(t)
    /\ \A p : p \in Range(t) => p \in Range(q)

LEMMA HeadLeaves ==
  ASSUME NEW q \in Seq(Slot), Distinct(q), q # <<>>
  PROVE  Left(q, Tail(q), Head(q))
<1>1. PICK t : t = Tail(q)
  BY Zenon
<1>2. PICK n \in Nat : n = Len(t)
  BY Zenon, <1>1, HeadTailProperties, LenProperties
<1>3. /\ t \in Seq(Slot) /\ Len(q) = n + 1 /\ Head(q) = q[1]
      /\ \A i \in 1 .. n : t[i] = q[i + 1]
  <2>1. Len(q) \in Nat
    BY Zenon, LenProperties
  <2> QED
    BY <1>1, <1>2, <2>1, HeadTailProperties
<1>4. \A i \in 1 .. n : i + 1 \in 1 .. Len(q) /\ 1 \in 1 .. Len(q) /\ i + 1 # 1
  BY <1>2, <1>3
<1>5. Distinct(t)
  <2> SUFFICES ASSUME NEW i \in 1 .. n, NEW j \in 1 .. n, t[i] = t[j]
               PROVE  i = j
    BY Zenon, <1>2 DEF Distinct
  <2>1. q[i + 1] = q[j + 1]
    BY Zenon, <1>3
  <2>2. i + 1 = j + 1
    BY Zenon, <1>4, <2>1 DEF Distinct
  <2> QED
    BY <2>2
<1>6. Head(q) \notin Range(t)
  <2>1. \A i \in 1 .. n : t[i] # q[1]
    BY Zenon, <1>3, <1>4 DEF Distinct
  <2> QED
    BY <1>2, <1>3, <2>1, InRange
<1>7. ASSUME NEW p \in Range(t) PROVE p \in Range(q)
  <2>1. PICK i \in 1 .. n : t[i] = p
    BY <1>2, <1>3, InRange
  <2>2. i + 1 \in 1 .. Len(q) /\ q[i + 1] = p
    BY Zenon, <1>3, <1>4, <2>1
  <2> QED
    BY Zenon, <2>2, InRange
<1> QED
  BY Zenon, <1>1, <1>3, <1>5, <1>6, <1>7 DEF Left

LEMMA WaiterLeaves ==
  ASSUME NEW q \in Seq(Slot), Distinct(q), NEW k \in 1 .. Len(q)
  PROVE  Left(q, SubSeq(q, 1, k - 1) \o SubSeq(q, k + 1, Len(q)), q[k])
<1>1. PICK n \in Nat : n = Len(q)
  BY Zenon, LenProperties
<1>2. PICK t, u, v : /\ u = SubSeq(q, 1, k - 1) /\ v = SubSeq(q, k + 1, n)
                     /\ t = u \o v
  BY Zenon
<1>3. /\ k \in 1 .. n /\ k - 1 \in Nat /\ k + 1 \in Nat /\ n - k \in Nat
  BY <1>1
<1>4. /\ u \in Seq(Slot) /\ Len(u) = k - 1
      /\ \A i \in 1 .. k - 1 : u[i] = q[i]
  <2>1. \A i \in 1 .. k - 1 : q[i] \in Slot
    BY <1>1, <1>3
  <2>2. /\ u \in Seq(Slot)
        /\ Len(u) = IF 1 <= k - 1 THEN (k - 1) - 1 + 1 ELSE 0
        /\ \A i \in 1 .. (k - 1) - 1 + 1 : u[i] = q[1 + i - 1]
    BY <1>2, <1>3, <2>1, SubSeqProperties
  <2> QED
    BY <1>3, <2>2
<1>5. /\ v \in Seq(Slot) /\ Len(v) = n - k
      /\ \A i \in 1 .. n - k : v[i] = q[k + i]
  <2>1. \A i \in k + 1 .. n : q[i] \in Slot
    BY <1>1, <1>3
  <2>2. /\ v \in Seq(Slot)
        /\ Len(v) = IF k + 1 <= n THEN n - (k + 1) + 1 ELSE 0
        /\ \A i \in 1 .. n - (k + 1) + 1 : v[i] = q[(k + 1) + i - 1]
    BY SMTT(30), <1>2, <1>3, <2>1, SubSeqProperties
  <2>3. /\ (IF k + 1 <= n THEN n - (k + 1) + 1 ELSE 0) = n - k
        /\ n - (k + 1) + 1 = n - k
        /\ \A i \in 1 .. n - k : (k + 1) + i - 1 = k + i
    BY <1>3
  <2> QED
    BY Zenon, <2>2, <2>3
<1>6. t = SubSeq(q, 1, k - 1) \o SubSeq(q, k + 1, Len(q))
  BY Zenon, <1>1, <1>2
<1>7. /\ t \in Seq(Slot) /\ Len(t) = n - 1
      /\ \A i \in 1 .. n - 1 : t[i] = q[IF i < k THEN i ELSE i + 1]
  <2>1. /\ t \in Seq(Slot) /\ Len(t) = (k - 1) + (n - k)
        /\ \A i \in 1 .. (k - 1) + (n - k) :
              t[i] = IF i <= k - 1 THEN u[i] ELSE v[i - (k - 1)]
    <3>1. u \in Seq(Slot) /\ v \in Seq(Slot)
      BY Zenon, <1>4, <1>5
    <3>2. /\ u \o v \in Seq(Slot) /\ Len(u \o v) = Len(u) + Len(v)
          /\ \A i \in 1 .. Len(u) + Len(v) :
                (u \o v)[i] = IF i <= Len(u) THEN u[i] ELSE v[i - Len(u)]
      BY Zenon, <3>1, ConcatProperties
    <3>3. t = u \o v
      BY Zenon, <1>2
    <3> QED
      BY Zenon, <1>4, <1>5, <3>2, <3>3
  <2>2. ASSUME NEW i \in 1 .. n - 1
        PROVE  t[i] = q[IF i < k THEN i ELSE i + 1]
    <3>1. CASE i < k
      <4>1. i \in 1 .. (k - 1) + (n - k) /\ i \in 1 .. k - 1 /\ i <= k - 1
        BY <1>3, <3>1
      <4>2. t[i] = u[i] /\ u[i] = q[i]
        BY Zenon, <1>4, <2>1, <4>1
      <4> QED
        BY Zenon, <3>1, <4>2
    <3>2. CASE ~(i < k)
      <4>1. i - (k - 1) \in 1 .. n - k /\ k + (i - (k - 1)) = i + 1
        BY <1>3, <3>2
      <4>2. t[i] = v[i - (k - 1)]
        BY <1>3, <2>1, <3>2
      <4> QED
        BY Zenon, <1>5, <3>2, <4>1, <4>2
    <3> QED
      BY Zenon, <3>1, <3>2
  <2>3. (k - 1) + (n - k) = n - 1
    BY <1>3
  <2> QED
    BY Zenon, <2>1, <2>2, <2>3
<1> DEFINE Pos(i) == IF i < k THEN i ELSE i + 1
<1>8. ASSUME NEW i \in 1 .. n - 1
      PROVE  Pos(i) \in 1 .. n /\ Pos(i) # k /\ t[i] = q[Pos(i)]
  <2>1. Pos(i) \in 1 .. n /\ Pos(i) # k
    BY <1>3
  <2> QED
    BY Zenon, <1>7, <2>1
<1>9. \A i, j \in 1 .. n - 1 : Pos(i) = Pos(j) => i = j
  BY <1>3
<1> HIDE DEF Pos
<1>10. Distinct(t)
  <2>1. ASSUME NEW i \in 1 .. n - 1, NEW j \in 1 .. n - 1, t[i] = t[j]
        PROVE  i = j
    <3>1. /\ Pos(i) \in 1 .. n /\ t[i] = q[Pos(i)]
          /\ Pos(j) \in 1 .. n /\ t[j] = q[Pos(j)]
      BY Zenon, <1>8
    <3>2. Pos(i) = Pos(j)
      BY Zenon, <1>1, <2>1, <3>1 DEF Distinct
    <3> QED
      BY Zenon, <1>9, <3>2
  <2> QED
    BY Zenon, <1>7, <2>1 DEF Distinct
<1>11. q[k] \notin Range(t)
  <2>1. ASSUME NEW i \in 1 .. n - 1
        PROVE  t[i] # q[k]
    <3>1. Pos(i) \in 1 .. n /\ Pos(i) # k /\ t[i] = q[Pos(i)]
      BY Zenon, <1>8
    <3> QED
      BY Zenon, <1>1, <3>1 DEF Distinct
  <2>2. \A i \in 1 .. Len(t) : t[i] # q[k]
    BY Zenon, <1>7, <2>1
  <2> QED
    BY <1>7, <2>2, InRange
<1>12. \A p : p \in Range(t) => p \in Range(q)
  BY <1>1, <1>7, <1>8, InRange
<1> QED
  BY Zenon, <1>6, <1>7, <1>10, <1>11, <1>12 DEF Left

-----------------------------------------------------------------------------
(* The steps of the pool *)

\* A step of r whose list of operations becomes s.
LEMMA SlotStep ==
  ASSUME PoolInv, NEW r \in Slot, NEW s, Shape(s),
         todo' = [todo EXCEPT ![r] = s],
         held' = [held EXCEPT ![r] = IF Now(s) \in Holding THEN 1 ELSE 0],
         queue' \in Seq(Slot), Distinct(queue'),
         \A p \in Slot \ {r} : p \in Range(queue') => p \in Range(queue),
         r \in Range(queue') => Now(s) \in Taking,
         lock' \in [Row -> SUBSET (Slot \cup {"outside"})],
         \A a \in Row : \A p \in Slot \ {r} : p \in lock'[a] => p \in lock[a],
         \A a \in Row : r \in lock'[a] => Now(s) \in {"lock", "end"}
  PROVE  PoolInv'
<1>1. /\ todo \in [Slot -> Seq(Op)] /\ held \in [Slot -> Nat]
      /\ \A p \in Slot : SlotOK(p)
  BY DEF PoolInv
<1>2. todo' \in [Slot -> Seq(Op)] /\ held' \in [Slot -> Nat]
  BY Zenon, <1>1 DEF Shape
<1>3. SlotOK(r)'
  <2>1. todo'[r] = s /\ held'[r] = IF Now(s) \in Holding THEN 1 ELSE 0
    BY Zenon, <1>1
  <2> QED
    BY Zenon, <2>1 DEF SlotOK, Waiting
<1>4. ASSUME NEW p \in Slot \ {r} PROVE SlotOK(p)'
  <2>1. todo'[p] = todo[p] /\ held'[p] = held[p] /\ SlotOK(p)
    BY Zenon, <1>1
  <2> QED
    BY Zenon, <2>1 DEF SlotOK, Waiting
<1> QED
  BY Zenon, <1>2, <1>3, <1>4 DEF PoolInv

\* What PoolInv says of one slot.
LEMMA SlotFacts ==
  ASSUME PoolInv, NEW r \in Slot
  PROVE  /\ Shape(todo[r])
         /\ held[r] = IF Now(todo[r]) \in Holding THEN 1 ELSE 0
         /\ \A a \in Row : r \in lock[a] => Now(todo[r]) \in {"lock", "end"}
         /\ r \in Range(queue) => Now(todo[r]) \in Taking
         /\ Idle(r) <=> Now(todo[r]) = "none"
         /\ \A op \in Taking \cup Holding : At(r, op) <=> Now(todo[r]) = op
         /\ TakesConn(r) <=> Now(todo[r]) \in Taking
<1>1. SlotOK(r)
  BY DEF PoolInv
<1>2. Idle(r) <=> Now(todo[r]) = "none"
  BY Zenon, <1>1, NowKind DEF SlotOK, Idle
<1>3. \A op \in Taking \cup Holding : At(r, op) <=> Now(todo[r]) = op
  BY Zenon, <1>2 DEF At, Idle, Now, Taking, Holding
<1>4. TakesConn(r) <=> Now(todo[r]) \in Taking
  BY Zenon, <1>3 DEF TakesConn, Taking
<1> QED
  BY Zenon, <1>1, <1>2, <1>3, <1>4 DEF SlotOK, Waiting

LEMMA ReleasedRows ==
  ASSUME PoolInv, NEW r
  PROVE  /\ Released(r) \in [Row -> SUBSET (Slot \cup {"outside"})]
         /\ \A a \in Row : r \notin Released(r)[a]
         /\ \A a \in Row : \A p : p \in Released(r)[a] => p \in lock[a]
  BY DEF PoolInv, Released

LEMMA ArriveStep ==
  ASSUME PoolInv, NEW r \in Slot, Arrive(r)
  PROVE  PoolInv'
<1>1. PICK s \in Requests : todo' = [todo EXCEPT ![r] = s]
  BY Zenon DEF Arrive
<1>2. Shape(s) /\ Now(s) \in Taking
  BY Zenon, RequestShape
<1>3. Now(todo[r]) = "none" /\ UNCHANGED <<queue, held, lock>>
  BY Zenon, SlotFacts DEF Arrive
<1>4. /\ held[r] = 0 /\ r \notin Range(queue) /\ \A a \in Row : r \notin lock[a]
  BY Zenon, <1>3, SlotFacts DEF Taking, Holding
<1>5. Now(s) \notin Holding /\ held \in [Slot -> Nat]
  BY Zenon, <1>2 DEF Taking, Holding, PoolInv
<1>6. held' = [held EXCEPT ![r] = IF Now(s) \in Holding THEN 1 ELSE 0]
  BY Zenon, <1>3, <1>4, <1>5
<1> QED
  BY Zenon, <1>1, <1>2, <1>3, <1>4, <1>6, SlotStep DEF PoolInv

LEMMA EnqueueStep ==
  ASSUME PoolInv, NEW r \in Slot, Enqueue(r)
  PROVE  PoolInv'
<1>1. /\ queue' \in Seq(Slot) /\ Distinct(queue')
      /\ \A p : p \in Range(queue') => p \in Range(queue) \/ p = r
  BY Zenon, JoinQueue DEF PoolInv, Enqueue, Waiting
<1>2. ASSUME NEW p \in Slot PROVE SlotOK(p)'
  <2>1. SlotOK(p) /\ (p = r => Now(todo[r]) \in Taking)
    BY Zenon, SlotFacts DEF PoolInv, Enqueue
  <2> QED
    BY Zenon, <1>1, <2>1 DEF SlotOK, Enqueue, Waiting
<1> QED
  BY Zenon, <1>1, <1>2 DEF PoolInv, Enqueue

\* The waiter at the head of the queue leaves it.
LEMMA FirstLeaves ==
  ASSUME PoolInv, NEW r \in Slot, Waiting(r), Head(queue) = r,
         queue' = Tail(queue)
  PROVE  Left(queue, queue', r)
<1>1. queue # <<>>
  BY DEF Waiting, Range
<1> QED
  BY Zenon, <1>1, HeadLeaves DEF PoolInv

LEMMA GrantStep ==
  ASSUME PoolInv, NEW r \in Slot, Grant(r)
  PROVE  PoolInv'
<1>2. Left(queue, queue', r)
  BY Zenon, FirstLeaves DEF Grant
<1>3. /\ Shape(todo[r]) /\ Now(todo[r]) \in Taking
      /\ held[r] = 0 /\ todo[r] # <<>>
      /\ \A a \in Row : r \notin lock[a]
  BY Zenon, SlotFacts, NowKind DEF Grant, Waiting, Taking, Holding
<1>4. PICK s : s = Tail(todo[r])
  BY Zenon
<1>5. /\ Shape(s) /\ Now(s) \in After(Now(todo[r])) \cup {"none"}
      /\ Now(todo[r]) \in {"open", "begin"} => Now(s) \in After(Now(todo[r]))
  BY Zenon, <1>3, <1>4, TailShape
<1>6. Now(s) \in Holding <=> At(r, "open") \/ At(r, "begin")
  BY Zenon, <1>3, <1>5, SlotFacts DEF After, Taking, Holding
<1>7. held \in [Slot -> Nat] /\ todo \in [Slot -> Seq(Op)]
  BY DEF PoolInv
<1>8. held' = [held EXCEPT ![r] = IF Now(s) \in Holding THEN 1 ELSE 0]
  <2>1. CASE Now(s) \in Holding
    <3>1. held' = [held EXCEPT ![r] = @ + 1]
      BY Zenon, <1>6, <2>1 DEF Grant
    <3> QED
      BY <1>3, <1>7, <2>1, <3>1
  <2>2. CASE Now(s) \notin Holding
    <3>1. held' = [held EXCEPT ![r] = @]
      BY Zenon, <1>6, <2>2 DEF Grant
    <3> QED
      BY Zenon, <1>3, <1>7, <2>2, <3>1
  <2> QED
    BY Zenon, <2>1, <2>2
<1>9. todo' = [todo EXCEPT ![r] = s] /\ lock' = lock
  BY Zenon, <1>4 DEF Grant
<1> QED
  BY Zenon, <1>2, <1>3, <1>5, <1>8, <1>9, SlotStep DEF Left, PoolInv

LEMMA CloseRowsStep ==
  ASSUME PoolInv, NEW r \in Slot, CloseRows(r)
  PROVE  PoolInv'
<1>1. Now(todo[r]) = "close"
  BY Zenon, SlotFacts DEF CloseRows, Holding
<1>2. /\ Shape(todo[r]) /\ held[r] = 1 /\ todo[r] # <<>>
      /\ \A a \in Row : r \notin lock[a]
      /\ r \notin Range(queue)
  BY Zenon, <1>1, SlotFacts, NowKind DEF Taking, Holding
<1>3. PICK s : s = Tail(todo[r])
  BY Zenon
<1>4. Shape(s) /\ Now(s) \in Taking \cup {"none"}
  BY Zenon, <1>1, <1>2, <1>3, TailShape DEF After
<1>5. held \in [Slot -> Nat] /\ Now(s) \notin Holding
  BY Zenon, <1>4 DEF PoolInv, Taking, Holding
<1>6. held' = [held EXCEPT ![r] = IF Now(s) \in Holding THEN 1 ELSE 0]
  BY <1>2, <1>5 DEF CloseRows
<1>7. todo' = [todo EXCEPT ![r] = s] /\ UNCHANGED <<queue, lock>>
  BY Zenon, <1>3 DEF CloseRows
<1> QED
  BY Zenon, <1>2, <1>4, <1>6, <1>7, SlotStep DEF PoolInv

LEMMA LockRowStep ==
  ASSUME PoolInv, NEW r \in Slot, LockRow(r)
  PROVE  PoolInv'
<1>1. Now(todo[r]) = "lock"
  BY Zenon, SlotFacts DEF LockRow, Holding
<1>2. /\ Shape(todo[r]) /\ held[r] = 1 /\ todo[r] # <<>>
      /\ r \notin Range(queue)
  BY Zenon, <1>1, SlotFacts, NowKind DEF Taking, Holding
<1>3. PICK s : s = Tail(todo[r])
  BY Zenon
<1>4. Shape(s) /\ Now(s) \in {"lock", "end"}
  BY Zenon, <1>1, <1>2, <1>3, TailShape DEF After
<1>5. held \in [Slot -> Nat] /\ Now(s) \in Holding
  BY Zenon, <1>4 DEF PoolInv, Holding
<1>6. held' = [held EXCEPT ![r] = IF Now(s) \in Holding THEN 1 ELSE 0]
  BY Zenon, <1>2, <1>5 DEF LockRow
<1>7. todo' = [todo EXCEPT ![r] = s] /\ UNCHANGED queue
  BY Zenon, <1>3 DEF LockRow
<1>8. PICK b : lock' = [lock EXCEPT ![b] = {r}]
  BY Zenon DEF LockRow
<1>9. /\ lock' \in [Row -> SUBSET (Slot \cup {"outside"})]
      /\ \A a \in Row : \A p \in Slot \ {r} : p \in lock'[a] => p \in lock[a]
  BY Zenon, <1>8 DEF PoolInv
<1> QED
  BY Zenon, <1>2, <1>4, <1>6, <1>7, <1>9, SlotStep DEF PoolInv

LEMMA EndTxStep ==
  ASSUME PoolInv, NEW r \in Slot, EndTx(r)
  PROVE  PoolInv'
<1>1. Now(todo[r]) = "end"
  BY Zenon, SlotFacts DEF EndTx, Holding
<1>2. held[r] = 1 /\ r \notin Range(queue)
  BY Zenon, <1>1, SlotFacts DEF Taking, Holding
<1>3. PICK s \in {<<Audit>>, <<Refetch, Refetch>>} :
         todo' = [todo EXCEPT ![r] = s]
  BY Zenon DEF EndTx
<1>4. Shape(s) /\ Now(s) \in {"audit", "refetch"}
  <2>1. Shape(<<Audit>>) /\ Now(<<Audit>>) = "audit"
    BY DEF Shape, Now, Audit, Op
  <2> QED
    BY Zenon, <2>1, RefetchShape
<1>5. held \in [Slot -> Nat] /\ Now(s) \notin Holding
  BY Zenon, <1>4 DEF PoolInv, Holding
<1>6. held' = [held EXCEPT ![r] = IF Now(s) \in Holding THEN 1 ELSE 0]
  BY <1>2, <1>5 DEF EndTx
<1>7. lock' = Released(r) /\ UNCHANGED queue
  BY DEF EndTx
<1>8. /\ lock' \in [Row -> SUBSET (Slot \cup {"outside"})]
      /\ \A a \in Row : r \notin lock'[a]
      /\ \A a \in Row : \A p \in Slot \ {r} : p \in lock'[a] => p \in lock[a]
  BY Zenon, <1>7, ReleasedRows
<1>9. queue' \in Seq(Slot) /\ Distinct(queue') /\ queue' = queue
  BY Zenon, <1>7 DEF PoolInv
<1> QED
  BY Zenon, <1>2, <1>3, <1>4, <1>6, <1>8, <1>9, SlotStep

LEMMA AbortStep ==
  ASSUME PoolInv, NEW r \in Slot, Abort(r)
  PROVE  PoolInv'
<1>1. Now(todo[r]) \in Holding
  BY SlotFacts DEF Abort
<1>2. r \notin Range(queue)
  BY Zenon, <1>1, SlotFacts DEF Taking, Holding
<1>3. PICK s : s = AfterError(todo[r])
  OBVIOUS
<1>4. Shape(s) /\ Now(s) \in {"audit", "none"}
  BY Zenon, <1>3, ErrorShape
<1>5. todo' = [todo EXCEPT ![r] = s] /\ lock' = Released(r) /\ UNCHANGED queue
  BY Zenon, <1>3 DEF Abort
<1>6. held' = [held EXCEPT ![r] = IF Now(s) \in Holding THEN 1 ELSE 0]
  BY Zenon, <1>4 DEF Abort, Holding
<1>7. /\ lock' \in [Row -> SUBSET (Slot \cup {"outside"})]
      /\ \A a \in Row : r \notin lock'[a]
      /\ \A a \in Row : \A p \in Slot \ {r} : p \in lock'[a] => p \in lock[a]
  BY Zenon, <1>5, ReleasedRows
<1>8. queue' \in Seq(Slot) /\ Distinct(queue') /\ queue' = queue
  BY Zenon, <1>5 DEF PoolInv
<1> QED
  BY Zenon, <1>2, <1>4, <1>5, <1>6, <1>7, <1>8, SlotStep

\* A request that wants a connection is turned away.
LEMMA TurnedAway ==
  ASSUME PoolInv, NEW r \in Slot, Waiting(r), Left(queue, queue', r),
         todo' = [todo EXCEPT ![r] = AfterError(@)], UNCHANGED <<held, lock>>
  PROVE  PoolInv'
<1>1. held[r] = 0 /\ \A a \in Row : r \notin lock[a]
  BY Zenon, SlotFacts DEF Waiting, Taking, Holding
<1>2. PICK s : s = AfterError(todo[r])
  OBVIOUS
<1>3. Shape(s) /\ Now(s) \in {"audit", "none"}
  BY Zenon, <1>2, ErrorShape
<1>4. held \in [Slot -> Nat] /\ Now(s) \notin Holding
  BY Zenon, <1>3 DEF PoolInv, Holding
<1>5. held' = [held EXCEPT ![r] = IF Now(s) \in Holding THEN 1 ELSE 0]
  BY Zenon, <1>1, <1>4
<1>7. todo' = [todo EXCEPT ![r] = s]
  BY Zenon, <1>2
<1> QED
  BY Zenon, <1>1, <1>3, <1>5, <1>7, SlotStep DEF PoolInv, Left

LEMMA GiveUpStep ==
  ASSUME PoolInv, NEW r \in Slot, GiveUp(r)
  PROVE  PoolInv'
<1>1. queue \in Seq(Slot) /\ Distinct(queue)
  BY DEF PoolInv
<1>2. PICK i \in DOMAIN queue :
          /\ queue[i] = r
          /\ queue' = SubSeq(queue, 1, i - 1) \o SubSeq(queue, i + 1, Len(queue))
  BY Zenon DEF GiveUp, LeaveQueue
<1>3. i \in 1 .. Len(queue)
  BY Zenon, <1>1, LenProperties
<1>4. Left(queue, queue', r)
  BY Zenon, <1>1, <1>2, <1>3, WaiterLeaves
<1>5. Waiting(r)
  BY Zenon, <1>1, <1>2, <1>3, InRange DEF Waiting
<1> QED
  BY Zenon, <1>4, <1>5, TurnedAway DEF GiveUp

LEMMA StepInv ==
  ASSUME PoolInv, NEW r \in Slot, Step(r)
  PROVE  PoolInv'
  BY Zenon, EnqueueStep, GrantStep, CloseRowsStep, LockRowStep, EndTxStep
     DEF Step

LEMMA PoolInitInv == PoolInit => PoolInv
<1> SUFFICES ASSUME PoolInit PROVE PoolInv
  OBVIOUS
<1>1. /\ todo \in [Slot -> Seq(Op)] /\ held \in [Slot -> Nat]
      /\ queue \in Seq(Slot) /\ Distinct(queue)
      /\ lock \in [Row -> SUBSET (Slot \cup {"outside"})]
  BY DEF PoolInit, Distinct
<1>2. ASSUME NEW r \in Slot PROVE SlotOK(r)
  <2>1. todo[r] = <<>> /\ held[r] = 0 /\ r \notin Range(queue)
    BY DEF PoolInit, Range
  <2>2. \A a \in Row : r \notin lock[a]
    BY Zenon, PoolAssumption DEF PoolInit
  <2>3. Shape(<<>>) /\ Now(<<>>) = "none"
    BY DEF Shape, Now
  <2> QED
    BY Zenon, <2>1, <2>2, <2>3 DEF SlotOK, Waiting, Holding
<1> QED
  BY Zenon, <1>1, <1>2 DEF PoolInv

LEMMA PoolStutter == PoolInv /\ UNCHANGED poolVars => PoolInv'
<1> SUFFICES ASSUME PoolInv, UNCHANGED poolVars PROVE PoolInv'
  OBVIOUS
<1>1. ASSUME NEW r \in Slot PROVE SlotOK(r)'
  <2>1. SlotOK(r)
    BY DEF PoolInv
  <2> QED
    BY Zenon, <2>1 DEF SlotOK, Waiting, poolVars
<1> QED
  BY Zenon, <1>1 DEF PoolInv, poolVars

LEMMA PoolNextInv == PoolInv /\ [PoolNext]_poolVars => PoolInv'
  BY Zenon, PoolStutter, ArriveStep, StepInv, AbortStep, GiveUpStep DEF PoolNext

LEMMA NoHolder == PoolInv => NoHoldAndWait
<1> SUFFICES ASSUME PoolInv, NEW r \in Slot, r \in Range(queue)
             PROVE  held[r] = 0 /\ \A a \in Row : r \notin lock[a]
  BY DEF NoHoldAndWait, Waiting
<1> QED
  BY Zenon, SlotFacts DEF Taking, Holding

-----------------------------------------------------------------------------
(* The pool *)

\* Whatever the requests, however few the connections: a request waiting for
\* one holds neither another connection nor a row lock, so that nobody waits
\* for it (List closes its rows, Lookup and the audit are outside WithTx).
THEOREM WaitersHoldNothing == PoolSpec => []NoHoldAndWait
<1>1. PoolInit => PoolInv
  BY Zenon, PoolInitInv
<1>2. PoolInv /\ [PoolNext]_poolVars => PoolInv'
  BY Zenon, PoolNextInv
<1>3. PoolInv => NoHoldAndWait
  BY Zenon, NoHolder
<1> QED
  BY <1>1, <1>2, <1>3, PTL DEF PoolSpec

-----------------------------------------------------------------------------
(* The server *)

LEMMA EndsInv ==
  ASSUME PoolInv, ProcessEnds
  PROVE  PoolInv'
<1>1. /\ todo' = [r \in Slot |-> <<>>] /\ queue' = <<>>
      /\ held' = [r \in Slot |-> 0] /\ lock' = [a \in Row |-> lock[a] \ Slot]
  BY DEF ProcessEnds
<1>2. /\ todo' \in [Slot -> Seq(Op)] /\ held' \in [Slot -> Nat]
      /\ queue' \in Seq(Slot) /\ Distinct(queue')
      /\ lock' \in [Row -> SUBSET (Slot \cup {"outside"})]
  BY <1>1 DEF PoolInv, Distinct
<1>3. ASSUME NEW r \in Slot PROVE SlotOK(r)'
  <2>1. /\ todo'[r] = <<>> /\ held'[r] = 0 /\ r \notin Range(queue')
        /\ \A a \in Row : r \notin lock'[a]
    BY <1>1 DEF Range
  <2>2. Shape(<<>>) /\ Now(<<>>) = "none"
    BY DEF Shape, Now
  <2> QED
    BY Zenon, <2>1, <2>2 DEF SlotOK, Waiting, Holding
<1> QED
  BY Zenon, <1>2, <1>3 DEF PoolInv

\* main, before and after serving.
LEMMA MainStep ==
  ASSUME ServerInv,
         \/ Start \/ SetDirty \/ RunMigration \/ SetClean \/ MigrationsApplied
         \/ Connect \/ Signal \/ ShutdownReturns
  PROVE  ServerInv'
<1>1. PoolInv /\ UNCHANGED poolVars
  BY Zenon
     DEF ServerInv, Start, SetDirty, RunMigration, SetClean, MigrationsApplied,
         Connect, Signal, ShutdownReturns, Goto
<1>2. PoolInv'
  BY Zenon, <1>1, PoolStutter
<1>3. ProcInv
  BY DEF ServerInv
<1>4. todo' = todo
  BY Zenon, <1>1 DEF poolVars
<1> SUFFICES ProcInv'
  BY Zenon, <1>2 DEF ServerInv
<1> USE ServerAssumption DEF Phase, Running
<1>5. CASE Start
  BY Zenon, <1>3, <1>4, <1>5 DEF ProcInv, Start, Goto
<1>6. CASE SetDirty \/ RunMigration \/ SetClean
  BY <1>3, <1>4, <1>6 DEF ProcInv, SetDirty, RunMigration, SetClean
<1>7. CASE MigrationsApplied \/ Connect \/ Signal
  BY <1>3, <1>4, <1>7 DEF ProcInv, MigrationsApplied, Connect, Signal, Goto
<1>8. CASE ShutdownReturns
  BY Zenon, <1>3, <1>4, <1>8 DEF ProcInv, ShutdownReturns, Goto, Idle
<1> QED
  BY Zenon, <1>5, <1>6, <1>7, <1>8

LEMMA StopStep ==
  ASSUME ServerInv, Exit \/ Kill
  PROVE  ServerInv'
<1>1. PoolInv'
  BY Zenon, EndsInv DEF ServerInv, Exit, Kill
<1>2. ProcInv
  BY DEF ServerInv
<1>3. lost' => late
  BY Zenon, <1>2 DEF Exit, Kill, ProcInv, Idle
<1>4. kills' \in Nat
  BY <1>2 DEF Exit, Kill, ProcInv
<1>5. proc' = "down" /\ UNCHANGED <<version, dirty, schema, late>>
  BY DEF Exit, Kill, ProcessEnds
<1>6. ProcInv'
  BY Zenon, <1>2, <1>3, <1>4, <1>5 DEF ProcInv, Phase, Running
<1> QED
  BY Zenon, <1>1, <1>6 DEF ServerInv

\* An idle slot does nothing but arrive.
LEMMA IdleStays ==
  ASSUME PoolInv, NEW r \in Slot,
         \/ Step(r) \/ Abort(r) \/ GiveUp(r) \/ TakesConn(r)
  PROVE  todo[r] # <<>>
<1>1. todo[r] = <<>> => held[r] = 0 /\ ~Waiting(r) /\ ~TakesConn(r)
  BY Zenon, SlotFacts DEF Idle, Waiting, Taking, Holding
<1>2. todo[r] = <<>> => ~At(r, "close") /\ ~At(r, "lock") /\ ~At(r, "end")
  BY SMTT(30) DEF At, Idle
<1>3. GiveUp(r) => Waiting(r)
  BY DEF GiveUp, LeaveQueue, Waiting, Range
<1> QED
  BY <1>1, <1>2, <1>3
     DEF Step, Enqueue, Grant, CloseRows, LockRow, EndTx, Abort

LEMMA HandlerStep ==
  ASSUME ServerInv, NEW r \in Slot,
         Accept(r) \/ Handle(r) \/ Failure(r) \/ ClosedPool(r)
  PROVE  ServerInv'
<1>1. PoolInv /\ ProcInv
  BY DEF ServerInv
<1>2. CASE Accept(r)
  <2>1. PoolInv'
    BY Zenon, <1>1, <1>2, ArriveStep DEF Accept
  <2>2. ProcInv'
    BY Zenon, <1>1, <1>2 DEF Accept, ProcInv, procVars
  <2> QED
    BY Zenon, <2>1, <2>2 DEF ServerInv
<1>3. CASE Handle(r) \/ Failure(r)
  <2>1. (Step(r) \/ Abort(r) \/ GiveUp(r)) /\ UNCHANGED procVars
    BY Zenon, <1>3 DEF Handle, Failure, Step
  <2>2. PoolInv' /\ todo[r] # <<>>
    BY SMTT(20), <1>1, <2>1, StepInv, AbortStep, GiveUpStep, IdleStays
  <2>3. ProcInv'
    BY SMTT(20), <1>1, <2>1, <2>2 DEF ProcInv, procVars
  <2> QED
    BY Zenon, <2>2, <2>3 DEF ServerInv
<1>4. CASE ClosedPool(r)
  <2>1. PoolInv' /\ todo[r] # <<>>
    <3>1. Left(queue, queue', r)
      BY Zenon, <1>1, <1>4, FirstLeaves DEF ClosedPool
    <3>2. TakesConn(r)
      BY Zenon, <1>1, <1>4, SlotFacts DEF ClosedPool, Waiting
    <3> QED
      BY Zenon, <1>1, <1>4, <3>1, <3>2, TurnedAway, IdleStays DEF ClosedPool
  <2>2. late
    BY Zenon, <1>1, <1>4, <2>1 DEF ProcInv, ClosedPool
  <2>3. ProcInv'
    BY Zenon, <1>1, <1>4, <2>2 DEF ProcInv, ClosedPool
  <2> QED
    BY Zenon, <2>1, <2>3 DEF ServerInv
<1> QED
  BY Zenon, <1>2, <1>3, <1>4

LEMMA InitServerInv == Init => ServerInv
<1> SUFFICES ASSUME Init PROVE ServerInv
  OBVIOUS
<1>1. PoolInv
  BY Zenon, PoolInitInv DEF Init
<1>2. ProcInv
  BY ServerAssumption DEF Init, ProcInv, Phase, Running
<1> QED
  BY Zenon, <1>1, <1>2 DEF ServerInv

LEMMA NextServerInv == ServerInv /\ [Next]_vars => ServerInv'
<1> SUFFICES ASSUME ServerInv, [Next]_vars PROVE ServerInv'
  OBVIOUS
<1>1. CASE UNCHANGED vars
  <2>1. PoolInv' /\ todo' = todo
    BY Zenon, <1>1, PoolStutter DEF vars, ServerInv, poolVars
  <2> QED
    BY Zenon, <1>1, <2>1 DEF ServerInv, ProcInv, vars, procVars
<1> QED
  BY Zenon, <1>1, MainStep, StopStep, HandlerStep DEF Next

\* ServerInv holds throughout, in every process that is started on the database.
THEOREM ServerInductive == Spec => []ServerInv
<1>1. Init => ServerInv
  BY Zenon, InitServerInv
<1>2. ServerInv /\ [Next]_vars => ServerInv'
  BY Zenon, NextServerInv
<1> QED
  BY <1>1, <1>2, PTL DEF Spec

\* The pool under a server that starts, stops and is killed is as safe.
THEOREM ServerWaitersHoldNothing == Spec => []NoHoldAndWait
<1>1. ServerInv => NoHoldAndWait
  BY Zenon, NoHolder DEF ServerInv
<1> QED
  BY <1>1, ServerInductive, PTL

\* m.Up stops at a dirty version: no request is served on a schema that an
\* interrupted migration left incomplete, however often that happened.
THEOREM CompleteSchema == Spec => []ServesCompleteSchema
<1>1. ServerInv => ServesCompleteSchema
  BY DEF ServerInv, ProcInv, ServesCompleteSchema
<1> QED
  BY <1>1, ServerInductive, PTL

\* The deferred db.Close runs after Shutdown has returned: a request is lost
\* only when Shutdown's 10 s were over first.
THEOREM GracefulStop == Spec => []GracefulLosesNothing
<1>1. ServerInv => GracefulLosesNothing
  BY DEF ServerInv, ProcInv, GracefulLosesNothing
<1> QED
  BY <1>1, ServerInductive, PTL
=============================================================================
