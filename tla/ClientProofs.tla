---------------------------- MODULE ClientProofs ----------------------------
(***************************************************************************)
(* The two clients of the service, for any number of workers, transfers,   *)
(* clicks and forms: the verdict of the load test can be relied on, and    *)
(* the web page shows the ledger without gaps and as new as it was told.   *)
(***************************************************************************)
EXTENDS LoadTest, WebPage, FiniteSetTheorems, TLAPS

-----------------------------------------------------------------------------
(* The load test: the inductive invariant *)

Phases == {"start src", "start dst", "run", "end src", "end dst", "verdict"}
          \cup Exits

\* A worker gave up on an answer, or was told of an internal error.
Lost == \E r \in out : r.code = "http_error" \/ status[r.op] = 500

Total == OpeningSrc + OpeningDst

Codes == {NoCode, "error", "http_error"}

Known(op) == op \in sent \/ status[op] # 0

TypeInv ==
    /\ bal \in [Sides -> Nat] /\ bal["src"] + bal["dst"] = Total
    /\ iter \in [Worker -> 0 .. Iters] /\ waiting \subseteq Worker
    /\ sent \subseteq Op /\ status \in [Op -> {0, 201, 422, 500}]
    /\ doubt \subseteq Op
    /\ main \in Phases /\ start \in Nat /\ end \in Nat

\* A transfer is posted once, and handled once.
PostedInv ==
    /\ \A w \in waiting : iter[w] < Iters
    /\ \A op \in sent : status[op] = 0
    /\ \A op \in Op : Known(op) =>
          op[2] < iter[op[1]] \/ (op[1] \in waiting /\ op[2] = iter[op[1]])

\* One transfer at most is in doubt, answered 500 and still funded: the rows it
\* has locked stay as they are.
DoubtInv ==
    \A op \in doubt : doubt = {op} /\ status[op] = 500 /\ Funded(op)

\* What the service still has to handle, or to decide, is awaited, or its
\* worker knows of no success.
AwaitedInv ==
    \A op \in sent \cup doubt : \/ op[1] \in waiting /\ op[2] = iter[op[1]]
                               \/ Lost

ResultsInv ==
    \A r \in out : /\ r.op \in Op /\ r.code \in Codes
                   /\ r.code # "http_error" => status[r.op] # 0
                   /\ r.code = NoCode /\ "cut" \notin Faults
                        => status[r.op] = 201

\* What main has read.
MainInv ==
    /\ main # "run" => waiting = {}
    /\ main \in {"start src", "start dst"} => sent = {} /\ doubt = {}
    /\ main = "start dst" => start = bal["src"]
    /\ main \in {"run", "end src", "end dst", "verdict"} => start = Total
    /\ main = "end dst" /\ ~Lost => end = bal["src"]
    /\ main = "verdict" /\ ~Lost => end = Total
    /\ main = "exit 0" => ErrCounts = {}

TestInv ==
    TypeInv /\ PostedInv /\ DoubtInv /\ AwaitedInv /\ ResultsInv /\ MainInv

-----------------------------------------------------------------------------
(* The service *)

LEMMA Pair ==
  ASSUME NEW op \in Op
  PROVE  op[1] \in Worker /\ op[2] \in 0 .. Iters - 1 /\ op = <<op[1], op[2]>>
  BY DEF Op

\* (NoCode is not expanded in what follows.)
LEMMA CodesDiffer == NoCode # "error" /\ NoCode # "http_error"
  BY DEF NoCode

LEMMA CurrentOp ==
  ASSUME NEW w \in Worker, iter[w] \in 0 .. Iters - 1
  PROVE  \E c \in Op : c = Current(w) /\ c[1] = w /\ c[2] = iter[w]
<1>1. PICK i \in 0 .. Iters - 1 : i = iter[w]
  OBVIOUS
<1>2. <<w, i>> \in Op /\ <<w, i>>[1] = w /\ <<w, i>>[2] = i
  BY DEF Op
<1> QED
  BY <1>1, <1>2 DEF Current

LEMMA Sources ==
  ASSUME NEW op
  PROVE  From(op) \in {"src", "dst"}
  BY DEF From

\* A transfer moves one unit, so the sum main compares stays.
LEMMA MovedBalances ==
  ASSUME TypeInv, NEW op \in Op, Funded(op), Moves(op)
  PROVE  bal' \in [Sides -> Nat] /\ bal'["src"] + bal'["dst"] = Total
<1>1. /\ bal[From(op)] >= 1
      /\ bal' = [a \in Sides |-> IF a = From(op) THEN bal[a] - 1
                                   ELSE bal[a] + 1]
  BY DEF Funded, Moves
<1>2. bal["src"] \in Nat /\ bal["dst"] \in Nat /\ Sides = {"src", "dst"}
  BY DEF TypeInv, Sides
<1>3. CASE From(op) = "src"
  <2>1. bal'["src"] = bal["src"] - 1 /\ bal'["dst"] = bal["dst"] + 1
    BY <1>1, <1>2, <1>3
  <2>2. bal' \in [Sides -> Nat]
    BY <1>1, <1>2, <1>3
  <2> QED
    BY <1>2, <2>1, <2>2 DEF TypeInv
<1>4. CASE From(op) = "dst"
  <2>1. bal'["src"] = bal["src"] + 1 /\ bal'["dst"] = bal["dst"] - 1
    BY <1>1, <1>2, <1>4
  <2>2. bal' \in [Sides -> Nat]
    BY <1>1, <1>2, <1>4
  <2> QED
    BY <1>2, <2>1, <2>2 DEF TypeInv
<1> QED
  BY <1>3, <1>4, Sources

LEMMA HandledBalances ==
  ASSUME TypeInv, NEW op \in Op, ServerHandles(op)
  PROVE  /\ bal' \in [Sides -> Nat] /\ bal'["src"] + bal'["dst"] = Total
         /\ bal' = bal \/ (doubt = {} /\ doubt' = {})
<1>1. CASE bal' = bal
  BY <1>1 DEF TypeInv
<1>2. CASE Funded(op) /\ Moves(op) /\ doubt = {} /\ doubt' = doubt
  BY <1>2, MovedBalances
<1> QED
  BY <1>1, <1>2 DEF ServerHandles

LEMMA ServerStep ==
  ASSUME TestInv, NEW op \in Op, ServerHandles(op)
  PROVE  TestInv'
<1>1. /\ UNCHANGED <<iter, waiting, out, main, start, end, expired>>
      /\ op \in sent /\ sent' = sent \ {op}
  BY DEF ServerHandles
<1>2. PICK s \in {201, 422, 500} : status' = [status EXCEPT ![op] = s]
  BY DEF ServerHandles
<1>3. TypeInv /\ PostedInv /\ DoubtInv /\ AwaitedInv /\ ResultsInv /\ MainInv
  BY DEF TestInv
<1>4. /\ status' \in [Op -> {0, 201, 422, 500}] /\ status'[op] = s
      /\ \A o \in Op \ {op} : status'[o] = status[o]
      /\ status[op] = 0
  BY <1>1, <1>2, <1>3 DEF TypeInv, PostedInv
<1>d. \/ doubt' = doubt
      \/ doubt = {} /\ doubt' = {op} /\ s = 500 /\ Funded(op) /\ bal' = bal
  BY <1>2, <1>4 DEF ServerHandles
<1>5. TypeInv'
  BY <1>1, <1>3, <1>4, <1>d, HandledBalances DEF TypeInv
<1>6. (Lost => Lost') /\ ErrCounts' = ErrCounts
  <2>1. ASSUME NEW r \in out, status[r.op] = 500 PROVE status'[r.op] = 500
    BY <1>3, <1>4, <2>1 DEF ResultsInv
  <2> QED
    BY <1>1, <2>1 DEF Lost, ErrCounts
<1>e. DoubtInv'
  <2>1. CASE doubt' = doubt
    <3> SUFFICES ASSUME NEW o \in doubt
                 PROVE  doubt = {o} /\ status'[o] = 500 /\ Funded(o)'
      BY <2>1 DEF DoubtInv
    <3>1. doubt = {o} /\ status[o] = 500 /\ Funded(o) /\ o \in Op
      BY <1>3 DEF DoubtInv, TypeInv
    <3>2. bal' = bal
      BY <2>1, <3>1, <1>3, HandledBalances
    <3>3. Funded(o)'
      BY <3>1, <3>2 DEF Funded
    <3> QED
      BY <1>4, <3>1, <3>3
  <2>2. CASE /\ doubt' = {op} /\ s = 500 /\ Funded(op) /\ bal' = bal
    BY <1>4, <2>2 DEF DoubtInv, Funded
  <2> QED
    BY <1>d, <2>1, <2>2
<1>7. PostedInv'
  <2>1. \A o \in Op : Known(o)' => Known(o)
    BY <1>1, <1>4 DEF Known
  <2>2. \A o \in sent' : status'[o] = 0
    BY <1>1, <1>3, <1>4 DEF PostedInv, TypeInv
  <2> QED
    BY <1>1, <1>3, <2>1, <2>2 DEF PostedInv
<1>8. AwaitedInv'
  <2>1. sent' \cup doubt' \subseteq sent \cup doubt
    BY <1>1, <1>d
  <2> QED
    BY <1>1, <1>3, <1>6, <2>1 DEF AwaitedInv
<1>9. ResultsInv'
  <2> SUFFICES ASSUME NEW r \in out
               PROVE  /\ r.op \in Op /\ r.code \in Codes
                      /\ r.code # "http_error" => status'[r.op] # 0
                      /\ r.code = NoCode /\ "cut" \notin Faults
                           => status'[r.op] = 201
    BY <1>1 DEF ResultsInv
  <2>1. /\ r.op \in Op /\ r.code \in Codes
        /\ r.code # "http_error" => status[r.op] # 0
        /\ r.code = NoCode /\ "cut" \notin Faults => status[r.op] = 201
    BY <1>3 DEF ResultsInv
  <2>2. CASE r.op = op
    <3>1. r.code = "http_error"
      BY ZenonT(30), <1>4, <2>1, <2>2
    <3> QED
      BY ZenonT(30), <2>1, <3>1, CodesDiffer
  <2>3. CASE r.op # op
    <3>1. status'[r.op] = status[r.op]
      BY <1>4, <2>1, <2>3
    <3> QED
      BY <2>1, <3>1
  <2> QED
    BY Zenon, <2>2, <2>3
\* While main adds up the two balances, something is handled only if a worker
\* gave up on it.
<1>10. main \notin {"run"} => Lost
  BY ZenonT(30), <1>1, <1>3 DEF AwaitedInv, MainInv
<1>11. MainInv'
  <2>1. main \notin {"start src", "start dst"}
    BY <1>1, <1>3 DEF MainInv
  <2>2. main \in {"end dst", "verdict"} => Lost'
    BY ZenonT(30), <1>6, <1>10
  <2>3. /\ main' # "start src" /\ main' # "start dst"
        /\ main' = "end dst" => Lost'
        /\ main' = "verdict" => Lost'
    BY Zenon, <1>1, <2>1, <2>2
  <2>4. /\ main' # "run" => waiting' = {}
        /\ main' = "exit 0" => ErrCounts' = {}
    BY ZenonT(30), <1>1, <1>3, <1>6 DEF MainInv
  <2>5. main' \in {"run", "end src", "end dst", "verdict"}
          => start' = Total
    BY Zenon, <1>1, <1>3 DEF MainInv
  <2> QED
    BY ZenonT(30), <2>3, <2>4, <2>5 DEF MainInv
<1> QED
  BY <1>5, <1>7, <1>e, <1>8, <1>9, <1>11 DEF TestInv

\* A COMMIT in doubt is decided; unless the workers are still running, it was
\* known to have failed.
LEMMA DecideStep ==
  ASSUME TestInv, NEW op \in Op, LateCommit(op) \/ ServerAborts(op)
  PROVE  TestInv'
<1>1. /\ UNCHANGED <<sent, status, iter, waiting, out, main, start, end>>
      /\ op \in doubt /\ doubt' = {}
      /\ bal' = bal \/ Moves(op)
  BY DEF LateCommit, ServerAborts
<1>2. TypeInv /\ PostedInv /\ DoubtInv /\ AwaitedInv /\ ResultsInv /\ MainInv
  BY DEF TestInv
<1>3. bal' \in [Sides -> Nat] /\ bal'["src"] + bal'["dst"] = Total
  <2>1. Funded(op)
    BY <1>1, <1>2 DEF DoubtInv
  <2>2. CASE bal' = bal
    BY <1>2, <2>2 DEF TypeInv
  <2>3. CASE Moves(op)
    BY <1>2, <2>1, <2>3, MovedBalances
  <2> QED
    BY <1>1, <2>2, <2>3
<1>4. TypeInv'
  BY <1>1, <1>2, <1>3 DEF TypeInv
<1>5. Lost' = Lost /\ ErrCounts' = ErrCounts
  BY <1>1 DEF Lost, ErrCounts
<1>6. PostedInv' /\ DoubtInv'
  BY <1>1, <1>2 DEF PostedInv, DoubtInv, Known
<1>7. AwaitedInv'
  BY <1>1, <1>2, <1>5 DEF AwaitedInv
<1>8. ResultsInv'
  BY <1>1, <1>2 DEF ResultsInv
<1>9. main # "run" => Lost
  BY <1>1, <1>2 DEF AwaitedInv, MainInv
<1>10. main # "start src" /\ main # "start dst"
  BY <1>1, <1>2 DEF MainInv
<1>11. MainInv'
  BY ZenonT(30), <1>1, <1>2, <1>5, <1>9, <1>10 DEF MainInv
<1> QED
  BY <1>4, <1>6, <1>7, <1>8, <1>11 DEF TestInv

-----------------------------------------------------------------------------
(* The workers *)

LEMMA PostStep ==
  ASSUME TestInv, NEW w \in Worker, Post(w)
  PROVE  TestInv'
<1>1. /\ UNCHANGED <<bal, status, doubt, iter, out, main, start, end>>
      /\ sent' = sent \cup {Current(w)} /\ waiting' = waiting \cup {w}
      /\ main = "run" /\ iter[w] < Iters /\ w \notin waiting
  BY DEF Post, Running
<1>2. TypeInv /\ PostedInv /\ DoubtInv /\ AwaitedInv /\ ResultsInv /\ MainInv
  BY DEF TestInv
<1>3. iter[w] \in 0 .. Iters - 1
  BY <1>1, <1>2, LoadTestAssumption DEF TypeInv
<1>4. PICK c \in Op : c = Current(w) /\ c[1] = w /\ c[2] = iter[w]
  BY <1>3, CurrentOp
<1>5. ~Known(c)
  BY <1>1, <1>2, <1>3, <1>4 DEF PostedInv
<1>6. TypeInv'
  BY <1>1, <1>2, <1>4 DEF TypeInv
<1>7. PostedInv'
  <2>1. \A o \in Op : Known(o)' => Known(o) \/ o = c
    BY <1>1, <1>4 DEF Known
  <2>2. \A o \in sent' : status'[o] = 0
    BY <1>1, <1>2, <1>4, <1>5 DEF PostedInv, Known
  <2> QED
    BY <1>1, <1>2, <1>4, <2>1, <2>2 DEF PostedInv
<1>8. Lost' = Lost /\ ErrCounts' = ErrCounts
  BY <1>1 DEF Lost, ErrCounts
<1>9. AwaitedInv'
  BY <1>1, <1>2, <1>4, <1>8 DEF AwaitedInv
<1>10. DoubtInv' /\ ResultsInv' /\ MainInv'
  BY <1>1, <1>2 DEF DoubtInv, Funded, ResultsInv, MainInv
<1> QED
  BY <1>6, <1>7, <1>9, <1>10 DEF TestInv

LEMMA GiveUpEarlyStep ==
  ASSUME TestInv, NEW w \in Worker, GiveUpEarly(w)
  PROVE  TestInv'
<1>1. /\ UNCHANGED <<bal, sent, status, doubt, waiting, out, main, start, end>>
      /\ iter' = [iter EXCEPT ![w] = Iters]
      /\ main = "run" /\ iter[w] < Iters /\ w \notin waiting
  BY DEF GiveUpEarly, Running
<1>2. TypeInv /\ PostedInv /\ DoubtInv /\ AwaitedInv /\ ResultsInv /\ MainInv
  BY DEF TestInv
<1>3. /\ iter' \in [Worker -> 0 .. Iters] /\ iter'[w] = Iters
      /\ \A v \in Worker \ {w} : iter'[v] = iter[v]
  BY <1>1, <1>2, LoadTestAssumption DEF TypeInv
<1>4. TypeInv'
  BY <1>1, <1>2, <1>3 DEF TypeInv
<1>5. PostedInv'
  <2>1. \A v \in waiting' : iter'[v] < Iters
    BY <1>1, <1>2, <1>3 DEF PostedInv, TypeInv
  <2>2. ASSUME NEW o \in Op, Known(o)'
        PROVE  o[2] < iter'[o[1]] \/ (o[1] \in waiting' /\ o[2] = iter'[o[1]])
    <3>1. Known(o)
      BY <1>1, <2>2 DEF Known
    <3>2. CASE o[1] = w
      BY <1>3, <3>2, Pair, LoadTestAssumption
    <3>3. CASE o[1] # w
      BY <1>1, <1>2, <1>3, <3>1, <3>3, Pair DEF PostedInv
    <3> QED
      BY <3>2, <3>3
  <2> QED
    BY <1>1, <1>2, <2>1, <2>2 DEF PostedInv
<1>6. Lost' = Lost
  BY <1>1 DEF Lost
<1>7. AwaitedInv'
  BY <1>1, <1>2, <1>3, <1>6, Pair DEF AwaitedInv, TypeInv
<1>8. DoubtInv' /\ ResultsInv' /\ MainInv'
  BY <1>1, <1>2 DEF DoubtInv, Funded, ResultsInv, MainInv
<1> QED
  BY <1>4, <1>5, <1>7, <1>8 DEF TestInv

LEMMA PutStep ==
  ASSUME TestInv, NEW w \in waiting, NEW code \in Codes,
         code # "http_error" => status[Current(w)] # 0,
         code = NoCode /\ "cut" \notin Faults => status[Current(w)] = 201,
         Put(w, code)
  PROVE  TestInv'
<1>1. /\ UNCHANGED <<bal, sent, status, doubt, main, start, end>>
      /\ out' = out \cup {[op |-> Current(w), code |-> code]}
      /\ iter' = [iter EXCEPT ![w] = iter[w] + 1]
      /\ waiting' = waiting \ {w}
  BY DEF Put
<1>2. TypeInv /\ PostedInv /\ DoubtInv /\ AwaitedInv /\ ResultsInv /\ MainInv
  BY DEF TestInv
<1>3. w \in Worker /\ iter[w] \in 0 .. Iters - 1 /\ main = "run"
  <2>1. w \in Worker /\ main = "run"
    BY ZenonT(30), <1>2 DEF TypeInv, MainInv
  <2>2. iter[w] < Iters /\ iter[w] \in 0 .. Iters
    BY <1>2, <2>1 DEF TypeInv, PostedInv
  <2> QED
    BY <2>1, <2>2, LoadTestAssumption
<1>4. PICK c \in Op : c = Current(w) /\ c[1] = w /\ c[2] = iter[w]
  BY <1>3, CurrentOp
<1>5. /\ iter' \in [Worker -> 0 .. Iters] /\ iter'[w] = iter[w] + 1
      /\ \A v \in Worker \ {w} : iter'[v] = iter[v]
  <2>1. iter[w] + 1 \in 0 .. Iters
    BY <1>3, LoadTestAssumption
  <2> QED
    BY <1>1, <1>2, <1>3, <2>1 DEF TypeInv
<1>6. TypeInv'
  BY <1>1, <1>2, <1>5 DEF TypeInv
<1>7. PostedInv'
  <2>1. \A v \in waiting' : iter'[v] < Iters
    BY <1>1, <1>2, <1>5 DEF PostedInv, TypeInv
  <2>2. ASSUME NEW o \in Op, Known(o)'
        PROVE  o[2] < iter'[o[1]] \/ (o[1] \in waiting' /\ o[2] = iter'[o[1]])
    <3>1. Known(o)
      BY <1>1, <2>2 DEF Known
    <3>2. o[2] < iter[o[1]] \/ (o[1] \in waiting /\ o[2] = iter[o[1]])
      BY <1>2, <3>1 DEF PostedInv
    <3>3. CASE o[1] = w
      <4>1. PICK i \in 0 .. Iters - 1, j \in 0 .. Iters - 1 :
               i = o[2] /\ j = iter[w]
        BY <1>3, Pair
      <4>2. i < j + 1
        BY <3>2, <3>3, <4>1
      <4> QED
        BY <1>5, <3>3, <4>1, <4>2
    <3>4. CASE o[1] # w
      BY <1>1, <1>5, <3>2, <3>4, Pair
    <3> QED
      BY <3>3, <3>4
  <2> QED
    BY SMTT(30), <1>1, <1>2, <2>1, <2>2 DEF PostedInv
<1>8. Lost => Lost'
  BY <1>1 DEF Lost
<1>9. AwaitedInv'
  <2> SUFFICES ASSUME NEW o \in sent \cup doubt, ~Lost'
               PROVE  o[1] \in waiting' /\ o[2] = iter'[o[1]]
    BY <1>1 DEF AwaitedInv
  <2>1. o \in Op /\ o[1] \in waiting /\ o[2] = iter[o[1]]
    BY <1>2, <1>8 DEF AwaitedInv, TypeInv
  <2>2. o[1] # w
    <3>1. SUFFICES ASSUME o[1] = w PROVE FALSE
      OBVIOUS
    <3>2. o = c
      <4>1. o = <<o[1], o[2]>> /\ c = <<c[1], c[2]>>
        BY <2>1, Pair
      <4> QED
        BY ZenonT(30), <1>4, <2>1, <3>1, <4>1
    <3>3. code = "http_error" \/ status'[c] = 500
      BY SMTT(30), <1>1, <1>2, <1>4, <3>2 DEF PostedInv, DoubtInv
    <3>4. [op |-> c, code |-> code] \in out'
      BY <1>1, <1>4
    <3>5. Lost'
      BY SMTT(30), <3>3, <3>4 DEF Lost
    <3> QED
      BY <3>5
  <2> QED
    BY <1>1, <1>5, <2>1, <2>2, Pair
<1>10. ResultsInv'
  <2> SUFFICES ASSUME NEW r \in out'
               PROVE  /\ r.op \in Op /\ r.code \in Codes
                      /\ r.code # "http_error" => status[r.op] # 0
                      /\ r.code = NoCode /\ "cut" \notin Faults
                           => status[r.op] = 201
    BY SMTT(30), <1>1 DEF ResultsInv
  <2>1. CASE r \in out
    BY <1>2, <2>1 DEF ResultsInv
  <2>2. CASE r = [op |-> c, code |-> code]
    BY <1>4, <2>2
  <2> QED
    BY <1>1, <1>4, <2>1, <2>2
<1>11. DoubtInv' /\ MainInv'
  BY <1>1, <1>2, <1>3 DEF DoubtInv, Funded, MainInv
<1> QED
  BY <1>6, <1>7, <1>9, <1>10, <1>11 DEF TestInv

LEMMA AnswerStep ==
  ASSUME TestInv, NEW w \in Worker, Answered(w) \/ TimesOut(w)
  PROVE  TestInv'
<1>1. CASE TimesOut(w)
  <2>1. w \in waiting /\ Put(w, "http_error")
    BY <1>1 DEF TimesOut
  <2> QED
    BY <2>1, PutStep, CodesDiffer DEF Codes
<1>2. CASE Answered(w)
  <2>1. w \in waiting /\ status[Current(w)] # 0
    BY <1>2 DEF Answered
  <2>2. PICK code \in ErrCodes(status[Current(w)]) : Put(w, code)
    BY <1>2 DEF Answered
  <2>3. /\ code \in Codes
        /\ code = NoCode /\ "cut" \notin Faults => status[Current(w)] = 201
    BY CodesDiffer DEF ErrCodes, Codes
  <2> QED
    BY <2>1, <2>2, <2>3, PutStep
<1> QED
  BY <1>1, <1>2

-----------------------------------------------------------------------------
(* main *)

\* What main does leaves the service, the workers and the channel alone.
LEMMA OnlyMain ==
  ASSUME TestInv, UNCHANGED <<bal, sent, status, doubt, iter, waiting, out>>
  PROVE  /\ PostedInv' /\ DoubtInv' /\ AwaitedInv' /\ ResultsInv'
         /\ Lost' = Lost /\ ErrCounts' = ErrCounts
<1>1. Lost' = Lost /\ ErrCounts' = ErrCounts
  BY DEF Lost, ErrCounts
<1>2. PostedInv' /\ DoubtInv'
  BY DEF TestInv, PostedInv, Known, DoubtInv, Funded
<1>3. AwaitedInv'
  BY <1>1 DEF TestInv, AwaitedInv
<1>4. ResultsInv'
  BY DEF TestInv, ResultsInv
<1> QED
  BY <1>1, <1>2, <1>3, <1>4

LEMMA ExpireStep ==
  ASSUME TestInv, Expire
  PROVE  TestInv'
<1>1. UNCHANGED <<bal, sent, status, doubt, iter, waiting, out, main, start,
                    end>>
  BY DEF Expire
<1>2. /\ PostedInv' /\ DoubtInv' /\ AwaitedInv' /\ ResultsInv'
      /\ Lost' = Lost /\ ErrCounts' = ErrCounts
  BY Zenon, <1>1, OnlyMain
<1>3. TypeInv'
  BY ZenonT(30), <1>1 DEF TestInv, TypeInv
<1>4. MainInv'
  BY ZenonT(30), <1>1, <1>2 DEF TestInv, MainInv
<1> QED
  BY Zenon, <1>2, <1>3, <1>4 DEF TestInv

LEMMA ReadStartStep ==
  ASSUME TestInv, ReadStart
  PROVE  TestInv'
<1>1. UNCHANGED <<bal, sent, status, doubt, iter, waiting, out, end>>
  BY DEF ReadStart, Goto
<1>2. PostedInv' /\ DoubtInv' /\ AwaitedInv' /\ ResultsInv'
  BY <1>1, OnlyMain
<1>3. /\ bal["src"] \in Nat /\ bal["dst"] \in Nat
      /\ bal["src"] + bal["dst"] = Total
  BY DEF TestInv, TypeInv, Sides
<1>4. CASE main = "start src" /\ start' = bal["src"] /\ main' = "start dst"
  <2>1. TypeInv'
    BY <1>1, <1>3, <1>4 DEF TestInv, TypeInv, Phases
  <2>2. MainInv'
    BY <1>1, <1>4 DEF TestInv, MainInv
  <2> QED
    BY <1>2, <2>1, <2>2 DEF TestInv
<1>5. CASE main = "start dst" /\ start' = start + bal["dst"] /\ main' = "run"
  <2>1. start = bal["src"]
    BY <1>5 DEF TestInv, MainInv
  <2>2. start' = Total /\ start' \in Nat
    <3>1. PICK x \in Nat, y \in Nat :
             x = bal["src"] /\ y = bal["dst"] /\ x + y = Total
      BY <1>3
    <3>2. start' = x + y
      BY Zenon, <1>5, <2>1, <3>1
    <3> QED
      BY <3>1, <3>2
  <2>3. TypeInv'
    BY <1>1, <1>5, <2>2 DEF TestInv, TypeInv, Phases
  <2>4. MainInv'
    BY <1>1, <1>5, <2>2 DEF TestInv, MainInv
  <2> QED
    BY <1>2, <2>3, <2>4 DEF TestInv
<1> QED
  BY <1>4, <1>5 DEF ReadStart, Goto, GetAccount

LEMMA ReadEndStep ==
  ASSUME TestInv, ReadEnd
  PROVE  TestInv'
<1>1. UNCHANGED <<bal, sent, status, doubt, iter, waiting, out, start>>
  BY DEF ReadEnd, Goto
<1>2. PostedInv' /\ DoubtInv' /\ AwaitedInv' /\ ResultsInv' /\ Lost' = Lost
  BY <1>1, OnlyMain
<1>3. /\ bal["src"] \in Nat /\ bal["dst"] \in Nat
      /\ bal["src"] + bal["dst"] = Total
  BY DEF TestInv, TypeInv, Sides
<1>4. CASE main = "end src" /\ end' = bal["src"] /\ main' = "end dst"
  <2>1. TypeInv'
    BY ZenonT(30), <1>1, <1>3, <1>4 DEF TestInv, TypeInv, Phases
  <2>2. MainInv'
    BY <1>1, <1>4 DEF TestInv, MainInv
  <2> QED
    BY <1>2, <2>1, <2>2 DEF TestInv
<1>5. CASE main = "end dst" /\ end' = end + bal["dst"] /\ main' = "verdict"
  <2>1. end' \in Nat
    <3>1. PICK x \in Nat, y \in Nat : x = end /\ y = bal["dst"]
      BY <1>3 DEF TestInv, TypeInv
    <3>2. end' = x + y
      BY Zenon, <1>5, <3>1
    <3> QED
      BY <3>1, <3>2
  <2>2. ~Lost => end' = Total
    BY <1>3, <1>5 DEF TestInv, MainInv
  <2>3. TypeInv'
    BY ZenonT(30), <1>1, <1>5, <2>1 DEF TestInv, TypeInv, Phases
  <2>4. MainInv'
    BY <1>1, <1>2, <1>5, <2>2 DEF TestInv, MainInv
  <2> QED
    BY <1>2, <2>3, <2>4 DEF TestInv
<1> QED
  BY <1>4, <1>5 DEF ReadEnd, Goto, GetAccount

LEMMA MainStep ==
  ASSUME TestInv, ReadFails \/ Wait \/ Verdict
  PROVE  TestInv'
<1>1. UNCHANGED <<bal, sent, status, doubt, iter, waiting, out, start, end>>
  BY DEF ReadFails, Wait, Verdict, Goto
<1>2. /\ PostedInv' /\ DoubtInv' /\ AwaitedInv' /\ ResultsInv'
      /\ Lost' = Lost /\ ErrCounts' = ErrCounts
  BY <1>1, OnlyMain
<1>3. CASE ReadFails
  <2>1. main' = "exit 1" /\ main # "run"
    BY <1>3 DEF ReadFails, Goto
  <2>2. TypeInv' /\ MainInv'
    BY <1>1, <2>1 DEF TestInv, TypeInv, MainInv, Phases, Exits
  <2> QED
    BY <1>2, <2>2 DEF TestInv
<1>4. CASE Wait
  <2>1. main' = "end src" /\ main = "run" /\ \A w \in Worker : iter[w] = Iters
    BY <1>4 DEF Wait, Goto
  <2>2. waiting = {}
    <3> SUFFICES ASSUME NEW w \in waiting PROVE FALSE
      OBVIOUS
    <3>1. w \in Worker /\ iter[w] < Iters
      BY DEF TestInv, PostedInv, TypeInv
    <3>2. iter[w] = Iters
      BY Zenon, <2>1, <3>1
    <3> QED
      BY <3>1, <3>2, LoadTestAssumption
  <2>3. TypeInv' /\ MainInv'
    BY <1>1, <2>1, <2>2 DEF TestInv, TypeInv, MainInv, Phases
  <2> QED
    BY <1>2, <2>3 DEF TestInv
<1>5. CASE Verdict
  <2>1. /\ main = "verdict" /\ main' \in Exits
        /\ main' = "exit 0" => ErrCounts = {}
    BY <1>5 DEF Verdict, Goto, Exits
  <2>2. TypeInv'
    BY <1>1, <2>1 DEF TestInv, TypeInv, Phases
  <2>3. MainInv'
    BY <1>1, <1>2, <2>1 DEF TestInv, MainInv, Exits
  <2> QED
    BY <1>2, <2>2, <2>3 DEF TestInv
<1> QED
  BY <1>3, <1>4, <1>5

-----------------------------------------------------------------------------
(* Every step keeps the invariant *)

LEMMA InitTest == Init => TestInv
<1> SUFFICES ASSUME Init PROVE TestInv
  OBVIOUS
<1>1. /\ bal = [a \in Sides |-> IF a = "src" THEN OpeningSrc ELSE OpeningDst]
      /\ sent = {}
      /\ status = [op \in Op |-> 0] /\ doubt = {}
      /\ iter = [w \in Worker |-> 0] /\ waiting = {} /\ out = {}
      /\ main = "start src" /\ start = 0 /\ end = 0
  BY DEF Init
<1>2. /\ bal["src"] = OpeningSrc /\ bal["dst"] = OpeningDst
      /\ bal \in [Sides -> Nat]
  BY <1>1, LoadTestAssumption DEF Sides
<1>3. /\ iter \in [Worker -> 0 .. Iters]
      /\ status \in [Op -> {0, 201, 422, 500}]
  <2>1. 0 \in 0 .. Iters
    BY LoadTestAssumption
  <2> QED
    BY <1>1, <2>1
<1>4. TypeInv
  <2>1. bal["src"] + bal["dst"] = Total
    BY <1>2, LoadTestAssumption DEF Total
  <2> QED
    BY <1>1, <1>2, <1>3, <2>1 DEF TypeInv, Phases
<1>5. PostedInv /\ DoubtInv
  BY <1>1 DEF PostedInv, Known, DoubtInv
<1>6. AwaitedInv /\ ResultsInv /\ MainInv
  BY <1>1 DEF AwaitedInv, ResultsInv, MainInv
<1> QED
  BY <1>4, <1>5, <1>6 DEF TestInv

LEMMA NextTest == TestInv /\ [Next]_vars => TestInv'
<1> SUFFICES ASSUME TestInv, [Next]_vars PROVE TestInv'
  OBVIOUS
<1>1. ASSUME NEW op \in Op,
             ServerHandles(op) \/ LateCommit(op) \/ ServerAborts(op)
      PROVE  TestInv'
  BY <1>1, ServerStep, DecideStep
<1>2. ASSUME NEW w \in Worker,
             Post(w) \/ GiveUpEarly(w) \/ Answered(w) \/ TimesOut(w)
      PROVE  TestInv'
  BY <1>2, PostStep, GiveUpEarlyStep, AnswerStep
<1>3. CASE Expire \/ ReadStart \/ ReadEnd
  BY <1>3, ExpireStep, ReadStartStep, ReadEndStep
<1>4. CASE ReadFails \/ Wait \/ Verdict
  BY <1>4, MainStep
<1>5. CASE UNCHANGED vars
  <2>1. UNCHANGED <<bal, sent, status, doubt, iter, waiting, out, main, start,
                    end>>
    BY <1>5 DEF vars
  <2>2. /\ PostedInv' /\ DoubtInv' /\ AwaitedInv' /\ ResultsInv'
        /\ Lost' = Lost /\ ErrCounts' = ErrCounts
    BY SMTT(30), <2>1, OnlyMain
  <2>3. TypeInv' /\ MainInv'
    BY ZenonT(30), <2>1, <2>2 DEF TestInv, TypeInv, MainInv
  <2> QED
    BY <2>2, <2>3 DEF TestInv
<1> QED
  BY Zenon, <1>1, <1>2, <1>3, <1>4, <1>5 DEF Next

\* Whatever the workers, timeouts and failures: a transfer is posted once; as
\* long as it is neither handled nor decided, it is awaited or its worker knows
\* of no success; and main reads the sums when no worker is left.
THEOREM TestInductive == Spec => []TestInv
<1>1. Init => TestInv
  BY InitTest
<1>2. TestInv /\ [Next]_vars => TestInv'
  BY NextTest
<1> QED
  BY <1>1, <1>2, PTL DEF Spec

\* The load test's invariant check never fails by itself: two different sums
\* mean that some worker gave up on an answer or was told of an internal
\* error, also when that transfer was committed only afterwards.
THEOREM FailureExplained == Spec => []DifferenceIsExplained
<1>1. TestInv => DifferenceIsExplained
  BY DEF TestInv, MainInv, Lost, DifferenceIsExplained
<1> QED
  BY <1>1, TestInductive, PTL

\* The service answered op with 201, or with 500.
Done(op) == status[op] = 201
Failed(op) == status[op] = 500

LEMMA DoneNotFailed ==
  ASSUME NEW op
  PROVE  ~(Done(op) /\ Failed(op))
  BY DEF Done, Failed

LEMMA PostedResults ==
  ASSUME TestInv, NEW r \in out, r.code = NoCode
  PROVE  "cut" \in Faults \/ Done(r.op)
<1>1. ResultsInv
  BY DEF TestInv
<1> QED
  BY <1>1 DEF ResultsInv, Done

\* Exit 0 means that every transfer sent was posted, none is on its way or in
\* doubt: as long as the error bodies arrive complete.
THEOREM ExitEarned ==
  ASSUME "cut" \notin Faults
  PROVE  Spec => []ExitZeroIsEarned
<1>1. TestInv => ExitZeroIsEarned
  <2> SUFFICES ASSUME TestInv, main = "exit 0"
               PROVE  sent = {} /\ doubt = {} /\ \A r \in out : Done(r.op)
    BY DEF ExitZeroIsEarned, Done
  <2>1. waiting = {} /\ \A r \in out : r.code = NoCode
    BY DEF TestInv, MainInv, ErrCounts
  <2>2. \A r \in out : Done(r.op)
    BY Zenon, <2>1, PostedResults
  <2>3. ~Lost
    <3> SUFFICES ASSUME Lost PROVE FALSE
      OBVIOUS
    <3>1. PICK r \in out : r.code = "http_error" \/ Failed(r.op)
      BY DEF Lost, Failed
    <3>2. r.code # "http_error"
      BY <2>1, CodesDiffer
    <3> QED
      BY Zenon, <2>2, <3>1, <3>2, DoneNotFailed
  <2>4. sent = {} /\ doubt = {}
    BY <2>1, <2>3 DEF TestInv, AwaitedInv
  <2> QED
    BY <2>2, <2>4
<1> QED
  BY <1>1, TestInductive, PTL

-----------------------------------------------------------------------------
(* The load test: the balances while nothing fails *)

\* As long as nothing failed, a worker has posted a transfer of every iteration
\* behind it, and of the current one if its answer is on its way.
Untroubled ==
    /\ \A op \in Op : status[op] \in {0, 201}
    /\ \A r \in out : r.code # "http_error"

InStep(w) ==
    iter[w] < Iters => \/ Posted(w) = 0 .. iter[w] - 1
                       \/ w \in waiting /\ Posted(w) = 0 .. iter[w]

StepInv ==
    Untroubled => /\ bal["src"] = OpeningSrc - Cardinality(Halfway)
                  /\ \A w \in Worker : InStep(w)

LEMMA NotLost ==
  ASSUME TestInv, Untroubled
  PROVE  ~Lost /\ doubt = {}
<1>1. \A op \in Op : status[op] # 500
  BY DEF Untroubled
<1>2. doubt = {}
  BY <1>1 DEF TestInv, TypeInv, DoubtInv
<1>3. ASSUME NEW r \in out
      PROVE  ~(r.code = "http_error" \/ status[r.op] = 500)
  <2>1. r.op \in Op /\ r.code # "http_error"
    BY Zenon DEF TestInv, ResultsInv, Untroubled
  <2>2. status[r.op] # 500
    BY <1>1, <2>1
  <2> QED
    BY Zenon, <2>1, <2>2
<1> QED
  BY <1>2, <1>3 DEF Lost

\* The workers' own steps leave the service alone.
LEMMA StepKept ==
  ASSUME StepInv, bal' = bal, status' = status, Untroubled' => Untroubled,
         Untroubled => \A w \in Worker : InStep(w)'
  PROVE  StepInv'
<1>1. \A w : Posted(w)' = Posted(w)
  BY Zenon DEF Posted
<1>2. Halfway' = Halfway
  BY Zenon, <1>1 DEF Halfway
<1> QED
  BY Zenon, <1>2 DEF StepInv

LEMMA PutInStep ==
  ASSUME TestInv, StepInv, NEW w \in Worker, NEW code, Put(w, code),
         w \in waiting, code # "http_error" => status[Current(w)] # 0
  PROVE  StepInv'
<1>1. /\ bal' = bal /\ status' = status /\ waiting' = waiting \ {w}
      /\ iter' = [iter EXCEPT ![w] = @ + 1]
      /\ out' = out \cup {[op |-> Current(w), code |-> code]}
  BY DEF Put
<1>2. ASSUME Untroubled' PROVE Untroubled /\ code # "http_error"
  <2>1. [op |-> Current(w), code |-> code].code = code
    OBVIOUS
  <2> QED
    BY ZenonT(30), <1>1, <1>2, <2>1 DEF Untroubled
<1>3. ASSUME Untroubled, code # "http_error", NEW v \in Worker, iter'[v] < Iters
      PROVE  \/ Posted(v) = 0 .. iter'[v] - 1
             \/ v \in waiting' /\ Posted(v) = 0 .. iter'[v]
  <2>1. iter \in [Worker -> 0 .. Iters]
    BY DEF TestInv, TypeInv
  <2>2. InStep(v)
    BY Zenon, <1>3 DEF StepInv
  <2>3. CASE v # w
    BY <1>1, <1>3, <2>1, <2>2, <2>3 DEF InStep
  <2>4. CASE v = w
    <3>1. PICK n \in 0 .. Iters : n = iter[w]
      BY <2>1
    <3>2. iter'[v] = n + 1 /\ n < Iters /\ n \in 0 .. Iters - 1
          /\ n \notin 0 .. n - 1 /\ 0 .. n = 0 .. iter'[v] - 1
      BY SMTT(30), <1>1, <1>3, <2>1, <2>4, <3>1, LoadTestAssumption
    <3>3. <<w, n>> \in Op /\ Current(w) = <<w, n>>
      BY <3>1, <3>2 DEF Op, Current
    <3>4. status[<<w, n>>] = 201
      BY <1>3, <3>3 DEF Untroubled
    <3>5. n \in Posted(w)
      BY Zenon, <3>2, <3>4 DEF Posted
    <3>6. Posted(w) = 0 .. n
      BY Zenon, <2>2, <2>4, <3>1, <3>2, <3>5 DEF InStep
    <3> QED
      BY Zenon, <2>4, <3>2, <3>6
  <2> QED
    BY Zenon, <2>3, <2>4
<1>4. \A v : Posted(v)' = Posted(v)
  BY Zenon, <1>1 DEF Posted
<1>5. CASE ~Untroubled'
  BY Zenon, <1>5 DEF StepInv
<1>6. CASE Untroubled'
  <2>1. \A v \in Worker : InStep(v)'
    BY Zenon, <1>2, <1>3, <1>4, <1>6 DEF InStep
  <2> QED
    BY Zenon, <1>1, <1>2, <2>1, StepKept
<1> QED
  BY Zenon, <1>5, <1>6

\* One more transfer of w, its n-th, is posted.
LEMMA HandledInStep ==
  ASSUME IsFiniteSet(Worker), TestInv, StepInv, NEW op \in Op,
         ServerHandles(op)
  PROVE  StepInv'
<1> SUFFICES ASSUME Untroubled'
             PROVE  /\ bal'["src"] = OpeningSrc - Cardinality(Halfway')
                    /\ \A v \in Worker : InStep(v)'
  BY Zenon DEF StepInv
<1>1. /\ op \in sent /\ iter' = iter /\ waiting' = waiting /\ out' = out
      /\ status[op] = 0 /\ status \in [Op -> {0, 201, 422, 500}]
  BY DEF ServerHandles, TestInv, TypeInv, PostedInv
<1>2. /\ status' = [status EXCEPT ![op] = 201] /\ Moves(op)
  <2>1. status'[op] \in {0, 201}
    BY DEF Untroubled
  <2> QED
    BY <1>1, <2>1 DEF ServerHandles
<1>3. Untroubled
  BY <1>1, <1>2 DEF Untroubled
<1>4. op[1] \in waiting /\ op[2] = iter[op[1]]
  BY ZenonT(30), <1>1, <1>3, NotLost DEF TestInv, AwaitedInv
<1>5. PICK w \in Worker, n \in 0 .. Iters - 1 : op = <<w, n>>
  BY DEF Op
<1>6. w \in waiting /\ n = iter[w]
  BY <1>4, <1>5
<1>7. n \in Nat /\ n < Iters /\ n \notin 0 .. n - 1 /\ n \in 0 .. n
  BY <1>5, LoadTestAssumption
<1>8. Posted(w) = 0 .. n - 1
  <2>1. n \notin Posted(w)
    BY <1>1, <1>5 DEF Posted
  <2>2. InStep(w)
    BY Zenon, <1>3 DEF StepInv
  <2> QED
    BY Zenon, <1>6, <1>7, <2>1, <2>2 DEF InStep
<1>9. \A v \in Worker, i \in 0 .. Iters - 1 :
         status'[<<v, i>>] = IF v = w /\ i = n THEN 201 ELSE status[<<v, i>>]
  BY SMTT(30), <1>1, <1>2, <1>5 DEF Op
<1>10. \A v \in Worker : v # w => Posted(v)' = Posted(v)
  <2>1. \A v \in Worker, i \in 0 .. Iters - 1 :
           v # w => status'[<<v, i>>] = status[<<v, i>>]
    BY <1>9
  <2> QED
    BY <2>1 DEF Posted
<1>11. Posted(w)' = 0 .. n
  <2>1. Posted(w)' = Posted(w) \cup {n}
    BY Zenon, <1>5, <1>9 DEF Posted
  <2> QED
    BY <1>7, <1>8, <2>1
<1>12. \A v \in Worker : InStep(v)'
  <2> SUFFICES ASSUME NEW v \in Worker PROVE InStep(v)'
    BY Zenon
  <2>1. CASE v = w
    BY Zenon, <1>1, <1>6, <1>11, <2>1 DEF InStep
  <2>2. CASE v # w
    <3>1. InStep(v)
      BY Zenon, <1>3 DEF StepInv
    <3> QED
      BY ZenonT(30), <1>1, <1>10, <2>2, <3>1 DEF InStep
  <2> QED
    BY Zenon, <2>1, <2>2
<1>13. /\ Cardinality(Posted(w)) = n
       /\ Cardinality(Posted(w)') = n + 1
  <2>1. /\ Cardinality(0 .. n - 1) = IF 0 > n - 1 THEN 0 ELSE n - 1 - 0 + 1
        /\ Cardinality(0 .. n) = IF 0 > n THEN 0 ELSE n - 0 + 1
    BY <1>7, FS_Interval
  <2>2. Cardinality(0 .. n - 1) = n /\ Cardinality(0 .. n) = n + 1
    BY <1>7, <2>1
  <2> QED
    BY Zenon, <1>8, <1>11, <2>2
<1>14. PICK c : c = Cardinality(Halfway)
  BY Zenon
<1>15. IsFiniteSet(Halfway) /\ c \in Nat
  <2>1. Halfway \subseteq Worker
    BY Zenon DEF Halfway
  <2>2. IsFiniteSet(Halfway)
    BY Zenon, <2>1, FS_Subset
  <2> QED
    BY Zenon, <1>14, <2>2, FS_CardinalityType
<1>16. bal \in [Sides -> Nat] /\ bal["src"] = OpeningSrc - c
  BY Zenon, <1>3, <1>14 DEF StepInv, TestInv, TypeInv
<1>17. \A v \in Worker : v # w => (v \in Halfway' <=> v \in Halfway)
  BY Zenon, <1>10 DEF Halfway
<1>18. CASE n % 2 = 1
  <2>1. w \in Halfway /\ w \notin Halfway'
    <3>1. (n + 1) % 2 # 1
      BY <1>7, <1>18
    <3> QED
      BY Zenon, <1>13, <1>18, <3>1 DEF Halfway
  <2>2. Halfway' = Halfway \ {w}
    BY Zenon, <1>17, <2>1 DEF Halfway
  <2>3. Cardinality(Halfway') = c - 1
    BY Zenon, <1>14, <1>15, <2>1, <2>2, FS_RemoveElement
  <2>4. bal'["src"] = bal["src"] + 1
    BY <1>2, <1>5, <1>16, <1>18 DEF Moves, From, Sides
  <2>5. bal'["src"] = OpeningSrc - Cardinality(Halfway')
    BY <1>15, <1>16, <2>3, <2>4, LoadTestAssumption
  <2> QED
    BY Zenon, <1>12, <2>5
<1>19. CASE n % 2 # 1
  <2>1. w \notin Halfway /\ w \in Halfway'
    <3>1. (n + 1) % 2 = 1
      BY <1>7, <1>19
    <3> QED
      BY Zenon, <1>13, <1>19, <3>1 DEF Halfway
  <2>2. Halfway' = Halfway \cup {w}
    BY Zenon, <1>17, <2>1 DEF Halfway
  <2>3. Cardinality(Halfway') = c + 1
    BY Zenon, <1>14, <1>15, <2>1, <2>2, FS_AddElement
  <2>4. bal'["src"] = bal["src"] - 1
    BY SMTT(30), <1>2, <1>5, <1>16, <1>19 DEF Moves, From, Sides
  <2>5. bal'["src"] = OpeningSrc - Cardinality(Halfway')
    BY <1>15, <1>16, <2>3, <2>4, LoadTestAssumption
  <2> QED
    BY Zenon, <1>12, <2>5
<1> QED
  BY Zenon, <1>18, <1>19

LEMMA NextInStep ==
  ASSUME IsFiniteSet(Worker), TestInv, StepInv, [Next]_vars
  PROVE  StepInv'
<1>1. \A op \in Op : ServerHandles(op) => StepInv'
  BY Zenon, HandledInStep
<1>2. ASSUME NEW op \in Op, LateCommit(op) \/ ServerAborts(op)
      PROVE  StepInv'
  <2>1. op \in doubt /\ status' = status /\ out' = out
    BY Zenon, <1>2 DEF LateCommit, ServerAborts
  <2>2. Untroubled' => Untroubled
    BY Zenon, <2>1 DEF Untroubled
  <2> QED
    BY Zenon, <2>1, <2>2, NotLost DEF StepInv
<1>3. ASSUME bal' = bal, status' = status, out' = out, iter' = iter,
             waiting \subseteq waiting'
      PROVE  StepInv'
  <2>1. Untroubled' => Untroubled
    BY Zenon, <1>3 DEF Untroubled
  <2>2. ASSUME NEW w, InStep(w) PROVE InStep(w)'
    BY Zenon, <1>3, <2>2 DEF InStep, Posted
  <2>3. Untroubled => \A w \in Worker : InStep(w)'
    BY Zenon, <2>2 DEF StepInv
  <2> QED
    BY Zenon, <1>3, <2>1, <2>3, StepKept
<1>4. ASSUME NEW w \in Worker, Post(w) PROVE StepInv'
  BY Zenon, <1>3, <1>4 DEF Post
<1>5. ASSUME NEW w \in Worker, GiveUpEarly(w) PROVE StepInv'
  <2>1. /\ bal' = bal /\ status' = status /\ out' = out /\ waiting' = waiting
        /\ iter' = [iter EXCEPT ![w] = Iters]
    BY Zenon, <1>5 DEF GiveUpEarly
  <2>2. Untroubled' => Untroubled
    BY Zenon, <2>1 DEF Untroubled
  <2>3. \A v \in Worker : iter'[v] < Iters => iter'[v] = iter[v]
    BY <2>1, LoadTestAssumption DEF TestInv, TypeInv
  <2>4. ASSUME NEW v \in Worker, InStep(v) PROVE InStep(v)'
    BY ZenonT(30), <2>1, <2>3, <2>4 DEF InStep, Posted
  <2>5. Untroubled => \A v \in Worker : InStep(v)'
    BY Zenon, <2>4 DEF StepInv
  <2> QED
    BY Zenon, <2>1, <2>2, <2>5, StepKept
<1>6. ASSUME NEW w \in Worker, Answered(w) \/ TimesOut(w) PROVE StepInv'
  BY Zenon, <1>6, PutInStep DEF Answered, TimesOut
<1>7. CASE Expire \/ ReadStart \/ ReadEnd \/ ReadFails \/ Wait \/ Verdict
  <2>1. bal' = bal /\ status' = status /\ out' = out /\ iter' = iter
        /\ waiting' = waiting
    BY Zenon, <1>7
       DEF Expire, ReadStart, ReadEnd, ReadFails, Wait, Verdict, Goto
  <2> QED
    BY Zenon, <1>3, <2>1
<1>8. CASE UNCHANGED vars
  BY Zenon, <1>3, <1>8 DEF vars
<1> QED
  BY Zenon, <1>1, <1>2, <1>4, <1>5, <1>6, <1>7, <1>8 DEF Next

LEMMA InitInStep == IsFiniteSet(Worker) /\ Init => StepInv
<1> SUFFICES ASSUME Init PROVE StepInv
  BY Zenon
<1>1. \A w \in Worker : Posted(w) = {} /\ iter[w] = 0
  <2>1. \A w \in Worker, i \in 0 .. Iters - 1 : status[<<w, i>>] = 0
    <3>1. status = [op \in Op |-> 0]
      BY Zenon DEF Init
    <3> QED
      BY <3>1 DEF Op
  <2>2. 0 # 201
    OBVIOUS
  <2>3. \A w \in Worker : Posted(w) = {}
    BY <2>1, <2>2 DEF Posted
  <2>4. \A w \in Worker : iter[w] = 0
    BY Zenon DEF Init
  <2> QED
    BY Zenon, <2>3, <2>4
<1>2. 0 .. 0 - 1 = {} /\ 0 % 2 # 1 /\ Cardinality({}) = 0
  BY FS_EmptySet
<1>3. Halfway = {}
  BY Zenon, <1>1, <1>2 DEF Halfway
<1>4. bal["src"] = OpeningSrc /\ OpeningSrc - 0 = OpeningSrc
  <2>1. bal = [a \in Sides |-> IF a = "src" THEN OpeningSrc ELSE OpeningDst]
    BY Zenon DEF Init
  <2>2. "src" \in Sides
    BY DEF Sides
  <2>3. bal["src"] = OpeningSrc
    BY Zenon, <2>1, <2>2
  <2>4. OpeningSrc - 0 = OpeningSrc
    BY LoadTestAssumption
  <2> QED
    BY Zenon, <2>3, <2>4
<1> QED
  BY Zenon, <1>1, <1>2, <1>3, <1>4 DEF StepInv, InStep

\* For any number of workers and transfers, as long as nothing fails, the
\* source account is short of one amount for each worker that is halfway, and
\* of no more: a worker's transfers alternate.
THEOREM AlternationBounds ==
  ASSUME IsFiniteSet(Worker)
  PROVE  Spec => []BalancesBounded
<1>1. Init => StepInv
  BY Zenon, InitInStep
<1>2. TestInv /\ StepInv /\ [Next]_vars => StepInv'
  BY Zenon, NextInStep
<1>3. StepInv => BalancesBounded
  BY Zenon DEF StepInv, Untroubled, BalancesBounded
<1> QED
  BY <1>1, <1>2, <1>3, TestInductive, PTL DEF Spec

-----------------------------------------------------------------------------
(* The web page: the inductive invariant *)

\* A request on its way has these three parts.
Whole(q) == q = [k |-> q.k, rq |-> q.rq, body |-> q.body]

\* A request is on its way for a handler of one of the forms submitted so far,
\* and its answer, if it has one, was true when it was given.
RequestOK(q) ==
    /\ Whole(q)
    /\ q.rq.what \in {"post", "accounts", "ledger"} \cup Tables
    /\ q.rq.flow \in 0 .. submits
    /\ q.rq.what \in {"post", "accounts"} => q.rq.flow # 0
    /\ q.rq.what = "post" /\ q.body # None => q.body[1] \in 1 .. ledger
    /\ q.rq.what = "ledger" =>
          /\ q.rq.arg \in Nat /\ (~q.rq.append => q.rq.arg = 0)
          /\ q.body # None => q.body \in Seq(Int)

PageTypes ==
    /\ ledger \in Nat /\ offset \in Nat /\ rows \in Seq(Int)
    /\ submits \in Nat /\ others \in Nat /\ acked \in 0 .. ledger
    /\ \A q \in net : RequestOK(q)

\* A submitted form awaits one answer, or the two of the open history.
OneStage ==
    \A q, r \in net : q # r /\ q.rq.flow = r.rq.flow /\ q.rq.flow # 0
                         => q.rq.what \in Tables

LoneRead ==
    ~crossed => \A q, r \in net : IsReplacing(q) /\ IsReplacing(r) => q = r

\* The newest transaction the page was told of will be shown: a handler is on
\* its way to the ledger panel, or has asked and will be told, or has been.
OnItsWay ==
    \E q \in net : q.rq.what \in {"accounts"} \cup Tables /\ q.rq.flow # 0

StartsFresh(s) == s # <<>> /\ s[1] >= acked

Fresh ==
    \/ OnItsWay
    \/ \E q \in net : IsReplacing(q) /\ (q.body = None \/ StartsFresh(q.body))
    \/ StartsFresh(rows) /\ \A q \in net : ~IsReplacing(q)

\* The page read at an offset while nothing is pending, and its transactions.
PageAt(from) ==
    LET top == ledger - from
    IN  [i \in {j \in 1 .. Limit : j <= top} |-> top - i + 1]

Covered(from) ==
    {n \in 1 .. ledger : ledger - from - Limit < n /\ n <= ledger - from}

\* Before the first answer, and after it: what the panel shows is everything
\* down to the offset except the pages still on their way, which are apart.
FirstRead ==
    /\ rows = <<>> /\ ~more /\ offset = 0
    /\ \E q \in net : IsReplacing(q)
    /\ \A q, r \in net : q.rq.what = "ledger" /\ r.rq.what = "ledger"
                            => IsReplacing(q) /\ q = r

LaterReads ==
    /\ \A q \in net : q.rq.what = "ledger" =>
          q.rq.append /\ Limit <= q.rq.arg /\ q.rq.arg <= offset
    /\ \A q, r \in net :
          q.rq.what = "ledger" /\ r.rq.what = "ledger" /\ q # r
             => q.rq.arg + Limit <= r.rq.arg \/ r.rq.arg + Limit <= q.rq.arg
    /\ Range(rows) = {n \in 1 .. ledger :
                        /\ n > ledger - offset - Limit
                        /\ \A q \in net : q.rq.what = "ledger"
                                             => n \notin Covered(q.rq.arg)}
    /\ IsInjective(rows)

AnswersTrue ==
    \A q \in net : q.rq.what = "ledger" /\ q.body # None
                      => q.body = PageAt(q.rq.arg)

PageInv ==
    /\ PageTypes /\ OneStage /\ LoneRead
    /\ acked > 0 /\ ~crossed /\ ~failed => Fresh
    /\ submits = 0 /\ others = 0 /\ ~failed
          => AnswersTrue /\ (FirstRead \/ LaterReads)

\* What the page was told of is committed, and what has begun is known.
Committed ==
    /\ acked \notin pending
    /\ \A q \in net : q.rq.what = "post" =>
          /\ q.body # None => q.body[1] \notin pending
          /\ q.rq.arg # None => q.rq.arg \in 1 .. ledger
    /\ submits = 0 /\ others = 0 => pending = {}

-----------------------------------------------------------------------------
(* Requests, pages and sequences *)

NewRequest(k, r) == [k |-> k, rq |-> r, body |-> None]
NewRequests(k, rs) == {NewRequest(k, r) : r \in rs}

LEMMA SendAdds ==
  ASSUME NEW rest, NEW rs
  PROVE  \E k : Send(rest, rs) = rest \cup NewRequests(k, rs)
  BY Zenon DEF Send, NewRequest, NewRequests

LEMMA NewFields ==
  ASSUME NEW k, NEW r
  PROVE  /\ NewRequest(k, r).rq = r /\ NewRequest(k, r).body = None
         /\ Whole(NewRequest(k, r))
  BY Zenon DEF NewRequest, Whole

LEMMA OneSent ==
  ASSUME NEW rest, NEW r
  PROVE  \E m : /\ Send(rest, {r}) = rest \cup {m}
                /\ m.rq = r /\ m.body = None
                /\ Whole(m)
<1>1. PICK k : Send(rest, {r}) = rest \cup NewRequests(k, {r})
  BY Zenon, SendAdds
<1>2. NewRequests(k, {r}) = {NewRequest(k, r)}
  BY Zenon DEF NewRequests
<1> QED
  BY Zenon, <1>1, <1>2, NewFields

\* An answered request is the same request.
LEMMA AnswerFields ==
  ASSUME NEW q, Whole(q), NEW b
  PROVE  /\ [q EXCEPT !.body = b].rq = q.rq
         /\ [q EXCEPT !.body = b].body = b
         /\ Whole([q EXCEPT !.body = b])
<1>1. PICK k, r, c : q = [k |-> k, rq |-> r, body |-> c]
  BY Zenon DEF Whole
<1>2. [q EXCEPT !.body = b] = [k |-> k, rq |-> r, body |-> b]
  BY <1>1
<1>3. q.rq = r
  BY <1>1
<1> QED
  BY Zenon, <1>2, <1>3 DEF Whole

LEMMA PageSeq ==
  ASSUME ledger \in Nat, NEW from \in Nat
  PROVE  /\ PageAt(from) \in Seq(Int)
         /\ Range(PageAt(from)) = Covered(from)
         /\ IsInjective(PageAt(from))
<1> DEFINE top == ledger - from
           n == IF top < 0 THEN 0 ELSE IF top < Limit THEN top ELSE Limit
           s == [i \in {j \in 1 .. Limit : j <= top} |-> top - i + 1]
<1>1. n \in Nat /\ top \in Int /\ Limit \in Nat /\ Limit > 0
  BY WebPageAssumption
<1>2. {j \in 1 .. Limit : j <= top} = 1 .. n
  BY <1>1
<1>3. s = [i \in 1 .. n |-> top - i + 1]
  BY Zenon, <1>2
<1>4. PageAt(from) = s
  BY Zenon DEF PageAt
<1>6. ASSUME NEW x
      PROVE  x \in Covered(from) <=> \E i \in 1 .. n : x = top - i + 1
  <2>1. ASSUME x \in Covered(from)
        PROVE  \E i \in 1 .. n : x = top - i + 1
    <3>1. x \in 1 .. ledger /\ ledger - from - Limit < x /\ x <= ledger - from
      BY Zenon, <2>1 DEF Covered
    <3>2. top - x + 1 \in 1 .. n /\ x = top - (top - x + 1) + 1
      BY <1>1, <3>1
    <3> QED
      BY Zenon, <3>2
  <2>2. ASSUME NEW i \in 1 .. n, x = top - i + 1
        PROVE  x \in Covered(from)
    <3>1. x \in 1 .. ledger /\ ledger - from - Limit < x /\ x <= ledger - from
      BY <1>1, <2>2
    <3> QED
      BY Zenon, <3>1 DEF Covered
  <2> QED
    BY Zenon, <2>1, <2>2
<1> HIDE DEF n, top, s
<1>7. s \in Seq(Int)
  BY <1>1, <1>3
<1>8. DOMAIN s = 1 .. n /\ \A i \in 1 .. n : s[i] = top - i + 1
  BY Zenon, <1>3
<1>9. Range(s) = Covered(from)
  <2>1. \A x : x \in Range(s) <=> \E i \in 1 .. n : x = s[i]
    BY Zenon, <1>8 DEF Range
  <2>2. ASSUME NEW x \in Range(s)
        PROVE  x \in Covered(from)
    <3>1. PICK i \in 1 .. n : x = s[i]
      BY Zenon, <2>1
    <3>2. x = top - i + 1
      BY Zenon, <1>8, <3>1
    <3> QED
      BY Zenon, <1>6, <3>2
  <2>3. ASSUME NEW x \in Covered(from)
        PROVE  x \in Range(s)
    <3>1. PICK i \in 1 .. n : x = top - i + 1
      BY Zenon, <1>6
    <3>2. x = s[i]
      BY Zenon, <1>8, <3>1
    <3> QED
      BY Zenon, <2>1, <3>2
  <2> QED
    BY Zenon, <2>2, <2>3
<1>10. IsInjective(s)
  <2>1. \A i, j \in 1 .. n : top - i + 1 = top - j + 1 => i = j
    BY <1>1
  <2> QED
    BY Zenon, <1>8, <2>1 DEF IsInjective
<1> QED
  BY Zenon, <1>4, <1>7, <1>9, <1>10

\* The places of a page are those of a sequence.
LEMMA PlacesOf ==
  ASSUME NEW c \in Nat, NEW from \in Nat
  PROVE  \E n \in Nat : /\ {i \in 1 .. Limit : from + i <= c} = 1 .. n
                        /\ c > from => n >= 1
<1> DEFINE n == IF c < from THEN 0
                ELSE IF c - from < Limit THEN c - from ELSE Limit
<1>1. Limit \in Nat /\ Limit > 0
  BY WebPageAssumption
<1>2. n \in Nat /\ {i \in 1 .. Limit : from + i <= c} = 1 .. n
  BY <1>1
<1>3. c > from => n >= 1
  BY <1>1
<1> HIDE DEF n
<1> QED
  BY Zenon, <1>2, <1>3

\* Any page is a sequence, and the first one starts with the newest of what is
\* committed.
LEMMA AnyPage ==
  ASSUME ledger \in Nat, NEW from \in Nat, NEW s \in PagesAt(from)
  PROVE  /\ s \in Seq(Int)
         /\ \A n \in (1 .. ledger) \ pending :
               from = 0 => s # <<>> /\ s[1] >= n
<1>1. PICK visible : visible = (1 .. ledger) \ pending
  BY Zenon
<1>2. IsFiniteSet(1 .. ledger)
  BY FS_Interval
<1>3. IsFiniteSet(visible)
  <2>1. visible \subseteq 1 .. ledger
    BY Zenon, <1>1
  <2> QED
    BY Zenon, <1>2, <2>1, FS_Subset
<1>4. PICK c : c = Cardinality(visible)
  BY Zenon
<1>5. c \in Nat
  BY Zenon, <1>3, <1>4, FS_CardinalityType
<1>6. PICK n \in Nat : /\ {i \in 1 .. Limit : from + i <= c} = 1 .. n
                       /\ c > from => n >= 1
  BY Zenon, <1>5, PlacesOf
<1>7. /\ s \in [1 .. n -> visible]
      /\ \A i \in 1 .. n :
            Cardinality({m \in visible : m > s[i]}) = from + i - 1
  BY Zenon, <1>1, <1>4, <1>6 DEF PagesAt
<1>8. visible \subseteq Int
  BY <1>1
<1>9. s \in Seq(Int)
  <2>1. n \in Nat /\ s \in [1 .. n -> Int]
    BY Zenon, <1>6, <1>7, <1>8
  <2> QED
    BY <2>1
<1>10. ASSUME NEW m \in visible, from = 0
       PROVE  s # <<>> /\ s[1] >= m
  <2>1. c # 0
    BY Zenon, <1>3, <1>4, <1>10, FS_EmptySet
  <2>2. 1 \in 1 .. n /\ from + 1 - 1 = 0
    BY <1>5, <1>6, <1>10, <2>1
  <2>3. Cardinality({k \in visible : k > s[1]}) = 0
    BY Zenon, <1>7, <2>2
  <2>4. IsFiniteSet({k \in visible : k > s[1]})
    <3>1. {k \in visible : k > s[1]} \subseteq visible
      BY Zenon
    <3> QED
      BY Zenon, <1>3, <3>1, FS_Subset
  <2>5. {k \in visible : k > s[1]} = {}
    BY Zenon, <2>3, <2>4, FS_EmptySet
  <2>6. ~(m > s[1])
    BY Zenon, <1>10, <2>5
  <2>7. s[1] \in Int /\ m \in Int
    BY Zenon, <1>7, <1>8, <1>10, <2>2
  <2>8. s[1] >= m
    BY <2>6, <2>7
  <2>9. s # <<>>
    <3>1. 1 \in DOMAIN s
      BY Zenon, <1>7, <2>2
    <3>2. DOMAIN <<>> = {}
      OBVIOUS
    <3> QED
      BY Zenon, <3>1, <3>2
  <2> QED
    BY Zenon, <2>8, <2>9
<1> QED
  BY Zenon, <1>1, <1>9, <1>10

\* While nothing is pending there is one page at an offset.
LEMMA QuietPage ==
  ASSUME ledger \in Nat, pending = {}, NEW from \in Nat, NEW s \in PagesAt(from)
  PROVE  s = PageAt(from)
<1>1. Cardinality(1 .. ledger) = ledger
  BY FS_Interval
<1>2. PICK visible : visible = (1 .. ledger) \ pending
  BY Zenon
<1>3. visible = 1 .. ledger
  BY Zenon, <1>2
<1>4. PICK places :
         /\ places = {i \in 1 .. Limit : from + i <= Cardinality(visible)}
         /\ places = {i \in 1 .. Limit : from + i <= ledger}
  BY Zenon, <1>1, <1>3
<1>5. /\ s \in [places -> visible]
      /\ \A i \in places :
            Cardinality({n \in visible : n > s[i]}) = from + i - 1
  BY Zenon, <1>2, <1>4 DEF PagesAt
<1>6. /\ s \in [places -> 1 .. ledger]
      /\ \A i \in places :
            Cardinality({n \in 1 .. ledger : n > s[i]}) = from + i - 1
  BY Zenon, <1>3, <1>5
<1>7. ASSUME NEW m \in 1 .. ledger
      PROVE  Cardinality({n \in 1 .. ledger : n > m}) = ledger - m
  <2>1. {n \in 1 .. ledger : n > m} = m + 1 .. ledger
    OBVIOUS
  <2>2. m + 1 \in Int /\ ledger \in Int
    OBVIOUS
  <2>3. Cardinality(m + 1 .. ledger)
          = IF m + 1 > ledger THEN 0 ELSE ledger - (m + 1) + 1
    BY Zenon, <2>2, FS_Interval
  <2>4. Cardinality(m + 1 .. ledger) = ledger - m
    BY <2>3
  <2> QED
    BY Zenon, <2>1, <2>4
<1>8. ASSUME NEW i \in places PROVE s[i] = ledger - from - i + 1
  <2>1. s[i] \in 1 .. ledger /\ i \in Int
    BY <1>4, <1>6
  <2>2. ledger - s[i] = from + i - 1
    BY Zenon, <1>6, <1>7, <2>1
  <2> QED
    BY <2>1, <2>2
<1>9. places = {j \in 1 .. Limit : j <= ledger - from}
  BY <1>4, WebPageAssumption
<1>10. s = [i \in places |-> ledger - from - i + 1]
  BY Zenon, <1>6, <1>8
<1> QED
  BY Zenon, <1>9, <1>10 DEF PageAt

\* One page after another.
LEMMA Appended ==
  ASSUME NEW s \in Seq(Int), NEW t \in Seq(Int)
  PROVE  /\ s \o t \in Seq(Int)
         /\ Range(s \o t) = Range(s) \cup Range(t)
         /\ s # <<>> => s \o t # <<>> /\ (s \o t)[1] = s[1]
         /\ IsInjective(s) /\ IsInjective(t) /\ Range(s) \cap Range(t) = {}
               => IsInjective(s \o t)
<1> DEFINE u == s \o t
           m == Len(s)
           n == Len(t)
<1>1. /\ u \in Seq(Int) /\ m \in Nat /\ n \in Nat /\ Len(u) = m + n
      /\ DOMAIN s = 1 .. m /\ DOMAIN t = 1 .. n /\ DOMAIN u = 1 .. m + n
      /\ (s # <<>> => m > 0) /\ (m > 0 => u # <<>>)
  OBVIOUS
<1>2. /\ \A i \in 1 .. m : i \in 1 .. m + n /\ u[i] = s[i]
      /\ \A i \in 1 .. n : i + m \in 1 .. m + n /\ u[i + m] = t[i]
  OBVIOUS
<1>3. \A i \in 1 .. m + n : i \in 1 .. m \/ \E j \in 1 .. n : i = j + m
  <2> SUFFICES ASSUME NEW i \in 1 .. m + n, i \notin 1 .. m
               PROVE  \E j \in 1 .. n : i = j + m
    BY Zenon
  <2>1. i - m \in 1 .. n /\ i = (i - m) + m
    BY <1>1
  <2> QED
    BY Zenon, <2>1
<1> HIDE DEF u, m, n
<1>4. Range(u) = Range(s) \cup Range(t)
  <2>1. ASSUME NEW x \in Range(u)
        PROVE  x \in Range(s) \cup Range(t)
    <3>1. PICK i \in 1 .. m + n : x = u[i]
      BY Zenon, <1>1, <2>1 DEF Range
    <3> QED
      BY Zenon, <1>1, <1>2, <1>3, <3>1 DEF Range
  <2>2. ASSUME NEW x \in Range(s) \cup Range(t)
        PROVE  x \in Range(u)
    BY Zenon, <1>1, <1>2, <2>2 DEF Range
  <2> QED
    BY Zenon, <2>1, <2>2
<1>5. s # <<>> => u # <<>> /\ u[1] = s[1]
  <2> SUFFICES ASSUME s # <<>> PROVE u # <<>> /\ u[1] = s[1]
    OBVIOUS
  <2>1. 1 \in 1 .. m
    BY <1>1
  <2> QED
    BY Zenon, <1>1, <1>2, <2>1
<1>6. ASSUME IsInjective(s), IsInjective(t), Range(s) \cap Range(t) = {}
      PROVE  IsInjective(u)
  <2> SUFFICES ASSUME NEW i \in 1 .. m + n, NEW j \in 1 .. m + n, u[i] = u[j]
               PROVE  i = j
    BY Zenon, <1>1 DEF IsInjective
  <2>1. CASE i \in 1 .. m /\ j \in 1 .. m
    BY Zenon, <1>1, <1>2, <1>6, <2>1 DEF IsInjective
  <2>2. ASSUME NEW a \in 1 .. n, i = a + m, NEW b \in 1 .. n, j = b + m
        PROVE  i = j
    BY ZenonT(30), <1>1, <1>2, <1>6, <2>2 DEF IsInjective
  <2>3. ASSUME NEW x \in 1 .. m, NEW y \in 1 .. n
        PROVE  u[x] # u[y + m]
    <3>1. s[x] \in Range(s) /\ t[y] \in Range(t)
      BY Zenon, <1>1 DEF Range
    <3> QED
      BY Zenon, <1>2, <1>6, <3>1
  <2> QED
    BY Zenon, <1>3, <2>1, <2>2, <2>3
<1> QED
  BY Zenon, <1>1, <1>4, <1>5, <1>6 DEF u

-----------------------------------------------------------------------------
(* The parts of the invariant, one kind of step at a time *)

\* What was a proper request stays one while the ledger and the forms grow.
LEMMA TypesKept ==
  ASSUME PageTypes, ledger' \in Nat, ledger' >= ledger, offset' \in Nat,
         rows' \in Seq(Int), submits' \in Nat, submits' >= submits,
         others' \in Nat, acked' \in 0 .. ledger',
         \A q \in net' : q \notin net => RequestOK(q)'
  PROVE  PageTypes'
<1>1. ledger \in Nat /\ submits \in Nat
  BY Zenon DEF PageTypes
<1>2. ASSUME NEW q \in net PROVE RequestOK(q)'
  <2>1. RequestOK(q)
    BY Zenon DEF PageTypes
  <2>2. \A i : i \in 0 .. submits => i \in 0 .. submits'
    BY <1>1
  <2>3. \A i : i \in 1 .. ledger => i \in 1 .. ledger'
    BY <1>1
  <2> QED
    BY Zenon, <2>1, <2>2, <2>3 DEF RequestOK
<1> QED
  BY Zenon, <1>2 DEF PageTypes

\* Steps that replace nothing and add no replacing read.
LEMMA FreshKept ==
  ASSUME Fresh, net \subseteq net',
         \A q \in net' : q \in net \/ ~IsReplacing(q),
         rows' = rows, acked' = acked
  PROVE  Fresh'
<1>1. \A s : StartsFresh(s) => StartsFresh(s)'
  BY Zenon DEF StartsFresh
<1>2. OnItsWay => OnItsWay'
  BY Zenon DEF OnItsWay
<1>3. StartsFresh(rows) => StartsFresh(rows)'
  BY Zenon DEF StartsFresh
<1> QED
  BY Zenon, <1>1, <1>2, <1>3 DEF Fresh

LEMMA LoneKept ==
  ASSUME LoneRead, \A q \in net' : q \in net \/ ~IsReplacing(q),
         crossed' = crossed
  PROVE  LoneRead'
  BY Zenon DEF LoneRead

LEMMA LoneCrossed ==
  ASSUME CrossedBy(net')
  PROVE  LoneRead' /\ (~crossed' => ~crossed)
  BY Zenon DEF CrossedBy, LoneRead

\* Steps that leave the ledger panel and its requests alone.
LEMMA PagesKept ==
  ASSUME AnswersTrue, FirstRead \/ LaterReads,
         \A q : q.rq.what = "ledger" => (q \in net' <=> q \in net),
         rows' = rows, more' = more, offset' = offset, ledger' = ledger
  PROVE  AnswersTrue' /\ (FirstRead' \/ LaterReads')
<1>1. \A f : PageAt(f)' = PageAt(f) /\ Covered(f)' = Covered(f)
  BY Zenon DEF PageAt, Covered
<1>2. AnswersTrue'
  BY Zenon, <1>1 DEF AnswersTrue
<1>3. FirstRead => FirstRead'
  BY Zenon DEF FirstRead, IsReplacing
<1>4. ASSUME LaterReads PROVE LaterReads'
  <2>1. \A n : (\A q \in net : q.rq.what = "ledger" => n \notin Covered(q.rq.arg))
          <=> (\A q \in net' : q.rq.what = "ledger" => n \notin Covered(q.rq.arg)')
    BY Zenon, <1>1
  <2>2. {n \in 1 .. ledger :
           /\ n > ledger - offset - Limit
           /\ \A q \in net : q.rq.what = "ledger" => n \notin Covered(q.rq.arg)}
      = {n \in 1 .. ledger' :
           /\ n > ledger' - offset' - Limit
           /\ \A q \in net' : q.rq.what = "ledger" => n \notin Covered(q.rq.arg)'}
    BY Zenon, <2>1
  <2> QED
    BY Zenon, <1>4, <2>2 DEF LaterReads
<1> QED
  BY Zenon, <1>2, <1>3, <1>4

\* While no form was submitted nothing is on its way for one.
LEMMA NoFlow ==
  ASSUME PageTypes, submits = 0, NEW q \in net
  PROVE  q.rq.flow = 0 /\ q.rq.what \notin {"post", "accounts"}
<1>1. RequestOK(q)
  BY Zenon DEF PageTypes
<1>2. \A i \in 0 .. submits : i = 0
  OBVIOUS
<1> QED
  BY Zenon, <1>1, <1>2 DEF RequestOK

-----------------------------------------------------------------------------
(* The handlers of clicks, and the other users *)

LEMMA OtherBeginsStep ==
  ASSUME PageInv, OtherBegins
  PROVE  PageInv'
<1>1. /\ others' = others + 1 /\ ledger' = ledger + 1 /\ net' = net
      /\ offset' = offset /\ rows' = rows /\ submits' = submits
      /\ acked' = acked /\ crossed' = crossed /\ failed' = failed
  BY Zenon DEF OtherBegins, Begin, panel
<1>2. /\ ledger \in Nat /\ others \in Nat /\ acked \in 0 .. ledger
      /\ offset \in Nat /\ rows \in Seq(Int) /\ submits \in Nat
  BY Zenon DEF PageInv, PageTypes
<1>3. /\ ledger + 1 \in Nat /\ ledger + 1 >= ledger /\ others + 1 \in Nat
      /\ others + 1 # 0 /\ acked \in 0 .. ledger + 1 /\ submits >= submits
  BY <1>2
<1>4. PageTypes'
  BY Zenon, <1>1, <1>2, <1>3, TypesKept DEF PageInv
<1>5. OneStage' /\ LoneRead'
  BY Zenon, <1>1 DEF PageInv, OneStage, LoneRead
<1>6. Fresh => Fresh'
  BY Zenon, <1>1, FreshKept
<1> QED
  BY Zenon, <1>1, <1>3, <1>4, <1>5, <1>6 DEF PageInv

\* A form is submitted: its flow is a new one.
LEMMA TransferStep ==
  ASSUME PageInv, handleTransfer
  PROVE  PageInv'
<1>0. PICK r : r = Request("post", None, FALSE, submits + 1)
  BY Zenon
<1>1. /\ submits' = submits + 1 /\ ledger' = ledger /\ net' = Send(net, {r})
      /\ offset' = offset /\ rows' = rows /\ others' = others
      /\ acked' = acked /\ crossed' = crossed /\ failed' = failed
  BY Zenon, <1>0 DEF handleTransfer, panel
<1>2. /\ ledger \in Nat /\ others \in Nat /\ acked \in 0 .. ledger
      /\ offset \in Nat /\ rows \in Seq(Int) /\ submits \in Nat
  BY Zenon DEF PageInv, PageTypes
<1>3. /\ submits + 1 \in Nat /\ submits + 1 >= submits /\ submits + 1 # 0
      /\ submits + 1 \in 0 .. submits + 1 /\ ledger >= ledger
      /\ \A i \in 0 .. submits : i # submits + 1
  BY <1>2
<1>4. PICK m : /\ Send(net, {r}) = net \cup {m} /\ m.rq = r /\ m.body = None
               /\ Whole(m)
  BY Zenon, OneSent
<1>5. /\ net' = net \cup {m} /\ m.rq = r /\ m.body = None
      /\ Whole(m)
  BY Zenon, <1>1, <1>4
<1>6. r.what = "post" /\ r.flow = submits + 1
  BY <1>0 DEF Request
<1>7. RequestOK(m)'
  <2>1. m.rq.what = "post" /\ m.rq.flow \in 0 .. submits' /\ m.rq.flow # 0
    BY Zenon, <1>1, <1>3, <1>5, <1>6
  <2>2. "post" # "ledger"
    OBVIOUS
  <2> QED
    BY Zenon, <1>5, <2>1, <2>2 DEF RequestOK
<1>8. PageTypes'
  BY Zenon, <1>1, <1>2, <1>3, <1>5, <1>7, TypesKept DEF PageInv
<1>9. ~IsReplacing(m)
  BY Zenon, <1>5, <1>6 DEF IsReplacing
<1>10. \A q \in net : q.rq.flow # submits + 1
  BY Zenon, <1>3 DEF PageInv, PageTypes, RequestOK
<1>11. OneStage'
  BY ZenonT(30), <1>5, <1>6, <1>10 DEF PageInv, OneStage
<1>12. LoneRead'
  BY Zenon, <1>1, <1>5, <1>9, LoneKept DEF PageInv
<1>13. Fresh => Fresh'
  BY Zenon, <1>1, <1>5, <1>9, FreshKept
<1> QED
  BY Zenon, <1>1, <1>3, <1>8, <1>11, <1>12, <1>13 DEF PageInv

\* The two reads of an account's history that nobody awaits.
LEMMA HistoryStep ==
  ASSUME PageInv, NEW a, loadHistory(a)
  PROVE  PageInv'
<1>1. /\ net' = Send(net, HistoryOf(a, 0)) /\ submits' = submits
      /\ ledger' = ledger /\ offset' = offset /\ rows' = rows /\ more' = more
      /\ others' = others /\ acked' = acked /\ crossed' = crossed
      /\ failed' = failed
  BY Zenon DEF loadHistory, panel
<1>2. /\ ledger \in Nat /\ others \in Nat /\ acked \in 0 .. ledger
      /\ offset \in Nat /\ rows \in Seq(Int) /\ submits \in Nat
  BY Zenon DEF PageInv, PageTypes
<1>3. /\ 0 \in 0 .. submits /\ ledger >= ledger /\ submits >= submits
      /\ "txns" # "ledger" /\ "audit" # "ledger"
  BY <1>2
<1>4. PICK k : Send(net, HistoryOf(a, 0))
                 = net \cup NewRequests(k, HistoryOf(a, 0))
  BY Zenon, SendAdds
<1>5. ASSUME NEW m \in net', m \notin net
      PROVE  /\ m.rq.what \in Tables /\ m.rq.flow = 0 /\ m.body = None
             /\ Whole(m)
  <2>1. PICK t \in Tables : m = NewRequest(k, Request(t, a, FALSE, 0))
    BY Zenon, <1>1, <1>4, <1>5 DEF HistoryOf, NewRequests
  <2>2. PICK r : r = Request(t, a, FALSE, 0)
    BY Zenon
  <2>3. r.what = t /\ r.flow = 0
    BY <2>2 DEF Request
  <2> QED
    BY Zenon, <2>1, <2>2, <2>3, NewFields
<1>6. ASSUME NEW m \in net', m \notin net
      PROVE  /\ m.rq.what \notin {"post", "accounts", "ledger"}
             /\ ~IsReplacing(m) /\ RequestOK(m)'
  <2>1. m.rq.what \notin {"post", "accounts", "ledger"}
    <3>1. m.rq.what \in {"txns", "audit"}
      BY Zenon, <1>5, <1>6 DEF Tables
    <3> QED
      BY <3>1
  <2>2. ~IsReplacing(m)
    BY Zenon, <2>1 DEF IsReplacing
  <2>3. RequestOK(m)'
    BY Zenon, <1>1, <1>3, <1>5, <1>6, <2>1 DEF RequestOK
  <2> QED
    BY Zenon, <2>1, <2>2, <2>3
<1>7. PageTypes'
  BY Zenon, <1>1, <1>2, <1>3, <1>6, TypesKept DEF PageInv
<1>8. OneStage'
  BY Zenon, <1>5 DEF PageInv, OneStage
<1>9. LoneRead'
  BY Zenon, <1>1, <1>6, LoneKept DEF PageInv
<1>10. Fresh => Fresh'
  BY Zenon, <1>1, <1>4, <1>6, FreshKept
<1>11. \A q : q.rq.what = "ledger" => (q \in net' <=> q \in net)
  BY Zenon, <1>1, <1>4, <1>6
<1>12. AnswersTrue /\ (FirstRead \/ LaterReads)
         => AnswersTrue' /\ (FirstRead' \/ LaterReads')
  BY Zenon, <1>1, <1>11, PagesKept
<1> QED
  BY Zenon, <1>1, <1>7, <1>8, <1>9, <1>10, <1>12 DEF PageInv

\* Load more: the next page is asked for before any other step, so the pages
\* on their way stay apart.
LEMMA MoreStep ==
  ASSUME PageInv, loadMoreLedger
  PROVE  PageInv'
<1>1. PICK r : r = Ledger(TRUE, offset', 0)
  BY Zenon
<1>2. /\ more /\ offset' = offset + Limit /\ net' = Send(net, {r})
      /\ submits' = submits /\ ledger' = ledger /\ rows' = rows
      /\ others' = others /\ acked' = acked /\ crossed' = crossed
      /\ failed' = failed
  BY Zenon, <1>1 DEF loadMoreLedger
<1>3. /\ ledger \in Nat /\ others \in Nat /\ acked \in 0 .. ledger
      /\ offset \in Nat /\ rows \in Seq(Int) /\ submits \in Nat
  BY Zenon DEF PageInv, PageTypes
<1>4. /\ offset + Limit \in Nat /\ 0 \in 0 .. submits /\ ledger >= ledger
      /\ submits >= submits /\ Limit \in Nat \ {0}
  BY SMTT(30), <1>3, WebPageAssumption
<1>5. /\ r.what = "ledger" /\ r.append = TRUE /\ r.flow = 0
      /\ r.arg = offset + Limit
  BY <1>1, <1>2 DEF Ledger, Request
<1>6. PICK m : /\ Send(net, {r}) = net \cup {m} /\ m.rq = r /\ m.body = None
               /\ Whole(m)
  BY Zenon, OneSent
<1>7. net' = net \cup {m} /\ ~IsReplacing(m)
  BY Zenon, <1>2, <1>5, <1>6 DEF IsReplacing
<1>8. RequestOK(m)'
  <2>1. "ledger" \notin {"post", "accounts"} /\ r.append
    BY <1>5
  <2> QED
    BY Zenon, <1>2, <1>4, <1>5, <1>6, <2>1 DEF RequestOK
<1>9. PageTypes'
  BY Zenon, <1>2, <1>3, <1>4, <1>7, <1>8, TypesKept DEF PageInv
<1>10. OneStage' /\ LoneRead'
  <2>1. OneStage'
    BY Zenon, <1>5, <1>6, <1>7 DEF PageInv, OneStage
  <2> QED
    BY Zenon, <1>2, <1>7, <2>1, LoneKept DEF PageInv
<1>11. Fresh => Fresh'
  BY Zenon, <1>2, <1>7, FreshKept
<1>12. ASSUME AnswersTrue, LaterReads
       PROVE  AnswersTrue' /\ LaterReads'
  <2>1. \A f : PageAt(f)' = PageAt(f) /\ Covered(f)' = Covered(f)
    BY Zenon, <1>2 DEF PageAt, Covered
  <2>2. AnswersTrue'
    BY Zenon, <1>6, <1>7, <1>12, <2>1 DEF AnswersTrue
  <2>3. ASSUME NEW q \in net', q.rq.what = "ledger"
        PROVE  q.rq.append /\ Limit <= q.rq.arg /\ q.rq.arg <= offset'
    <3>1. CASE q \in net
      <4>1. /\ q.rq.append /\ Limit <= q.rq.arg /\ q.rq.arg <= offset
            /\ q.rq.arg \in Nat
        BY Zenon, <1>12, <2>3, <3>1
           DEF LaterReads, PageInv, PageTypes, RequestOK
      <4>2. q.rq.arg <= offset'
        BY <1>2, <1>3, <1>4, <4>1
      <4> QED
        BY Zenon, <4>1, <4>2
    <3>2. CASE q = m
      <4>1. Limit <= offset + Limit /\ offset + Limit <= offset + Limit
        BY <1>3, <1>4
      <4> QED
        BY Zenon, <1>2, <1>5, <1>6, <3>2, <4>1
    <3> QED
      BY Zenon, <1>7, <3>1, <3>2
  <2>4. ASSUME NEW q \in net, q.rq.what = "ledger"
        PROVE  q.rq.arg + Limit <= m.rq.arg
    <3>1. q.rq.arg <= offset /\ q.rq.arg \in Nat
      BY Zenon, <1>12, <2>4 DEF LaterReads, PageInv, PageTypes, RequestOK
    <3>2. q.rq.arg + Limit <= offset + Limit
      BY <1>3, <1>4, <3>1
    <3> QED
      BY Zenon, <1>5, <1>6, <3>2
  <2>5. \A p, q \in net' :
           p.rq.what = "ledger" /\ q.rq.what = "ledger" /\ p # q
              => p.rq.arg + Limit <= q.rq.arg \/ q.rq.arg + Limit <= p.rq.arg
    BY Zenon, <1>7, <1>12, <2>4 DEF LaterReads
  <2>6. ASSUME NEW n \in 1 .. ledger
        PROVE  /\ n > ledger - offset - Limit
                     => n > ledger - offset' - Limit /\ n \notin Covered(m.rq.arg)
               /\ n > ledger - offset' - Limit /\ n \notin Covered(m.rq.arg)
                     => n > ledger - offset - Limit
    <3>1. n \in Covered(offset + Limit) <=>
             /\ ledger - (offset + Limit) - Limit < n
             /\ n <= ledger - (offset + Limit)
      BY Zenon DEF Covered
    <3>2. m.rq.arg = offset + Limit
      BY Zenon, <1>5, <1>6
    <3>3. n \in Int /\ ledger \in Int /\ offset \in Int /\ Limit \in Int
          /\ Limit > 0
      BY <1>3, <1>4
    <3> HIDE DEF Covered
    <3> QED
      BY <1>2, <3>1, <3>2, <3>3
  <2>7. Range(rows') = {n \in 1 .. ledger' :
                          /\ n > ledger' - offset' - Limit
                          /\ \A q \in net' : q.rq.what = "ledger"
                                                => n \notin Covered(q.rq.arg)'}
    <3>1. ASSUME NEW n \in 1 .. ledger
          PROVE  (/\ n > ledger - offset - Limit
                  /\ \A q \in net : q.rq.what = "ledger"
                                       => n \notin Covered(q.rq.arg))
             <=> (/\ n > ledger - offset' - Limit
                  /\ \A q \in net' : q.rq.what = "ledger"
                                       => n \notin Covered(q.rq.arg)')
      BY Zenon, <1>5, <1>6, <1>7, <2>1, <2>6
    <3>2. {n \in 1 .. ledger :
             /\ n > ledger - offset - Limit
             /\ \A q \in net : q.rq.what = "ledger" => n \notin Covered(q.rq.arg)}
        = {n \in 1 .. ledger :
             /\ n > ledger - offset' - Limit
             /\ \A q \in net' : q.rq.what = "ledger"
                                   => n \notin Covered(q.rq.arg)'}
      BY Zenon, <3>1
    <3> QED
      BY Zenon, <1>2, <1>12, <3>2 DEF LaterReads
  <2>8. IsInjective(rows')
    BY Zenon, <1>2, <1>12 DEF LaterReads
  <2> QED
    BY Zenon, <2>2, <2>3, <2>5, <2>7, <2>8 DEF LaterReads
<1>13. ~FirstRead
  BY Zenon, <1>2 DEF FirstRead
<1> QED
  BY Zenon, <1>2, <1>9, <1>10, <1>11, <1>12, <1>13 DEF PageInv

-----------------------------------------------------------------------------
(* The service answers the page *)

\* The request q becomes p, the same request with an answer or begun.
SameRead(p, q) ==
    /\ p.rq.what = q.rq.what /\ p.rq.flow = q.rq.flow
    /\ IsReplacing(p) <=> IsReplacing(q)

LEMMA AnswerStages ==
  ASSUME PageInv, NEW q \in net, NEW p, SameRead(p, q),
         net' = (net \ {q}) \cup {p}, crossed' = crossed
  PROVE  OneStage' /\ LoneRead'
<1>1. OneStage'
  <2> SUFFICES ASSUME NEW r \in net', NEW s \in net', r # s,
                      r.rq.flow = s.rq.flow, r.rq.flow # 0
               PROVE  r.rq.what \in Tables
    BY Zenon DEF OneStage
  <2>1. \A a, b \in net : a # b /\ a.rq.flow = b.rq.flow /\ a.rq.flow # 0
                              => a.rq.what \in Tables
    BY Zenon DEF PageInv, OneStage
  <2>2. CASE r = p
    <3>1. s \in net /\ s # q
      BY Zenon, <2>2
    <3> QED
      BY Zenon, <2>1, <2>2, <3>1 DEF SameRead
  <2>3. CASE s = p
    <3>1. r \in net /\ r # q
      BY Zenon, <2>3
    <3> QED
      BY Zenon, <2>1, <2>3, <3>1 DEF SameRead
  <2>4. CASE r # p /\ s # p
    BY Zenon, <2>1, <2>4
  <2> QED
    BY Zenon, <2>2, <2>3, <2>4
<1>2. IsReplacing(p) <=> IsReplacing(q)
  BY Zenon DEF SameRead
<1>3. LoneRead'
  BY Zenon, <1>2 DEF PageInv, LoneRead
<1> QED
  BY Zenon, <1>1, <1>3

LEMMA AnswerFresh ==
  ASSUME Fresh, NEW q \in net, NEW p, SameRead(p, q),
         net' = (net \ {q}) \cup {p}, rows' = rows, acked' = acked,
         IsReplacing(q) => StartsFresh(p.body)
  PROVE  Fresh'
<1>1. \A s : StartsFresh(s) => StartsFresh(s)'
  BY Zenon DEF StartsFresh
<1>2. IsReplacing(p) <=> IsReplacing(q)
  BY Zenon DEF SameRead
<1>3. CASE OnItsWay
  <2>1. OnItsWay'
    BY Zenon, <1>3 DEF OnItsWay, SameRead
  <2> QED
    BY Zenon, <2>1 DEF Fresh
<1>4. ASSUME NEW r \in net, IsReplacing(r), r.body = None \/ StartsFresh(r.body)
      PROVE  Fresh'
  <2>1. CASE r = q
    BY Zenon, <1>1, <1>2, <1>4, <2>1 DEF Fresh
  <2>2. CASE r # q
    BY Zenon, <1>1, <1>4, <2>2 DEF Fresh
  <2> QED
    BY Zenon, <2>1, <2>2
<1>5. CASE StartsFresh(rows) /\ \A r \in net : ~IsReplacing(r)
  <2>1. StartsFresh(rows)'
    BY Zenon, <1>5 DEF StartsFresh
  <2> QED
    BY Zenon, <1>2, <1>5, <2>1 DEF Fresh
<1> QED
  BY Zenon, <1>3, <1>4, <1>5 DEF Fresh

LEMMA AnswerPages ==
  ASSUME AnswersTrue, FirstRead \/ LaterReads, NEW q \in net, NEW p,
         p.rq = q.rq, q.rq.what = "ledger", p.body = PageAt(q.rq.arg),
         net' = (net \ {q}) \cup {p},
         rows' = rows, more' = more, offset' = offset, ledger' = ledger
  PROVE  AnswersTrue' /\ (FirstRead' \/ LaterReads')
<1>1. \A f : PageAt(f)' = PageAt(f) /\ Covered(f)' = Covered(f)
  BY Zenon DEF PageAt, Covered
<1>2. AnswersTrue'
  BY Zenon, <1>1 DEF AnswersTrue
<1>3. IsReplacing(p) <=> IsReplacing(q)
  BY Zenon DEF IsReplacing
<1>4. ASSUME FirstRead PROVE FirstRead'
  <2>1. IsReplacing(q) /\ \A r \in net : r.rq.what = "ledger" => r = q
    BY Zenon, <1>4 DEF FirstRead
  <2>2. \A r \in net' : r.rq.what = "ledger" => r = p
    BY Zenon, <2>1
  <2> QED
    BY Zenon, <1>3, <1>4, <2>1, <2>2 DEF FirstRead
<1>5. ASSUME LaterReads PROVE LaterReads'
  <2>1. \A n : (\A r \in net : r.rq.what = "ledger" => n \notin Covered(r.rq.arg))
          <=> (\A r \in net' : r.rq.what = "ledger" => n \notin Covered(r.rq.arg)')
    BY Zenon, <1>1
  <2>2. {n \in 1 .. ledger :
           /\ n > ledger - offset - Limit
           /\ \A r \in net : r.rq.what = "ledger" => n \notin Covered(r.rq.arg)}
      = {n \in 1 .. ledger' :
           /\ n > ledger' - offset' - Limit
           /\ \A r \in net' : r.rq.what = "ledger" => n \notin Covered(r.rq.arg)'}
    BY Zenon, <2>1
  <2>3. \A r \in net' : r.rq.what = "ledger" =>
           r.rq.append /\ Limit <= r.rq.arg /\ r.rq.arg <= offset'
    BY Zenon, <1>5 DEF LaterReads
  <2>4. \A r, s \in net' :
           r.rq.what = "ledger" /\ s.rq.what = "ledger" /\ r # s
              => r.rq.arg + Limit <= s.rq.arg \/ s.rq.arg + Limit <= r.rq.arg
    BY ZenonT(30), <1>5 DEF LaterReads
  <2> QED
    BY Zenon, <1>5, <2>2, <2>3, <2>4 DEF LaterReads
<1> QED
  BY Zenon, <1>2, <1>4, <1>5

LEMMA ServesBody ==
  ASSUME NEW q, Serves(q)
  PROVE  \E b : /\ q.rq.what = "post" => b = <<q.rq.arg>>
                /\ q.rq.what = "ledger" => b \in PagesAt(q.rq.arg)
                /\ net' = (net \ {q}) \cup {[q EXCEPT !.body = b]}
<1>1. "post" # "ledger"
  OBVIOUS
<1>2. CASE q.rq.what = "post"
  BY Zenon, <1>1, <1>2 DEF Serves
<1>3. CASE q.rq.what = "ledger"
  BY Zenon, <1>1, <1>3 DEF Serves
<1>4. CASE q.rq.what # "post" /\ q.rq.what # "ledger"
  BY Zenon, <1>4 DEF Serves
<1> QED
  BY Zenon, <1>2, <1>3, <1>4

LEMMA ServesStep ==
  ASSUME PageInv, Committed, NEW q \in net, Serves(q)
  PROVE  PageInv'
<1>1. /\ q.body = None /\ ledger' = ledger
      /\ q.rq.what = "post" => q.rq.arg # None
      /\ offset' = offset /\ rows' = rows /\ more' = more /\ submits' = submits
      /\ others' = others /\ acked' = acked /\ crossed' = crossed
      /\ failed' = failed
  BY Zenon DEF Serves, panel, budget
<1>2. /\ ledger \in Nat /\ others \in Nat /\ acked \in 0 .. ledger
      /\ offset \in Nat /\ rows \in Seq(Int) /\ submits \in Nat /\ RequestOK(q)
  BY Zenon DEF PageInv, PageTypes
<1>3. ledger >= ledger /\ submits >= submits
  BY <1>2
<1>4. PICK b : /\ q.rq.what = "post" => b = <<q.rq.arg>>
               /\ q.rq.what = "ledger" => b \in PagesAt(q.rq.arg)
               /\ net' = (net \ {q}) \cup {[q EXCEPT !.body = b]}
  BY Zenon, ServesBody
<1>5. PICK p : p = [q EXCEPT !.body = b]
  BY Zenon
<1>6. /\ net' = (net \ {q}) \cup {p} /\ p.rq = q.rq /\ p.body = b /\ Whole(p)
  BY Zenon, <1>2, <1>4, <1>5, AnswerFields DEF RequestOK
<1>7. RequestOK(p)'
  <2>1. ASSUME p.rq.what = "post" PROVE p.body[1] \in 1 .. ledger'
    <3>1. \A n : <<n>>[1] = n
      OBVIOUS
    <3>2. q.rq.arg \in 1 .. ledger
      BY Zenon, <1>1, <1>6, <2>1 DEF Committed
    <3> QED
      BY Zenon, <1>1, <1>4, <1>6, <2>1, <3>1, <3>2
  <2>2. ASSUME p.rq.what = "ledger"
        PROVE  /\ p.rq.arg \in Nat /\ (~p.rq.append => p.rq.arg = 0)
               /\ p.body \in Seq(Int)
    <3>1. q.rq.arg \in Nat /\ (~q.rq.append => q.rq.arg = 0)
      BY Zenon, <1>2, <1>6, <2>2 DEF RequestOK
    <3> QED
      BY Zenon, <1>2, <1>4, <1>6, <2>2, <3>1, AnyPage
  <2> QED
    BY Zenon, <1>1, <1>2, <1>6, <2>1, <2>2 DEF RequestOK
<1>8. PageTypes'
  BY Zenon, <1>1, <1>2, <1>3, <1>6, <1>7, TypesKept DEF PageInv
<1>9. SameRead(p, q)
  BY Zenon, <1>6 DEF SameRead, IsReplacing
<1>10. OneStage' /\ LoneRead'
  BY Zenon, <1>1, <1>6, <1>9, AnswerStages
<1>11. ASSUME acked > 0, Fresh PROVE Fresh'
  <2>1. ASSUME IsReplacing(q) PROVE StartsFresh(p.body)
    <3>1. q.rq.what = "ledger" /\ q.rq.arg = 0 /\ q.rq.arg \in Nat
      BY Zenon, <1>2, <2>1 DEF IsReplacing, RequestOK
    <3>2. acked \in 1 .. ledger
      BY <1>2, <1>11
    <3>3. acked \in (1 .. ledger) \ pending
      BY Zenon, <3>2 DEF Committed
    <3> QED
      BY Zenon, <1>2, <1>4, <1>6, <3>1, <3>3, AnyPage DEF StartsFresh
  <2> QED
    BY Zenon, <1>1, <1>6, <1>9, <1>11, <2>1, AnswerFresh
<1>12. ASSUME submits = 0, others = 0, AnswersTrue, FirstRead \/ LaterReads
       PROVE  AnswersTrue' /\ (FirstRead' \/ LaterReads')
  <2>1. CASE q.rq.what = "ledger"
    <3>1. q.rq.arg \in Nat /\ pending = {}
      BY Zenon, <1>2, <1>12, <2>1 DEF RequestOK, Committed
    <3>2. b = PageAt(q.rq.arg)
      BY Zenon, <1>2, <1>4, <2>1, <3>1, QuietPage
    <3> QED
      BY Zenon, <1>1, <1>6, <1>12, <2>1, <3>2, AnswerPages
  <2>2. CASE q.rq.what # "ledger"
    <3>1. \A r : r.rq.what = "ledger" => (r \in net' <=> r \in net)
      BY Zenon, <1>6, <2>2
    <3> QED
      BY Zenon, <1>1, <1>12, <3>1, PagesKept
  <2> QED
    BY Zenon, <2>1, <2>2
<1> QED
  BY Zenon, <1>1, <1>8, <1>10, <1>11, <1>12 DEF PageInv

\* The transaction of a submitted form begins.
LEMMA BegunFields ==
  ASSUME NEW q, Whole(q), NEW r
  PROVE  /\ [q EXCEPT !.rq = r].rq = r
         /\ [q EXCEPT !.rq = r].body = q.body
         /\ Whole([q EXCEPT !.rq = r])
<1>1. PICK k, o, c : q = [k |-> k, rq |-> o, body |-> c]
  BY Zenon DEF Whole
<1>2. [q EXCEPT !.rq = r] = [k |-> k, rq |-> r, body |-> c]
  BY <1>1
<1>3. q.body = c
  BY <1>1
<1> QED
  BY Zenon, <1>2, <1>3 DEF Whole

LEMMA BegunPost ==
  ASSUME PageInv, NEW q \in net, Begins(q)
  PROVE  \E p : /\ net' = (net \ {q}) \cup {p} /\ Whole(p)
                /\ p.body = q.body /\ p.rq.what = "post"
                /\ p.rq.flow = q.rq.flow /\ p.rq.arg = ledger + 1
<1>1. PICK r : r = Request("post", ledger', FALSE, q.rq.flow)
  BY Zenon
<1>2. r.what = "post" /\ r.flow = q.rq.flow /\ r.arg = ledger'
  BY <1>1 DEF Request
<1>3. ledger' = ledger + 1
  BY Zenon DEF Begins, Begin
<1>4. PICK p : p = [q EXCEPT !.rq = r]
  BY Zenon
<1>5. Whole(q)
  BY Zenon DEF PageInv, PageTypes, RequestOK
<1>6. p.rq = r /\ p.body = q.body /\ Whole(p)
  BY Zenon, <1>4, <1>5, BegunFields
<1>7. net' = (net \ {q}) \cup {p}
  BY Zenon, <1>1, <1>4 DEF Begins
<1> QED
  BY Zenon, <1>2, <1>3, <1>6, <1>7

LEMMA BeginsStep ==
  ASSUME PageInv, NEW q \in net, Begins(q)
  PROVE  PageInv'
<1>1. /\ q.rq.what = "post" /\ ledger' = ledger + 1
      /\ offset' = offset /\ rows' = rows /\ submits' = submits
      /\ others' = others /\ acked' = acked /\ crossed' = crossed
      /\ failed' = failed
  BY Zenon DEF Begins, Begin, panel, budget
<1>2. /\ ledger \in Nat /\ others \in Nat /\ acked \in 0 .. ledger
      /\ offset \in Nat /\ rows \in Seq(Int) /\ submits \in Nat /\ RequestOK(q)
      /\ q.rq.flow \in 0 .. submits /\ q.rq.flow # 0
  BY Zenon, <1>1 DEF PageInv, PageTypes, RequestOK
<1>3. /\ ledger + 1 \in Nat /\ ledger + 1 >= ledger /\ submits >= submits
      /\ acked \in 0 .. ledger + 1 /\ submits # 0
      /\ \A n \in 1 .. ledger : n \in 1 .. ledger + 1
  BY <1>2
<1>4. PICK p : /\ net' = (net \ {q}) \cup {p} /\ Whole(p)
               /\ p.body = q.body /\ p.rq.what = "post"
               /\ p.rq.flow = q.rq.flow
  BY Zenon, BegunPost
<1>5. "post" # "ledger"
  OBVIOUS
<1>6. RequestOK(p)'
  BY Zenon, <1>1, <1>2, <1>3, <1>4, <1>5 DEF RequestOK
<1>7. PageTypes'
  BY Zenon, <1>1, <1>2, <1>3, <1>4, <1>6, TypesKept DEF PageInv
<1>8. SameRead(p, q) /\ ~IsReplacing(q)
  BY Zenon, <1>1, <1>4, <1>5 DEF SameRead, IsReplacing
<1>9. OneStage' /\ LoneRead'
  BY Zenon, <1>1, <1>4, <1>8, AnswerStages
<1>10. Fresh => Fresh'
  BY Zenon, <1>1, <1>4, <1>8, AnswerFresh
<1> QED
  BY Zenon, <1>1, <1>3, <1>7, <1>9, <1>10 DEF PageInv

-----------------------------------------------------------------------------
(* Answers arrive, or do not *)

LEMMA RenderFresh ==
  ASSUME PageInv, Fresh, ~crossed, NEW q \in net, q.rq.what = "ledger",
         q.body # None, rows' = IF q.rq.append THEN rows \o q.body ELSE q.body,
         net' = net \ {q}, acked' = acked
  PROVE  Fresh'
<1>1. \A s : StartsFresh(s) => StartsFresh(s)'
  BY Zenon DEF StartsFresh
<1>2. rows \in Seq(Int) /\ q.body \in Seq(Int)
  BY Zenon DEF PageInv, PageTypes, RequestOK
<1>3. CASE OnItsWay
  <2>1. PICK r \in net : /\ r.rq.what \in {"accounts"} \cup Tables
                         /\ r.rq.flow # 0
    BY Zenon, <1>3 DEF OnItsWay
  <2>2. "ledger" \notin {"accounts"} \cup Tables
    BY DEF Tables
  <2>3. OnItsWay'
    BY Zenon, <2>1, <2>2 DEF OnItsWay
  <2> QED
    BY Zenon, <2>3 DEF Fresh
<1>4. ASSUME NEW r \in net, IsReplacing(r), r.body = None \/ StartsFresh(r.body)
      PROVE  Fresh'
  <2>1. CASE r = q
    <3>1. rows' = q.body
      BY Zenon, <1>4, <2>1 DEF IsReplacing
    <3>2. StartsFresh(rows)'
      BY Zenon, <1>4, <2>1, <3>1 DEF StartsFresh
    <3>3. \A s \in net' : ~IsReplacing(s)
      BY Zenon, <1>4, <2>1 DEF PageInv, LoneRead
    <3> QED
      BY Zenon, <3>2, <3>3 DEF Fresh
  <2>2. CASE r # q
    BY Zenon, <1>1, <1>4, <2>2 DEF Fresh
  <2> QED
    BY Zenon, <2>1, <2>2
<1>5. ASSUME StartsFresh(rows), \A r \in net : ~IsReplacing(r)
      PROVE  Fresh'
  <2>1. rows' = rows \o q.body
    BY Zenon, <1>5 DEF IsReplacing
  <2>2. rows' # <<>> /\ rows'[1] = rows[1]
    BY ZenonT(30), <1>2, <1>5, <2>1, Appended DEF StartsFresh
  <2>3. StartsFresh(rows)'
    BY Zenon, <1>5, <2>2 DEF StartsFresh
  <2> QED
    BY Zenon, <1>5, <2>3 DEF Fresh
<1> QED
  BY Zenon, <1>3, <1>4, <1>5 DEF Fresh

\* The first page: nothing else is on its way, and it is all down to Limit.
LEMMA RenderFirst ==
  ASSUME PageInv, AnswersTrue, FirstRead, NEW q \in net, q.rq.what = "ledger",
         q.body # None, rows' = IF q.rq.append THEN rows \o q.body ELSE q.body,
         net' = net \ {q}, offset' = offset, ledger' = ledger
  PROVE  LaterReads'
<1>1. /\ IsReplacing(q) /\ offset = 0
      /\ \A r \in net : r.rq.what = "ledger" => r = q
  BY Zenon DEF FirstRead
<1>2. ledger \in Nat /\ q.rq.arg = 0 /\ q.rq.arg \in Nat
  BY Zenon, <1>1 DEF PageInv, PageTypes, RequestOK, IsReplacing
<1>3. rows' = PageAt(0)
  BY Zenon, <1>1, <1>2 DEF AnswersTrue, IsReplacing
<1>4. Range(rows') = Covered(0) /\ IsInjective(rows')
  BY Zenon, <1>2, <1>3, PageSeq
<1>5. \A n \in 1 .. ledger :
         ledger - 0 - Limit < n /\ n <= ledger - 0 <=> n > ledger - 0 - Limit
  BY <1>2, WebPageAssumption
<1>6. Covered(0) = {n \in 1 .. ledger : n > ledger - 0 - Limit}
  BY Zenon, <1>5 DEF Covered
<1>7. \A r \in net' : r.rq.what # "ledger"
  BY Zenon, <1>1
<1>8. {n \in 1 .. ledger : n > ledger - 0 - Limit}
    = {n \in 1 .. ledger' :
         /\ n > ledger' - offset' - Limit
         /\ \A r \in net' : r.rq.what = "ledger" => n \notin Covered(r.rq.arg)'}
  BY Zenon, <1>1, <1>7
<1> QED
  BY Zenon, <1>4, <1>6, <1>7, <1>8 DEF LaterReads

\* A later page: it covers what was missing on its account, and nothing shown.
LEMMA RenderLater ==
  ASSUME PageInv, AnswersTrue, LaterReads, NEW q \in net, q.rq.what = "ledger",
         q.body # None, rows' = IF q.rq.append THEN rows \o q.body ELSE q.body,
         net' = net \ {q}, offset' = offset, ledger' = ledger
  PROVE  LaterReads'
<1>1. \A f : Covered(f)' = Covered(f)
  BY Zenon DEF Covered
<1>2. /\ ledger \in Nat /\ rows \in Seq(Int) /\ offset \in Nat
      /\ \A r \in net : r.rq.what = "ledger" => r.rq.arg \in Nat
      /\ q.body \in Seq(Int)
  BY Zenon DEF PageInv, PageTypes, RequestOK
<1>3. /\ \A r \in net : r.rq.what = "ledger" =>
            r.rq.append /\ Limit <= r.rq.arg /\ r.rq.arg <= offset
      /\ \A r, s \in net :
            r.rq.what = "ledger" /\ s.rq.what = "ledger" /\ r # s
               => r.rq.arg + Limit <= s.rq.arg \/ s.rq.arg + Limit <= r.rq.arg
      /\ IsInjective(rows)
  BY Zenon DEF LaterReads
<1> DEFINE Shown(reads) ==
             {n \in 1 .. ledger :
                /\ n > ledger - offset - Limit
                /\ \A r \in reads : r.rq.what = "ledger"
                                       => n \notin Covered(r.rq.arg)}
<1>4. Range(rows) = Shown(net)
  BY Zenon DEF LaterReads
<1>5. q.body = PageAt(q.rq.arg)
  BY Zenon DEF AnswersTrue
<1>6. Range(q.body) = Covered(q.rq.arg) /\ IsInjective(q.body)
  BY Zenon, <1>2, <1>5, PageSeq
<1>7. rows' = rows \o q.body
  BY Zenon, <1>3
<1>8. ASSUME NEW n \in 1 .. ledger, n \in Covered(q.rq.arg)
      PROVE  /\ n > ledger - offset - Limit
             /\ \A r \in net \ {q} : r.rq.what = "ledger"
                                       => n \notin Covered(r.rq.arg)
  <2>1. PICK x : x = q.rq.arg
    BY Zenon
  <2>2. x \in Nat /\ x <= offset
    BY Zenon, <1>2, <1>3, <2>1
  <2>3. ledger - x - Limit < n /\ n <= ledger - x
    BY Zenon, <1>8, <2>1 DEF Covered
  <2>4. n > ledger - offset - Limit
    BY <1>2, <2>2, <2>3, WebPageAssumption
  <2>5. ASSUME NEW r \in net \ {q}, r.rq.what = "ledger"
        PROVE  n \notin Covered(r.rq.arg)
    <3>1. PICK y : y = r.rq.arg
      BY Zenon
    <3>2. y \in Nat /\ (x + Limit <= y \/ y + Limit <= x)
      BY ZenonT(30), <1>2, <1>3, <2>1, <2>5, <3>1
    <3>3. ~(ledger - y - Limit < n /\ n <= ledger - y)
      BY SMTT(30), <1>2, <2>2, <2>3, <3>2, WebPageAssumption
    <3> QED
      BY Zenon, <3>1, <3>3 DEF Covered
  <2> QED
    BY Zenon, <2>4, <2>5
<1>9. Shown(net) \cup Covered(q.rq.arg) = Shown(net \ {q})
  <2>1. \A n \in Covered(q.rq.arg) : n \in 1 .. ledger
    BY Zenon DEF Covered
  <2> QED
    BY Zenon, <1>8, <2>1
<1>10. Shown(net) \cap Covered(q.rq.arg) = {}
  BY Zenon
<1>11. Range(rows') = Shown(net \ {q}) /\ IsInjective(rows')
  <2>1. Range(rows) \cap Range(q.body) = {}
    BY Zenon, <1>4, <1>6, <1>10
  <2>2. Range(rows \o q.body) = Range(rows) \cup Range(q.body)
    BY Zenon, <1>2, Appended
  <2>3. IsInjective(rows \o q.body)
    BY Zenon, <1>2, <1>3, <1>6, <2>1, Appended
  <2> QED
    BY Zenon, <1>4, <1>6, <1>7, <1>9, <2>2, <2>3
<1>12. Shown(net \ {q}) =
         {n \in 1 .. ledger' :
            /\ n > ledger' - offset' - Limit
            /\ \A r \in net' : r.rq.what = "ledger"
                                  => n \notin Covered(r.rq.arg)'}
  BY Zenon, <1>1
<1> HIDE DEF Shown
<1> QED
  BY Zenon, <1>3, <1>11, <1>12 DEF LaterReads

LEMMA RenderStep ==
  ASSUME PageInv, NEW q \in net, q.rq.what = "ledger", Delivered(q)
  PROVE  PageInv'
<1>1. /\ q.body # None /\ net' = net \ {q} /\ CrossedBy(net')
      /\ rows' = IF q.rq.append THEN rows \o q.body ELSE q.body
      /\ offset' = offset /\ ledger' = ledger /\ submits' = submits
      /\ others' = others /\ acked' = acked /\ failed' = failed
  <2>1. "ledger" # "post"
    OBVIOUS
  <2> QED
    BY Zenon, <2>1 DEF Delivered, RenderLedger, budget
<1>2. /\ ledger \in Nat /\ others \in Nat /\ acked \in 0 .. ledger
      /\ offset \in Nat /\ rows \in Seq(Int) /\ submits \in Nat
      /\ q.body \in Seq(Int)
  BY Zenon, <1>1 DEF PageInv, PageTypes, RequestOK
<1>3. rows' \in Seq(Int)
  BY Zenon, <1>1, <1>2, Appended
<1>4. ledger >= ledger /\ submits >= submits
  BY <1>2
<1>5. PageTypes'
  BY Zenon, <1>1, <1>2, <1>3, <1>4, TypesKept DEF PageInv
<1>6. OneStage'
  BY Zenon, <1>1 DEF PageInv, OneStage
<1>7. LoneRead' /\ (~crossed' => ~crossed)
  BY Zenon, <1>1, LoneCrossed
<1>8. ~crossed /\ Fresh => Fresh'
  BY Zenon, <1>1, RenderFresh
<1>9. ASSUME AnswersTrue, FirstRead \/ LaterReads
      PROVE  AnswersTrue' /\ LaterReads'
  <2>1. \A f : PageAt(f)' = PageAt(f)
    BY Zenon, <1>1 DEF PageAt
  <2>2. AnswersTrue'
    BY Zenon, <1>1, <1>9, <2>1 DEF AnswersTrue
  <2>3. LaterReads'
    BY Zenon, <1>1, <1>9, RenderFirst, RenderLater
  <2> QED
    BY Zenon, <2>2, <2>3
<1> QED
  BY Zenon, <1>1, <1>5, <1>6, <1>7, <1>8, <1>9 DEF PageInv

\* A posted form: its handler asks for the accounts next.
LEMMA PostedStep ==
  ASSUME PageInv, NEW q \in net, q.rq.what = "post", Delivered(q)
  PROVE  PageInv'
<1>1. PICK r : r = Request("accounts", None, FALSE, q.rq.flow)
  BY Zenon
<1>2. "post" # "ledger" /\ "post" # "accounts" /\ "post" \notin Tables
  BY DEF Tables
<1>3. /\ q.body # None /\ net' = Send(net \ {q}, {r}) /\ CrossedBy(net')
      /\ acked' = IF q.body[1] > acked THEN q.body[1] ELSE acked
      /\ offset' = offset /\ rows' = rows
      /\ ledger' = ledger /\ submits' = submits
      /\ others' = others /\ failed' = failed
  <2>1. Continue(q, net \ {q})
    BY Zenon, <1>2 DEF Delivered
  <2>2. net' = Send(net \ {q}, {r}) /\ offset' = offset /\ rows' = rows
    BY Zenon, <1>1, <1>2, <2>1 DEF Continue, panel
  <2> QED
    BY Zenon, <2>2 DEF Delivered, budget
<1>4. /\ ledger \in Nat /\ others \in Nat /\ acked \in 0 .. ledger
      /\ offset \in Nat /\ rows \in Seq(Int) /\ submits \in Nat
      /\ RequestOK(q) /\ q.body[1] \in 1 .. ledger
      /\ q.rq.flow \in 0 .. submits /\ q.rq.flow # 0
  BY Zenon, <1>3 DEF PageInv, PageTypes, RequestOK
<1>5. acked' \in 0 .. ledger
  <2>1. PICK n : n = q.body[1]
    BY Zenon
  <2>2. n \in 0 .. ledger
    BY SMTT(30), <1>4, <2>1
  <2> QED
    BY Zenon, <1>3, <1>4, <2>1, <2>2
<1>6. r.what = "accounts" /\ r.flow = q.rq.flow
  BY <1>1 DEF Request
<1>7. PICK m : /\ Send(net \ {q}, {r}) = (net \ {q}) \cup {m}
               /\ m.rq = r /\ m.body = None /\ Whole(m)
  BY Zenon, OneSent
<1>8. net' = (net \ {q}) \cup {m}
  BY Zenon, <1>3, <1>7
<1>9. RequestOK(m)'
  <2>1. "accounts" # "post" /\ "accounts" # "ledger"
    OBVIOUS
  <2> QED
    BY Zenon, <1>3, <1>4, <1>6, <1>7, <2>1 DEF RequestOK
<1>10. PageTypes'
  <2>1. ledger >= ledger /\ submits >= submits
    BY <1>4
  <2> QED
    BY ZenonT(30), <1>3, <1>4, <1>5, <1>8, <1>9, <2>1, TypesKept DEF PageInv
<1>11. OneStage'
  <2>1. \A s \in net \ {q} : s.rq.flow # q.rq.flow
    BY Zenon, <1>2, <1>4 DEF PageInv, OneStage
  <2> QED
    BY Zenon, <1>6, <1>7, <1>8, <2>1 DEF PageInv, OneStage
<1>12. LoneRead' /\ (~crossed' => ~crossed)
  BY Zenon, <1>3, LoneCrossed
<1>13. Fresh'
  <2>1. OnItsWay'
    BY ZenonT(30), <1>4, <1>6, <1>7, <1>8 DEF OnItsWay
  <2> QED
    BY Zenon, <2>1 DEF Fresh
<1>14. submits' # 0
  BY <1>3, <1>4
<1> QED
  BY Zenon, <1>10, <1>11, <1>12, <1>13, <1>14 DEF PageInv

\* What the steps that follow the accounts and the history leave alone.
Aside ==
    /\ ledger' = ledger /\ submits' = submits /\ others' = others
    /\ acked' = acked /\ (failed' <=> failed) /\ CrossedBy(net')

\* The last answer its handler waits for: the panel is read afresh.
LEMMA ResetStep ==
  ASSUME PageInv, NEW q \in net, q.rq.flow # 0,
         \A r \in net \ {q} : r.rq.flow # q.rq.flow,
         ResetLedger(net \ {q}, q.rq.flow), Aside
  PROVE  PageInv'
<1>1. PICK r : r = Ledger(FALSE, 0, q.rq.flow)
  BY Zenon
<1>2. net' = Send(net \ {q}, {r}) /\ offset' = 0 /\ rows' = <<>>
  BY Zenon, <1>1 DEF ResetLedger
<1>3. /\ ledger \in Nat /\ others \in Nat /\ acked \in 0 .. ledger
      /\ submits \in Nat /\ q.rq.flow \in 0 .. submits
  BY Zenon DEF PageInv, PageTypes, RequestOK
<1>4. /\ r.what = "ledger" /\ r.append = FALSE /\ r.flow = q.rq.flow
      /\ r.arg = 0
  BY <1>1 DEF Ledger, Request
<1>5. PICK m : /\ Send(net \ {q}, {r}) = (net \ {q}) \cup {m}
               /\ m.rq = r /\ m.body = None /\ Whole(m)
  BY Zenon, OneSent
<1>6. net' = (net \ {q}) \cup {m}
  BY Zenon, <1>2, <1>5
<1>7. RequestOK(m)'
  <2>1. "ledger" # "post" /\ "ledger" # "accounts" /\ 0 \in Nat
    OBVIOUS
  <2> QED
    BY Zenon, <1>3, <1>4, <1>5, <2>1 DEF RequestOK, Aside
<1>8. PageTypes'
  <2>1. /\ ledger >= ledger /\ submits >= submits /\ 0 \in Nat
        /\ <<>> \in Seq(Int)
    BY <1>3
  <2> QED
    BY Zenon, <1>2, <1>3, <1>6, <1>7, <2>1, TypesKept DEF PageInv, Aside
<1>9. OneStage'
  BY Zenon, <1>4, <1>5, <1>6 DEF PageInv, OneStage
<1>10. LoneRead'
  BY Zenon, LoneCrossed DEF Aside
<1>11. Fresh'
  <2>1. IsReplacing(m)
    BY SMTT(30), <1>4, <1>5 DEF IsReplacing
  <2> QED
    BY Zenon, <1>5, <1>6, <2>1 DEF Fresh
<1>12. submits' # 0
  BY <1>3 DEF Aside
<1> QED
  BY Zenon, <1>8, <1>9, <1>10, <1>11, <1>12 DEF PageInv

\* The accounts were read, and the open history is next.
LEMMA ReopenStep ==
  ASSUME PageInv, NEW q \in net, q.rq.flow # 0,
         \A r \in net \ {q} : r.rq.flow # q.rq.flow, NEW a,
         net' = Send(net \ {q}, HistoryOf(a, q.rq.flow)), UNCHANGED panel, Aside
  PROVE  PageInv'
<1>1. PICK f : f = q.rq.flow
  BY Zenon
<1>2. PICK k : net' = (net \ {q}) \cup NewRequests(k, HistoryOf(a, f))
  BY Zenon, <1>1, SendAdds
<1>3. /\ ledger \in Nat /\ others \in Nat /\ acked \in 0 .. ledger
      /\ submits \in Nat /\ f \in 0 .. submits /\ f # 0
      /\ offset \in Nat /\ rows \in Seq(Int)
  BY Zenon, <1>1 DEF PageInv, PageTypes, RequestOK
<1>4. ASSUME NEW m \in net', m \notin net \ {q}
      PROVE  m.rq.what \in Tables /\ m.rq.flow = f /\ m.body = None /\ Whole(m)
  <2>1. PICK t \in Tables : m = NewRequest(k, Request(t, a, FALSE, f))
    BY Zenon, <1>2, <1>4 DEF HistoryOf, NewRequests
  <2>2. PICK r : r = Request(t, a, FALSE, f)
    BY Zenon
  <2>3. r.what = t /\ r.flow = f
    BY <2>2 DEF Request
  <2> QED
    BY ZenonT(30), <2>1, <2>2, <2>3, NewFields
<1>5. ASSUME NEW m \in net', m \notin net \ {q}
      PROVE  RequestOK(m)'
  <2>1. m.rq.what \in Tables /\ m.rq.flow = f /\ m.body = None /\ Whole(m)
    BY Zenon, <1>4, <1>5
  <2>2. m.rq.what \notin {"post", "accounts", "ledger"}
    <3>1. m.rq.what \in {"txns", "audit"}
      BY Zenon, <2>1 DEF Tables
    <3> QED
      BY <3>1
  <2> QED
    BY Zenon, <1>3, <2>1, <2>2 DEF RequestOK, Aside
<1>6. PageTypes'
  <2>1. ledger >= ledger /\ submits >= submits
    BY <1>3
  <2> QED
    BY Zenon, <1>3, <1>5, <2>1, TypesKept DEF PageInv, Aside, panel
<1>7. OneStage'
  <2> SUFFICES ASSUME NEW r \in net', NEW s \in net', r # s,
                      r.rq.flow = s.rq.flow, r.rq.flow # 0
               PROVE  r.rq.what \in Tables
    BY Zenon DEF OneStage
  <2>1. CASE r \notin net \ {q}
    BY Zenon, <1>4, <2>1
  <2>2. CASE r \in net \ {q} /\ s \notin net \ {q}
    BY Zenon, <1>1, <1>4, <2>2
  <2>3. CASE r \in net \ {q} /\ s \in net \ {q}
    BY Zenon, <2>3 DEF PageInv, OneStage
  <2> QED
    BY Zenon, <2>1, <2>2, <2>3
<1>8. LoneRead'
  BY Zenon, LoneCrossed DEF Aside
<1>9. Fresh'
  <2>1. PICK r : r = Request("txns", a, FALSE, f)
    BY Zenon
  <2>2. r.what = "txns" /\ r.flow = f
    BY <2>1 DEF Request
  <2>3. NewRequest(k, r) \in net' /\ NewRequest(k, r).rq = r
    BY Zenon, <1>2, <2>1, NewFields DEF HistoryOf, NewRequests, Tables
  <2>4. OnItsWay'
    BY Zenon, <1>3, <2>2, <2>3 DEF OnItsWay, Tables
  <2> QED
    BY Zenon, <2>4 DEF Fresh
<1>10. submits' # 0
  BY <1>3 DEF Aside
<1> QED
  BY Zenon, <1>6, <1>7, <1>8, <1>9, <1>10 DEF PageInv

\* An answer nothing more is asked for: another of its flow is still awaited,
\* it belongs to no form, or it is that of a form which then gives up.
LEMMA DroppedStep ==
  ASSUME PageInv, NEW q \in net, q.rq.what # "ledger",
         \/ q.rq.flow = 0 \/ q.rq.what = "post"
         \/ \E r \in net \ {q} : r.rq.flow = q.rq.flow,
         net' = net \ {q}, UNCHANGED panel, Aside
  PROVE  PageInv'
<1>1. /\ ledger \in Nat /\ others \in Nat /\ acked \in 0 .. ledger
      /\ offset \in Nat /\ rows \in Seq(Int) /\ submits \in Nat
  BY Zenon DEF PageInv, PageTypes
<1>2. ledger >= ledger /\ submits >= submits
  BY <1>1
<1>3. rows' = rows /\ more' = more /\ offset' = offset
  BY Zenon DEF panel
<1>4. PageTypes'
  BY Zenon, <1>1, <1>2, <1>3, TypesKept DEF PageInv, Aside
<1>5. OneStage'
  BY Zenon DEF PageInv, OneStage
<1>6. LoneRead' /\ (~crossed' => ~crossed)
  BY Zenon, LoneCrossed DEF Aside
<1>7. ASSUME Fresh PROVE Fresh'
  <2>1. \A s : StartsFresh(s) => StartsFresh(s)'
    BY Zenon DEF StartsFresh, Aside
  <2>2. StartsFresh(rows) => StartsFresh(rows)'
    BY Zenon, <1>3 DEF StartsFresh, Aside
  <2>3. ~IsReplacing(q)
    BY Zenon DEF IsReplacing
  <2>4. ASSUME OnItsWay PROVE OnItsWay'
    <3>1. PICK r \in net : /\ r.rq.what \in {"accounts"} \cup Tables
                           /\ r.rq.flow # 0
      BY Zenon, <2>4 DEF OnItsWay
    <3>2. CASE r # q
      BY Zenon, <3>1, <3>2 DEF OnItsWay
    <3>3. CASE r = q
      <4>1. "post" \notin {"accounts"} \cup Tables
        BY DEF Tables
      <4>2. PICK s \in net \ {q} : s.rq.flow = q.rq.flow
        BY Zenon, <3>1, <3>3, <4>1
      <4>3. s.rq.what \in Tables
        BY Zenon, <3>1, <3>3, <4>2 DEF PageInv, OneStage
      <4> QED
        BY Zenon, <3>1, <3>3, <4>2, <4>3 DEF OnItsWay
    <3> QED
      BY Zenon, <3>2, <3>3
  <2> QED
    BY Zenon, <1>7, <2>1, <2>2, <2>3, <2>4 DEF Fresh
<1>8. \A r : r.rq.what = "ledger" => (r \in net' <=> r \in net)
  BY Zenon
<1>9. AnswersTrue /\ (FirstRead \/ LaterReads)
        => AnswersTrue' /\ (FirstRead' \/ LaterReads')
  BY Zenon, <1>3, <1>8, PagesKept DEF Aside
<1> QED
  BY Zenon, <1>4, <1>5, <1>6, <1>7, <1>9 DEF PageInv, Aside

LEMMA ContinueStep ==
  ASSUME PageInv, NEW q \in net, q.rq.what \in {"accounts"} \cup Tables,
         Continue(q, net \ {q}), Aside
  PROVE  PageInv'
<1>1. /\ "accounts" # "post" /\ "accounts" \notin Tables
      /\ "accounts" # "ledger" /\ "post" \notin Tables /\ "ledger" \notin Tables
  BY DEF Tables
<1>2. CASE q.rq.what = "accounts"
  <2>1. q.rq.flow # 0
    BY Zenon, <1>2 DEF PageInv, PageTypes, RequestOK
  <2>2. \A r \in net \ {q} : r.rq.flow # q.rq.flow
    BY Zenon, <1>1, <1>2, <2>1 DEF PageInv, OneStage
  <2>3. refreshOpenHistory(net \ {q}, q.rq.flow)
    BY Zenon, <1>1, <1>2 DEF Continue
  <2>4. CASE ResetLedger(net \ {q}, q.rq.flow)
    BY Zenon, <2>1, <2>2, <2>4, ResetStep
  <2>5. CASE /\ net' = Send(net \ {q}, HistoryOf(current, q.rq.flow))
             /\ UNCHANGED panel
    BY Zenon, <2>1, <2>2, <2>5, ReopenStep
  <2> QED
    BY Zenon, <2>3, <2>4, <2>5 DEF refreshOpenHistory
<1>3. CASE q.rq.what \in Tables
  <2>1. HistoryLoaded(net \ {q}, q.rq.flow)
    BY Zenon, <1>1, <1>3 DEF Continue
  <2>2. CASE /\ q.rq.flow # 0 /\ \A r \in net \ {q} : r.rq.flow # q.rq.flow
             /\ ResetLedger(net \ {q}, q.rq.flow)
    BY Zenon, <2>2, ResetStep
  <2>3. CASE /\ ~(q.rq.flow # 0 /\ \A r \in net \ {q} : r.rq.flow # q.rq.flow)
             /\ net' = net \ {q} /\ UNCHANGED panel
    <3>1. q.rq.what # "ledger"
      BY Zenon, <1>1, <1>3
    <3> QED
      BY Zenon, <2>3, <3>1, DroppedStep
  <2> QED
    BY Zenon, <2>1, <2>2, <2>3 DEF HistoryLoaded
<1> QED
  BY Zenon, <1>2, <1>3

LEMMA DeliveredStep ==
  ASSUME PageInv, NEW q \in net, Delivered(q)
  PROVE  PageInv'
<1>1. q.rq.what \in {"post", "accounts", "ledger"} \cup Tables
  BY Zenon DEF PageInv, PageTypes, RequestOK
<1>2. CASE q.rq.what \in {"accounts"} \cup Tables
  <2>1. q.rq.what \notin {"post", "ledger"}
    BY <1>2 DEF Tables
  <2>2. q.rq.what # "post" /\ q.rq.what # "ledger"
    BY Zenon, <2>1
  <2>3. Continue(q, net \ {q})
    BY Zenon, <2>2 DEF Delivered
  <2>4. acked' = acked
    BY Zenon, <2>2 DEF Delivered
  <2>5. Aside
    BY Zenon, <2>4 DEF Delivered, Aside, budget
  <2> QED
    BY Zenon, <1>2, <2>3, <2>5, ContinueStep
<1>3. CASE q.rq.what = "post"
  BY Zenon, <1>3, PostedStep
<1>4. CASE q.rq.what = "ledger"
  BY Zenon, <1>4, RenderStep
<1> QED
  BY Zenon, <1>1, <1>2, <1>3, <1>4

LEMMA ThrowsStep ==
  ASSUME PageInv, NEW q \in net, Throws(q)
  PROVE  PageInv'
<1>1. q.rq.what \in {"post", "accounts", "ledger"} \cup Tables
  BY Zenon DEF PageInv, PageTypes, RequestOK
<1>2. /\ ledger' = ledger /\ submits' = submits /\ others' = others
      /\ acked' = acked /\ CrossedBy(net')
      /\ failed' = (failed \/ q.rq.what = "ledger")
  BY Zenon DEF Throws, budget
<1>3. q.rq.what # "ledger" => (failed' <=> failed)
  BY Zenon, <1>2
<1>4. CASE q.rq.what = "post"
  <2>1. q.rq.what # "ledger" /\ net' = net \ {q} /\ UNCHANGED panel
    <3>1. q.rq.what # "ledger"
      BY <1>4
    <3> QED
      BY Zenon, <1>4, <3>1 DEF Throws
  <2> QED
    BY Zenon, <1>2, <1>3, <1>4, <2>1, DroppedStep DEF Aside
<1>5. CASE q.rq.what \in {"accounts"} \cup Tables
  <2>1. q.rq.what \notin {"post", "ledger"}
    BY <1>5 DEF Tables
  <2>2. Continue(q, net \ {q}) /\ Aside
    BY Zenon, <1>2, <1>3, <2>1 DEF Throws, Aside
  <2> QED
    BY Zenon, <1>5, <2>2, ContinueStep
<1>6. CASE q.rq.what = "ledger"
  <2>1. net' = net \ {q} /\ UNCHANGED panel /\ failed'
    BY Zenon, <1>2, <1>6 DEF Throws
  <2>2. /\ ledger \in Nat /\ others \in Nat /\ acked \in 0 .. ledger
        /\ offset \in Nat /\ rows \in Seq(Int) /\ submits \in Nat
    BY Zenon DEF PageInv, PageTypes
  <2>3. ledger >= ledger /\ submits >= submits
    BY <2>2
  <2>4. PageTypes'
    BY Zenon, <1>2, <2>1, <2>2, <2>3, TypesKept DEF PageInv, panel
  <2>5. OneStage'
    BY Zenon, <2>1 DEF PageInv, OneStage
  <2>6. LoneRead'
    BY Zenon, <1>2, LoneCrossed
  <2> QED
    BY Zenon, <2>1, <2>4, <2>5, <2>6 DEF PageInv
<1> QED
  BY Zenon, <1>1, <1>4, <1>5, <1>6

-----------------------------------------------------------------------------
(* Every step keeps the invariant of the page *)

LEMMA PageStart == PageInit => PageInv
<1> SUFFICES ASSUME PageInit PROVE PageInv
  BY Zenon
<1>1. PICK r : r = Ledger(FALSE, 0, 0)
  BY Zenon
<1>2. PICK m : /\ Send({}, {r}) = {} \cup {m}
               /\ m.rq = r /\ m.body = None /\ Whole(m)
  BY Zenon, OneSent
<1>3. net = {m}
  BY Zenon, <1>1, <1>2 DEF PageInit
<1>4. r.what = "ledger" /\ r.append = FALSE /\ r.flow = 0 /\ r.arg = 0
  BY SMTT(30), <1>1 DEF Ledger, Request
<1>5. IsReplacing(m)
  BY <1>2, <1>4 DEF IsReplacing
<1>6. PageTypes
  <2>1. "ledger" # "post" /\ "ledger" # "accounts" /\ 0 \in Nat
        /\ 0 \in 0 .. 0 /\ 0 \in 0 .. Seed /\ <<>> \in Seq(Int) /\ Seed \in Nat
    BY WebPageAssumption
  <2>2. RequestOK(m)
    BY Zenon, <1>2, <1>4, <2>1 DEF RequestOK, PageInit
  <2> QED
    BY Zenon, <1>3, <2>1, <2>2 DEF PageTypes, PageInit
<1>7. OneStage /\ LoneRead
  BY Zenon, <1>3 DEF OneStage, LoneRead
<1>8. ~(acked > 0)
  BY DEF PageInit
<1>9. AnswersTrue /\ FirstRead
  BY Zenon, <1>2, <1>3, <1>5 DEF AnswersTrue, FirstRead, PageInit
<1> QED
  BY Zenon, <1>6, <1>7, <1>8, <1>9 DEF PageInv

\* Nothing but transactions that commit.
AllButPending == <<ledger, net, panel, budget, acked, crossed, failed>>

LEMMA PageKept ==
  ASSUME PageInv, UNCHANGED AllButPending
  PROVE  PageInv'
<1>1. /\ ledger' = ledger /\ net' = net /\ offset' = offset /\ rows' = rows
      /\ more' = more /\ submits' = submits /\ others' = others
      /\ acked' = acked /\ crossed' = crossed /\ failed' = failed
  BY Zenon DEF AllButPending, panel, budget
<1>2. /\ ledger \in Nat /\ others \in Nat /\ acked \in 0 .. ledger
      /\ offset \in Nat /\ rows \in Seq(Int) /\ submits \in Nat
  BY Zenon DEF PageInv, PageTypes
<1>3. ledger >= ledger /\ submits >= submits
  BY <1>2
<1>4. PageTypes'
  BY Zenon, <1>1, <1>2, <1>3, TypesKept DEF PageInv
<1>5. OneStage' /\ LoneRead'
  BY Zenon, <1>1 DEF PageInv, OneStage, LoneRead
<1>6. Fresh => Fresh'
  BY Zenon, <1>1, FreshKept
<1>7. AnswersTrue /\ (FirstRead \/ LaterReads)
        => AnswersTrue' /\ (FirstRead' \/ LaterReads')
  BY Zenon, <1>1, PagesKept
<1> QED
  BY Zenon, <1>1, <1>4, <1>5, <1>6, <1>7 DEF PageInv

-----------------------------------------------------------------------------
(* Every step keeps what was told committed *)

LEMMA CommittedKept ==
  ASSUME Committed, pending' = pending, ledger' = ledger,
         acked' \notin pending, submits' = 0 => submits = 0, others' = others,
         \A m \in net' : m.rq.what = "post" => m \in net
  PROVE  Committed'
  BY Zenon DEF Committed

LEMMA NoNewPost ==
  ASSUME NEW rest, rest \subseteq net, NEW rs, \A r \in rs : r.what # "post",
         net' = Send(rest, rs)
  PROVE  \A m \in net' : m.rq.what = "post" => m \in net
<1>1. PICK k : net' = rest \cup NewRequests(k, rs)
  BY Zenon, SendAdds
<1> QED
  <2> SUFFICES ASSUME NEW m \in net', m.rq.what = "post", m \notin rest
               PROVE  FALSE
    BY Zenon
  <2>1. PICK r \in rs : m = NewRequest(k, r)
    BY Zenon, <1>1 DEF NewRequests
  <2>2. m.rq = r
    BY Zenon, <2>1, NewFields
  <2>3. r.what = "post" /\ r.what # "post"
    BY Zenon, <2>2
  <2> QED
    BY Zenon, <2>3

LEMMA HistoryNoPost ==
  ASSUME NEW a, NEW f, NEW r \in HistoryOf(a, f)
  PROVE  r.what # "post"
<1>1. PICK t \in Tables : r = Request(t, a, FALSE, f)
  BY Zenon DEF HistoryOf
<1>2. r.what = t
  BY <1>1 DEF Request
<1> QED
  BY <1>2 DEF Tables

LEMMA ResetNoPost ==
  ASSUME NEW rest, rest \subseteq net, NEW f, ResetLedger(rest, f)
  PROVE  \A m \in net' : m.rq.what = "post" => m \in net
<1>1. Ledger(FALSE, 0, f).what # "post"
  BY DEF Ledger, Request
<1> QED
  BY Zenon, <1>1, NoNewPost DEF ResetLedger

LEMMA ContinueNoPost ==
  ASSUME PageInv, NEW q \in net, q.rq.what # "ledger", Continue(q, net \ {q})
  PROVE  \A m \in net' : m.rq.what = "post" => m \in net
<1>1. /\ "accounts" # "post" /\ "accounts" \notin Tables
      /\ "post" \notin Tables
  BY DEF Tables
<1>2. q.rq.what \in {"post", "accounts"} \cup Tables
  BY Zenon DEF PageInv, PageTypes, RequestOK
<1>3. CASE q.rq.what = "post"
  <2>1. net' = Send(net \ {q}, {Request("accounts", None, FALSE, q.rq.flow)})
    BY Zenon, <1>1, <1>3 DEF Continue
  <2>2. Request("accounts", None, FALSE, q.rq.flow).what # "post"
    BY DEF Request
  <2> QED
    BY ZenonT(30), <2>1, <2>2, NoNewPost
<1>4. CASE q.rq.what = "accounts"
  <2>1. refreshOpenHistory(net \ {q}, q.rq.flow)
    BY Zenon, <1>1, <1>4 DEF Continue
  <2> QED
    BY Zenon, <2>1, NoNewPost, HistoryNoPost, ResetNoPost
       DEF refreshOpenHistory
<1>5. CASE q.rq.what \in Tables
  <2>1. HistoryLoaded(net \ {q}, q.rq.flow)
    BY Zenon, <1>1, <1>5 DEF Continue
  <2> QED
    BY Zenon, <2>1, ResetNoPost DEF HistoryLoaded
<1> QED
  BY Zenon, <1>2, <1>3, <1>4, <1>5

LEMMA ClickCommitted ==
  ASSUME PageInv, Committed,
         handleTransfer \/ loadMoreLedger \/ (\E a \in Account : loadHistory(a))
  PROVE  Committed'
<1>1. ledger' = ledger /\ pending' = pending /\ acked' = acked
      /\ others' = others
  BY Zenon DEF handleTransfer, loadMoreLedger, loadHistory
<1>2. acked' \notin pending
  BY Zenon, <1>1 DEF Committed
<1>3. CASE handleTransfer
  <2>1. PICK r : r = Request("post", None, FALSE, submits + 1)
    BY Zenon
  <2>2. r.arg = None
    BY <2>1 DEF Request
  <2>3. PICK m : net' = net \cup {m} /\ m.rq = r /\ m.body = None
    <3>1. net' = Send(net, {r})
      BY Zenon, <1>3, <2>1 DEF handleTransfer
    <3>2. PICK m : /\ Send(net, {r}) = net \cup {m} /\ m.rq = r /\ m.body = None
                   /\ Whole(m)
      BY Zenon, OneSent
    <3> QED
      BY Zenon, <3>1, <3>2
  <2>4. submits' # 0
    BY <1>3 DEF handleTransfer, PageInv, PageTypes
  <2> QED
    BY Zenon, <1>1, <2>2, <2>3, <2>4 DEF Committed
<1>4. CASE loadMoreLedger
  <2>1. Ledger(TRUE, offset', 0).what # "post"
    BY DEF Ledger, Request
  <2>2. \A m \in net' : m.rq.what = "post" => m \in net
    BY Zenon, <1>4, <2>1, NoNewPost DEF loadMoreLedger
  <2>3. submits' = submits
    BY Zenon, <1>4 DEF loadMoreLedger
  <2> QED
    BY Zenon, <1>1, <1>2, <2>2, <2>3, CommittedKept
<1>5. ASSUME NEW a \in Account, loadHistory(a) PROVE Committed'
  <2>1. \A m \in net' : m.rq.what = "post" => m \in net
    BY Zenon, <1>5, NoNewPost, HistoryNoPost DEF loadHistory
  <2>2. submits' = submits
    BY Zenon, <1>5 DEF loadHistory
  <2> QED
    BY Zenon, <1>1, <1>2, <2>1, <2>2, CommittedKept
<1> QED
  BY Zenon, <1>3, <1>4, <1>5

\* What begins has not been told of, and what commits may be.
LEMMA BeginCommitted ==
  ASSUME PageInv, Committed,
         OtherBegins \/ OtherCommits \/ (\E q \in net : Begins(q) \/ Serves(q))
  PROVE  Committed'
<1>1. /\ ledger \in Nat /\ acked \in 0 .. ledger /\ submits \in Nat
      /\ others \in Nat
  BY Zenon DEF PageInv, PageTypes
<1>2. /\ \A n \in 0 .. ledger : n # ledger + 1
      /\ \A n \in 1 .. ledger : n # ledger + 1 /\ n \in 1 .. ledger + 1
      /\ ledger + 1 \in 1 .. ledger + 1 /\ others + 1 # 0
  BY <1>1
<1>3. \A q \in net : q.rq.what = "post" =>
         /\ q.body # None => q.body[1] \in 1 .. ledger
         /\ submits # 0
  BY Zenon, NoFlow DEF PageInv, PageTypes, RequestOK
<1>4. CASE OtherBegins
  BY Zenon, <1>1, <1>2, <1>3, <1>4 DEF OtherBegins, Begin, Committed
<1>5. CASE OtherCommits
  BY Zenon, <1>5 DEF OtherCommits, Committed, budget
<1>6. ASSUME NEW q \in net, Begins(q) PROVE Committed'
  <2>1. /\ q.rq.what = "post" /\ ledger' = ledger + 1 /\ acked' = acked
        /\ pending' = pending \cup {ledger + 1} /\ submits' = submits
    BY Zenon, <1>6 DEF Begins, Begin, budget
  <2>2. PICK p : /\ net' = (net \ {q}) \cup {p} /\ p.body = q.body
                 /\ p.rq.arg = ledger + 1
    BY Zenon, <1>6, BegunPost
  <2> QED
    BY Zenon, <1>1, <1>2, <1>3, <2>1, <2>2 DEF Committed
<1>7. ASSUME NEW q \in net, Serves(q) PROVE Committed'
  <2>1. /\ ledger' = ledger /\ acked' = acked /\ submits' = submits
        /\ others' = others /\ pending' \subseteq pending
        /\ q.rq.what = "post" => q.rq.arg \notin pending'
    BY Zenon, <1>7 DEF Serves, budget
  <2>2. PICK b : /\ q.rq.what = "post" => b = <<q.rq.arg>>
                 /\ net' = (net \ {q}) \cup {[q EXCEPT !.body = b]}
    BY Zenon, <1>7, ServesBody
  <2>3. PICK p : p = [q EXCEPT !.body = b]
    BY Zenon
  <2>4. net' = (net \ {q}) \cup {p} /\ p.rq = q.rq /\ p.body = b
    BY Zenon, <2>2, <2>3, AnswerFields DEF PageInv, PageTypes, RequestOK
  <2>5. \A n : <<n>>[1] = n
    OBVIOUS
  <2>6. p.rq.what = "post" => p.body[1] \notin pending'
    BY Zenon, <2>1, <2>2, <2>4, <2>5
  <2> QED
    BY Zenon, <2>1, <2>4, <2>6 DEF Committed
<1> QED
  BY Zenon, <1>4, <1>5, <1>6, <1>7

LEMMA AnsweredCommitted ==
  ASSUME PageInv, Committed, NEW q \in net, Delivered(q) \/ Throws(q)
  PROVE  Committed'
<1>1. /\ ledger' = ledger /\ pending' = pending /\ submits' = submits
      /\ others' = others
  BY Zenon DEF Delivered, Throws, budget
<1>2. acked' \notin pending
  BY Zenon DEF Delivered, Throws, Committed
<1>3. CASE net' = net \ {q}
  BY Zenon, <1>1, <1>2, <1>3, CommittedKept
<1>4. CASE q.rq.what # "ledger" /\ Continue(q, net \ {q})
  BY Zenon, <1>1, <1>2, <1>4, ContinueNoPost, CommittedKept
<1> QED
  BY Zenon, <1>3, <1>4 DEF Delivered, Throws

\* Whatever is clicked, submitted or posted elsewhere, and in whatever order
\* transactions commit and the calls of apiFetch answer or throw, the web page
\* keeps PageInv.
THEOREM PageInductive == PageSpec => [](PageInv /\ Committed)
<1>1. PageInit => PageInv /\ Committed
  <2>1. PageInit => pending = {} /\ submits = 0
    BY Zenon DEF PageInit
  <2> QED
    BY Zenon, <2>1, PageStart, NoFlow DEF Committed, PageInv
<1>2. ASSUME PageInv, Committed, [PageNext]_pageVars
      PROVE  PageInv' /\ Committed'
  <2>1. CASE UNCHANGED pageVars
    BY Zenon, <1>2, <2>1, PageKept, CommittedKept
       DEF AllButPending, pageVars, budget, Committed
  <2>2. CASE OtherCommits
    BY Zenon, <1>2, <2>2, PageKept, BeginCommitted
       DEF OtherCommits, AllButPending
  <2>3. CASE OtherBegins
    BY Zenon, <1>2, <2>3, OtherBeginsStep, BeginCommitted
  <2>4. CASE handleTransfer \/ loadMoreLedger
             \/ \E a \in Account : loadHistory(a)
    BY Zenon, <1>2, <2>4, TransferStep, MoreStep, HistoryStep, ClickCommitted
  <2>5. ASSUME NEW q \in net, Begins(q) \/ Serves(q)
        PROVE  PageInv' /\ Committed'
    BY Zenon, <1>2, <2>5, BeginsStep, ServesStep, BeginCommitted
  <2>6. ASSUME NEW q \in net, Delivered(q) \/ Throws(q)
        PROVE  PageInv' /\ Committed'
    BY Zenon, <1>2, <2>6, DeliveredStep, ThrowsStep, AnsweredCommitted
  <2> QED
    BY Zenon, <1>2, <2>1, <2>2, <2>3, <2>4, <2>5, <2>6 DEF PageNext
<1> QED
  BY <1>1, <1>2, PTL DEF PageSpec

\* For every page size and number of clicks, a list nobody adds to is shown
\* without gaps or repetitions down to the offset loadMoreLedger has reached.
THEOREM PagesShownOnce == PageSpec => []PagesOnceEach
<1>1. PageInv => PagesOnceEach
  <2> SUFFICES ASSUME PageInv, Quiet({"ledger"}), submits = 0, others = 0,
                      ~failed
               PROVE  /\ IsInjective(rows)
                      /\ Range(rows)
                           = {n \in 1 .. ledger : n > ledger - offset - Limit}
    BY Zenon DEF PagesOnceEach
  <2>1. \A q \in net : q.rq.what # "ledger"
    BY Zenon DEF Quiet
  <2>2. ~FirstRead
    BY Zenon, <2>1 DEF FirstRead, IsReplacing
  <2>3. LaterReads
    BY Zenon, <2>2 DEF PageInv
  <2>4. {n \in 1 .. ledger :
           /\ n > ledger - offset - Limit
           /\ \A q \in net : q.rq.what = "ledger" => n \notin Covered(q.rq.arg)}
          = {n \in 1 .. ledger : n > ledger - offset - Limit}
    BY Zenon, <2>1
  <2> QED
    BY Zenon, <2>3, <2>4 DEF LaterReads
<1> QED
  BY PageInductive, <1>1, PTL

\* For every number of forms and clicks, a settled page starts its ledger with
\* the last transaction it was told of, or a newer one, unless a read of the
\* ledger failed or two reads that replace the table crossed.
THEOREM PostShownFresh == PageSpec => []FreshAfterPost
<1>1. PageInv => FreshAfterPost
  BY Zenon DEF PageInv, Fresh, OnItsWay, StartsFresh, FreshAfterPost
<1> QED
  BY PageInductive, <1>1, PTL
=============================================================================
