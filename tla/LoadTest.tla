------------------------------ MODULE LoadTest ------------------------------
(***************************************************************************)
(* The load test (cmd/loadtest) against a running service: workers post    *)
(* transfers between two accounts, give up on slow answers, and main       *)
(* compares the sum of the two balances before and after.  The service     *)
(* posts a transfer in one step, which is what Ledger's refinement of      *)
(* AtomicLedger provides; the step may come after the transfer has been    *)
(* answered with 500.                                                      *)
(***************************************************************************)
EXTENDS Integers, FiniteSets

CONSTANTS
    Worker,
    Iters,      \* transfers per worker
    OpeningSrc, \* balances of the accounts at the start, in transfer amounts
    OpeningDst,
    Faults      \* "timeout": client.Do gives up after 10 s; "error": the
                \* service fails; "commit": the answer to its COMMIT is lost;
                \* "cut": the body of an answer is not complete JSON;
                \* "expire": the total timeout of the test is over

ASSUME LoadTestAssumption ==
    Iters \in Nat /\ OpeningSrc \in Nat /\ OpeningDst \in Nat

Sides == {"src", "dst"}
Op == Worker \X (0 .. Iters - 1)

VARIABLES
    bal,       \* the two balances in the service
    sent,      \* transfers the service has received and not yet handled
    status,    \* statuses of those it has handled
    doubt,     \* those answered 500 whose COMMIT is still undecided
    iter,      \* a worker's loop counter
    waiting,   \* workers inside postTransfer
    out,       \* the channel: results not yet collected
    main,      \* where main is
    start, end,   \* the sums main has read
    expired    \* ctx.Err() # nil

vars == <<bal, sent, status, doubt, iter, waiting, out, main, start, end,
          expired>>

Exits == {"exit 0", "exit 1"}

-----------------------------------------------------------------------------
(* The service *)

\* Mutant: every transfer goes the same way.
MutOneWay(op) == "src"

From(op) == IF op[2] % 2 = 1 THEN "dst" ELSE "src"
Other(a) == IF a = "src" THEN "dst" ELSE "src"

Moves(op) ==
    bal' = [a \in Sides |-> IF a = From(op) THEN bal[a] - 1 ELSE bal[a] + 1]

Funded(op) == bal[From(op)] >= 1

\* The funds check is made with both rows locked, and a transaction in doubt
\* still holds them; a statement that fails needs no lock.
ServerHandles(op) ==
    /\ op \in sent
    /\ sent' = sent \ {op}
    /\ \/ /\ doubt = {} /\ Funded(op) /\ Moves(op)
          /\ status' = [status EXCEPT ![op] = 201] /\ UNCHANGED doubt
       \/ /\ doubt = {} /\ ~Funded(op)
          /\ status' = [status EXCEPT ![op] = 422] /\ UNCHANGED <<bal, doubt>>
       \/ /\ "error" \in Faults
          /\ status' = [status EXCEPT ![op] = 500] /\ UNCHANGED <<bal, doubt>>
       \/ /\ "commit" \in Faults /\ doubt = {} /\ Funded(op)
          /\ doubt' = {op}
          /\ status' = [status EXCEPT ![op] = 500] /\ UNCHANGED bal
    /\ UNCHANGED <<iter, waiting, out, main, start, end, expired>>

\* The database decides a COMMIT whose answer was lost.
LateCommit(op) ==
    /\ op \in doubt
    /\ Moves(op) /\ doubt' = {}
    /\ UNCHANGED <<sent, status, iter, waiting, out, main, start, end, expired>>

ServerAborts(op) ==
    /\ op \in doubt
    /\ doubt' = {}
    /\ UNCHANGED <<bal, sent, status, iter, waiting, out, main, start, end,
                   expired>>

GetAccount(a) == bal[a]

-----------------------------------------------------------------------------
(* Workers *)

Current(w) == <<w, iter[w]>>

Running(w) == main = "run" /\ iter[w] < Iters /\ w \notin waiting

\* The loop's head: ctx.Err() is looked at, then the transfer is posted.
Post(w) ==
    /\ Running(w) /\ ~expired
    /\ sent' = sent \cup {Current(w)}
    /\ waiting' = waiting \cup {w}
    /\ UNCHANGED <<bal, status, doubt, iter, out, main, start, end, expired>>

GiveUpEarly(w) ==
    /\ Running(w) /\ expired
    /\ iter' = [iter EXCEPT ![w] = Iters]
    /\ UNCHANGED <<bal, sent, status, doubt, waiting, out, main, start, end,
                   expired>>

NoCode == ""

\* Mutant: every transfer that was answered counts as done.
MutLenient(s) == {NoCode}

\* errCode: empty for 201, else the "error" field; a body that does not decode
\* leaves it empty.
ErrCodes(s) ==
    IF s = 201 THEN {NoCode}
    ELSE {"error"} \cup IF "cut" \in Faults THEN {NoCode} ELSE {}

\* Mutant: room for one result per worker.
MutSmallChannel == Cardinality(Worker)
Capacity == Cardinality(Worker) * Iters

\* out <- result: blocks when the channel is full.
Put(w, code) ==
    /\ Cardinality(out) < Capacity
    /\ out' = out \cup {[op |-> Current(w), code |-> code]}
    /\ iter' = [iter EXCEPT ![w] = @ + 1]
    /\ waiting' = waiting \ {w}
    /\ UNCHANGED <<bal, sent, status, doubt, main, start, end, expired>>

Answered(w) ==
    /\ w \in waiting /\ status[Current(w)] # 0
    /\ \E code \in ErrCodes(status[Current(w)]) : Put(w, code)

\* client.Do fails: the transfer may still be on its way, or done.
TimesOut(w) ==
    "timeout" \in Faults /\ w \in waiting /\ Put(w, "http_error")

Expire ==
    /\ "expire" \in Faults /\ main = "run" /\ ~expired
    /\ expired' = TRUE
    /\ UNCHANGED <<bal, sent, status, doubt, iter, waiting, out, main, start,
                   end>>

-----------------------------------------------------------------------------
(* main *)

Goto(phase) ==
    /\ main' = phase
    /\ UNCHANGED <<bal, sent, status, doubt, iter, waiting, out, expired>>

\* getBalance of one account, then of the other; an error ends the program.
ReadStart ==
    \/ main = "start src" /\ start' = GetAccount("src")
       /\ Goto("start dst") /\ UNCHANGED end
    \/ main = "start dst" /\ start' = start + GetAccount("dst")
       /\ Goto("run") /\ UNCHANGED end

ReadEnd ==
    \/ main = "end src" /\ end' = GetAccount("src")
       /\ Goto("end dst") /\ UNCHANGED start
    \/ main = "end dst" /\ end' = end + GetAccount("dst")
       /\ Goto("verdict") /\ UNCHANGED start

ReadFails ==
    /\ Faults \cap {"timeout", "error"} # {}
    /\ main \in {"start src", "start dst", "end src", "end dst"}
    /\ Goto("exit 1") /\ UNCHANGED <<start, end>>

\* Mutant: main goes on when the first worker is done.
MutFirstDone ==
    /\ main = "run" /\ \E w \in Worker : iter[w] = Iters
    /\ Goto("end src") /\ UNCHANGED <<start, end>>

\* wg.Wait, close(ch), and the results are counted.
Wait ==
    /\ main = "run" /\ \A w \in Worker : iter[w] = Iters
    /\ Goto("end src") /\ UNCHANGED <<start, end>>

ErrCounts == {r \in out : r.code # NoCode}

Verdict ==
    /\ main = "verdict"
    /\ Goto(IF start # end \/ ErrCounts # {} THEN "exit 1" ELSE "exit 0")
    /\ UNCHANGED <<start, end>>

Init ==
    /\ bal = [a \in Sides |-> IF a = "src" THEN OpeningSrc ELSE OpeningDst]
    /\ sent = {} /\ status = [op \in Op |-> 0] /\ doubt = {}
    /\ iter = [w \in Worker |-> 0] /\ waiting = {} /\ out = {}
    /\ main = "start src" /\ start = 0 /\ end = 0 /\ expired = FALSE

Next ==
    \/ \E op \in Op : ServerHandles(op) \/ LateCommit(op) \/ ServerAborts(op)
    \/ \E w \in Worker : Post(w) \/ GiveUpEarly(w) \/ Answered(w) \/ TimesOut(w)
    \/ Expire \/ ReadStart \/ ReadEnd \/ ReadFails \/ Wait \/ Verdict

Spec == Init /\ [][Next]_vars

\* Goroutines are scheduled, the service handles what it receives and the
\* database notices a dead connection; nothing obliges a fault to happen.
Fairness ==
    /\ \A op \in Op : WF_vars(ServerHandles(op)) /\ WF_vars(ServerAborts(op))
    /\ \A w \in Worker : WF_vars(Post(w) \/ GiveUpEarly(w) \/ Answered(w))
    /\ WF_vars(ReadStart \/ ReadEnd \/ Wait \/ Verdict)
FairSpec == Spec /\ Fairness

-----------------------------------------------------------------------------
(* Properties *)

\* The invariant check never fails by itself: when the two sums differ, some
\* transfer was given up by its worker, or answered 500 with its COMMIT in
\* doubt, and ran between the two GETs; that result is among the failures.
DifferenceIsExplained ==
    main = "verdict" /\ start # end
        => \E r \in out : r.code = "http_error" \/ status[r.op] = 500

\* Exit 0 is earned: every transfer that was sent was posted, and none is
\* on its way or in doubt.  (As long as error bodies arrive complete.)
ExitZeroIsEarned ==
    main = "exit 0" => /\ sent = {} /\ doubt = {}
                       /\ \A r \in out : status[r.op] = 201

Posted(w) == {i \in 0 .. Iters - 1 : status[<<w, i>>] = 201}
Halfway == {w \in Worker : Cardinality(Posted(w)) % 2 = 1}

\* A worker "alternates direction to keep balances bounded": as long as nothing
\* failed, the source account is short of one amount per worker that is
\* halfway, so of no more than there are workers, and the other holds it.
BalancesBounded ==
    /\ \A op \in Op : status[op] \in {0, 201}
    /\ \A r \in out : r.code # "http_error"
    => bal["src"] = OpeningSrc - Cardinality(Halfway)

\* The test ends: no worker blocks on the channel that main reads only after
\* all of them are done.
TestEnds == <>(main \in Exits)

\* cmd/loadtest/main.go: "empty errCode means success".  postTransfer ignores
\* the errors of reading and decoding an error body.
EmptyCodeIsSuccess == \A r \in out : r.code = NoCode => status[r.op] = 201
=============================================================================
