-------------------------------- MODULE Pool --------------------------------
(***************************************************************************)
(* The connection pool under the handlers: which statements of a request   *)
(* take a connection, which keep it, and what a request holds while it     *)
(* waits.  A request is the list of its remaining database operations.     *)
(***************************************************************************)
EXTENDS Integers, FiniteSets, Sequences, Functions

CONSTANTS
    Slot,       \* handler goroutines; a slot serves one request after another
    MaxConns,   \* size of the pool
    Row,        \* account rows, in id order
    MaxList,    \* most rows a listing returns
    Outside     \* rows that a session outside the service keeps locked

ASSUME PoolAssumption ==
    /\ MaxConns \in Nat \ {0} /\ MaxList \in Nat /\ Row \subseteq Int
    /\ "outside" \notin Slot

VARIABLES
    todo,    \* the operations a request has still to do
    queue,   \* requests waiting for a connection, first come first served
    held,    \* number of connections a request holds
    lock     \* set of slots (at most one) holding the lock of a row

poolVars == <<todo, queue, held, lock>>

-----------------------------------------------------------------------------
(* The handlers' operations on the database *)

\* A query or statement outside a transaction takes a connection and gives it
\* back; "open" reads the rows of a listing, "close" is rows.Close().
Query == <<"query">>
Refetch == <<"refetch">>
Audit == <<"audit">>
Begin == <<"begin">>
End == <<"end">>
Lock(a) == <<"lock", a>>

Get == <<Query>>
Replay == <<Query, Query>>     \* the header, then its entries
Rejected == <<Audit>>

\* Mutant: rows still open while the entries are read.
MutRowsOpen(n) == <<<<"open">>>> \o [i \in 1 .. n |-> Query] \o <<<<"close">>>>

\* The page of headers is read to its end and closed, then one query per
\* transaction fetches its entries.
List(n) == <<<<"open">>, <<"close">>>> \o [i \in 1 .. n |-> Query]

\* WithTx: one connection from BEGIN to COMMIT or ROLLBACK.
WithTx(a, b) == <<Begin, Lock(a), Lock(b), End>>

\* Transfer and Deposit look the key up first; Reverse also loads the original.
Posting(a, b) == <<Query>> \o WithTx(a, b)
Reversal(a, b) == <<Query, Query, Query>> \o WithTx(a, b)

Pairs == {p \in Row \X Row : p[1] < p[2]}
Requests ==
    {Get, Replay, Rejected} \cup {List(n) : n \in 1 .. MaxList}
      \cup {Posting(p[1], p[2]) : p \in Pairs}
      \cup {Reversal(p[1], p[2]) : p \in Pairs}

\* What is left of a request when an operation fails: an error inside a write
\* call is audited, an error of the audit or of a read ends the request.  (A
\* lookup that fails for want of a connection is followed by a BEGIN that fails
\* for the same reason.)
AfterError(s) ==
    IF {End, Refetch} \cap Range(s) # {} THEN <<Audit>> ELSE <<>>

-----------------------------------------------------------------------------
(* Steps of a request *)

Idle(r) == todo[r] = <<>>
At(r, op) == ~Idle(r) /\ Head(todo[r])[1] = op
Waiting(r) == r \in Range(queue)

\* Operations that take a connection from the pool.
TakesConn(r) ==
    \E op \in {"query", "refetch", "audit", "open", "begin"} : At(r, op)

Released(r) == [a \in Row |-> lock[a] \ {r}]

Arrive(r) ==
    /\ Idle(r)
    /\ \E s \in Requests : todo' = [todo EXCEPT ![r] = s]
    /\ UNCHANGED <<queue, held, lock>>

\* Acquire joins the pool's queue; a connection goes to its head.
Enqueue(r) ==
    /\ TakesConn(r) /\ ~Waiting(r)
    /\ queue' = Append(queue, r)
    /\ UNCHANGED <<todo, held, lock>>

FreeConns ==
    Cardinality({c \in Slot \X (1 .. MaxConns) : c[2] <= held[c[1]]}) < MaxConns

\* The connection is granted; a query or an audit INSERT runs on it and gives
\* it back at once, "open" and BEGIN keep it.
Grant(r) ==
    /\ Waiting(r) /\ Head(queue) = r /\ FreeConns
    /\ queue' = Tail(queue)
    /\ todo' = [todo EXCEPT ![r] = Tail(@)]
    /\ held' = [held EXCEPT ![r] = IF At(r, "open") \/ At(r, "begin")
                                   THEN @ + 1 ELSE @]
    /\ UNCHANGED lock

CloseRows(r) ==
    /\ At(r, "close")
    /\ todo' = [todo EXCEPT ![r] = Tail(@)]
    /\ held' = [held EXCEPT ![r] = @ - 1]
    /\ UNCHANGED <<queue, lock>>

LockRow(r) ==
    /\ At(r, "lock")
    /\ LET a == Head(todo[r])[2]
       IN  lock[a] = {} /\ lock' = [lock EXCEPT ![a] = {r}]
    /\ todo' = [todo EXCEPT ![r] = Tail(@)]
    /\ UNCHANGED <<queue, held>>

\* COMMIT or ROLLBACK; then the audit row, or for the loser of a same-key
\* race the two queries that fetch the winner.
EndTx(r) ==
    /\ At(r, "end")
    /\ held' = [held EXCEPT ![r] = @ - 1]
    /\ lock' = Released(r)
    /\ \E rest \in {<<Audit>>, <<Refetch, Refetch>>} :
          todo' = [todo EXCEPT ![r] = rest]
    /\ UNCHANGED queue

\* Mutant: no deferred Rollback, the connection is never given back.
MutLeak(r) ==
    /\ held[r] > 0 /\ ~Waiting(r)
    /\ todo' = [todo EXCEPT ![r] = AfterError(@)]
    /\ lock' = Released(r)
    /\ UNCHANGED <<queue, held>>

\* A statement fails, or the client is gone and its context cancelled: the
\* deferred Rollback or rows.Close gives the connection back.
Abort(r) ==
    /\ held[r] > 0
    /\ held' = [held EXCEPT ![r] = 0]
    /\ lock' = Released(r)
    /\ todo' = [todo EXCEPT ![r] = AfterError(@)]
    /\ UNCHANGED queue

\* The waiter r takes itself out of the semaphore's list, wherever it is.
LeaveQueue(r) ==
    \E i \in DOMAIN queue :
        /\ queue[i] = r
        /\ queue' = SubSeq(queue, 1, i - 1) \o SubSeq(queue, i + 1, Len(queue))

\* A request gives up waiting for a connection: its context is cancelled, or
\* the 3 s of the audit write are over.
GiveUp(r) ==
    /\ LeaveQueue(r)
    /\ todo' = [todo EXCEPT ![r] = AfterError(@)]
    /\ UNCHANGED <<held, lock>>

\* What a request does on its own, as long as nothing fails.
Step(r) ==
    Enqueue(r) \/ Grant(r) \/ CloseRows(r) \/ LockRow(r) \/ EndTx(r)

PoolInit ==
    /\ todo = [r \in Slot |-> <<>>]
    /\ queue = <<>>
    /\ held = [r \in Slot |-> 0]
    /\ lock = [a \in Row |-> IF a \in Outside THEN {"outside"} ELSE {}]

PoolNext ==
    \E r \in Slot : Arrive(r) \/ Step(r) \/ Abort(r) \/ GiveUp(r)

PoolSpec == PoolInit /\ [][PoolNext]_poolVars

\* A handler goes on when it can; the pool's semaphore and PostgreSQL's row
\* locks serve their waiters in the order they came, so a waiter is not passed
\* over for ever.  Nothing obliges a statement to fail: no timeout is set.
PoolFairness ==
    \A r \in Slot : WF_poolVars(Step(r)) /\ SF_poolVars(LockRow(r))
PoolFairSpec == PoolSpec /\ PoolFairness

-----------------------------------------------------------------------------
(* Properties *)

\* A request that waits for a connection holds none, and no row lock: that is
\* why listings close their rows before the N+1 queries and why the lookup and
\* the audit row are outside WithTx.  The pool can be small, never stuck.
NoHoldAndWait ==
    \A r \in Slot : Waiting(r) =>
        held[r] = 0 /\ \A a \in Row : r \notin lock[a]

\* Every request gets through, whatever the others do with the pool and the
\* rows, as long as the row locks held outside are none.
EveryRequestServed == \A r \in Slot : ~Idle(r) ~> Idle(r)

Unrelated(r) == ~Idle(r) /\ \A i \in DOMAIN todo[r] : todo[r][i] = Query

\* README.md: with a small pool "unrelated requests can wait for a connection;
\* this is mitigated by short transactions and a `lock_timeout` setting".
\* Nothing sets lock_timeout: behind a row locked elsewhere the transactions
\* keep every connection, and reads that need no row wait with them.
UnrelatedNotStarved == \A r \in Slot : Unrelated(r) ~> Idle(r)
=============================================================================
