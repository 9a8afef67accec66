------------------------------- MODULE WebPage ------------------------------
(***************************************************************************)
(* The page (web/app.js) in one browser: its handlers run to their next    *)
(* await, requests are answered and delivered in any order, and the tables *)
(* are rendered from whatever answer arrives.  The service is its list of  *)
(* transactions by created_at (Listing has the details of reading).        *)
(***************************************************************************)
EXTENDS Integers, FiniteSets, Sequences, Functions

CONSTANTS
    Account,
    None,
    Limit,        \* allLedgerLimit
    Seed,         \* transactions before the page is opened
    MaxSubmits,   \* forms submitted by this user
    MaxOthers,    \* transactions posted by other users
    MaxClicks,    \* clicks on Load and Load more
    PageFaults    \* "fail": an apiFetch may throw

ASSUME WebPageAssumption ==
    /\ Limit \in Nat \ {0} /\ Seed \in Nat
    /\ MaxSubmits \in Nat /\ MaxOthers \in Nat /\ MaxClicks \in Nat

Tables == {"txns", "audit"}

VARIABLES
    ledger,     \* transactions are 1 .. ledger, by their created_at
    pending,    \* the ones that have begun and are not committed
    net,        \* requests on their way
    offset,     \* allLedgerOffset
    rows,       \* all-txns-body
    more,       \* the Load more button is visible
    current,    \* currentHistoryAccountID
    shown,      \* the account each history table was rendered for
    submits, others, clicks,
    acked,      \* history: newest transaction the page was told of
    crossed,    \* history: two replacing reads of the ledger were on their way
    failed      \* history: a read of the ledger threw

panel == <<offset, rows, more>>
history == <<current, shown>>
budget == <<submits, others, clicks>>
pageVars == <<ledger, pending, net, panel, history, budget, acked, crossed,
              failed>>

\* flow is the submitted form whose handler awaits the answer, 0 for none.
Request(what, arg, append, flow) ==
    [what |-> what, arg |-> arg, append |-> append, flow |-> flow]

\* apiFetch: the requests rs leave; k tells requests of the same kind apart.
Send(rest, rs) ==
    LET k == CHOOSE j \in 1 .. Cardinality(rest) + 1 :
                 \A q \in rest : q.k # j
    IN  rest \cup {[k |-> k, rq |-> r, body |-> None] : r \in rs}

Ledger(append, from, flow) == Request("ledger", from, append, flow)
HistoryOf(a, flow) == {Request(t, a, FALSE, flow) : t \in Tables}

IsReplacing(q) == q.rq.what = "ledger" /\ ~q.rq.append
CrossedBy(reqs) ==
    crossed' = (crossed \/ \E q, r \in reqs :
                               q # r /\ IsReplacing(q) /\ IsReplacing(r))

-----------------------------------------------------------------------------
(* The service *)

\* created_at is the start of a transaction, and rows appear when it commits.
Begin == ledger' = ledger + 1 /\ pending' = pending \cup {ledger + 1}

\* The page of the list from an offset on (Listing!ListTransactions): its i-th
\* row has from + i - 1 newer ones.
PagesAt(from) ==
    LET visible == (1 .. ledger) \ pending
        places == {i \in 1 .. Limit : from + i <= Cardinality(visible)}
    IN  {s \in [places -> visible] : \A i \in places :
            Cardinality({n \in visible : n > s[i]}) = from + i - 1}

Begins(q) ==
    /\ q.rq.what = "post" /\ q.rq.arg = None /\ Begin
    /\ net' = (net \ {q}) \cup
                 {[q EXCEPT !.rq = Request("post", ledger', FALSE, @.flow)]}
    /\ UNCHANGED <<panel, history, budget, acked, crossed, failed>>

Serves(q) ==
    /\ q.body = None
    /\ q.rq.what = "post" => q.rq.arg # None
    /\ pending' = IF q.rq.what = "post" THEN pending \ {q.rq.arg} ELSE pending
    /\ \E body \in CASE q.rq.what = "post" -> {<<q.rq.arg>>}
                      [] q.rq.what = "ledger" -> PagesAt(q.rq.arg)
                      [] OTHER -> {<<>>} :
          net' = (net \ {q}) \cup {[q EXCEPT !.body = body]}
    /\ UNCHANGED <<ledger, panel, history, budget, acked, crossed, failed>>

OtherBegins ==
    /\ others < MaxOthers /\ others' = others + 1 /\ Begin
    /\ UNCHANGED <<net, panel, history, submits, clicks, acked, crossed,
                   failed>>

\* A transaction no request of the page is waiting for: another user's, or one
\* of a form whose POST threw.
OtherCommits ==
    /\ \E n \in pending :
          /\ \A q \in net : q.rq.what = "post" => q.rq.arg # n
          /\ pending' = pending \ {n}
    /\ UNCHANGED <<ledger, net, panel, history, budget, acked, crossed,
                   failed>>

-----------------------------------------------------------------------------
(* Handlers of the user's clicks, up to their first await *)

\* handleTransfer, handleDeposit and doReverse differ in what they post.
handleTransfer ==
    /\ submits < MaxSubmits /\ submits' = submits + 1
    /\ net' = Send(net, {Request("post", None, FALSE, submits + 1)})
    /\ UNCHANGED <<ledger, pending, panel, history, others, clicks, acked,
                   crossed, failed>>

loadHistory(a) ==
    /\ clicks < MaxClicks /\ clicks' = clicks + 1
    /\ current' = a
    /\ net' = Send(net, HistoryOf(a, 0))
    /\ UNCHANGED <<ledger, pending, panel, shown, submits, others, acked,
                   crossed, failed>>

\* Mutant: the offset moves on after the request for the page has left.
MutFetchFirst ==
    /\ more /\ clicks < MaxClicks /\ clicks' = clicks + 1
    /\ offset' = offset + Limit
    /\ net' = Send(net, {Ledger(TRUE, offset, 0)})
    /\ UNCHANGED <<ledger, pending, rows, more, history, submits, others,
                   acked, crossed, failed>>

loadMoreLedger ==
    /\ more /\ clicks < MaxClicks /\ clicks' = clicks + 1
    /\ offset' = offset + Limit
    /\ net' = Send(net, {Ledger(TRUE, offset', 0)})
    /\ UNCHANGED <<ledger, pending, rows, more, history, submits, others,
                   acked, crossed, failed>>

-----------------------------------------------------------------------------
(* Continuations: what a handler does once its await is over *)

\* Mutant: the panel keeps its offset.
MutKeepOffset(rest, flow) ==
    /\ rows' = <<>> /\ UNCHANGED <<offset, more>>
    /\ net' = Send(rest, {Ledger(FALSE, offset, flow)})

\* The second half of refreshOpenHistory.
ResetLedger(rest, flow) ==
    /\ offset' = 0 /\ rows' = <<>> /\ UNCHANGED more
    /\ net' = Send(rest, {Ledger(FALSE, 0, flow)})

\* await fetchAccounts is over: refreshOpenHistory starts.
refreshOpenHistory(rest, flow) ==
    \/ /\ current # None
       /\ net' = Send(rest, HistoryOf(current, flow)) /\ UNCHANGED panel
    \/ current = None /\ ResetLedger(rest, flow)

\* Promise.all: the last of the two answers of the flow lets it go on.
HistoryLoaded(rest, flow) ==
    LET last == flow # 0 /\ \A q \in rest : q.rq.flow # flow
    IN  \/ last /\ ResetLedger(rest, flow)
        \/ ~last /\ net' = rest /\ UNCHANGED panel

\* fetchLedgerActivity with its answer: render, and show or hide Load more.
RenderLedger(q) ==
    /\ rows' = IF q.rq.append THEN rows \o q.body ELSE q.body
    /\ more' = (Len(q.body) >= Limit)
    /\ UNCHANGED offset

\* What follows an apiFetch of q whose answer was rendered, or that threw
\* (the fetch functions catch; only a failed POST ends its handler).
Continue(q, rest) ==
    CASE q.rq.what = "post" ->
           /\ net' = Send(rest, {Request("accounts", None, FALSE, q.rq.flow)})
           /\ UNCHANGED panel
      [] q.rq.what = "accounts" -> refreshOpenHistory(rest, q.rq.flow)
      [] q.rq.what \in Tables -> HistoryLoaded(rest, q.rq.flow)

Delivered(q) ==
    /\ q.body # None
    /\ shown' = IF q.rq.what \in Tables
                THEN [shown EXCEPT ![q.rq.what] = q.rq.arg] ELSE shown
    /\ acked' = IF q.rq.what = "post" /\ q.body[1] > acked
                THEN q.body[1] ELSE acked
    /\ IF q.rq.what = "ledger" THEN RenderLedger(q) /\ net' = net \ {q}
       ELSE Continue(q, net \ {q})
    /\ CrossedBy(net')
    /\ UNCHANGED <<ledger, pending, current, budget, failed>>

\* apiFetch throws: the banner is shown and nothing is rendered.  What was
\* posted stays posted.
Throws(q) ==
    /\ "fail" \in PageFaults /\ failed' = (failed \/ q.rq.what = "ledger")
    /\ IF q.rq.what \in {"post", "ledger"}
       THEN net' = net \ {q} /\ UNCHANGED panel
       ELSE Continue(q, net \ {q})
    /\ CrossedBy(net')
    /\ UNCHANGED <<ledger, pending, history, budget, acked>>

-----------------------------------------------------------------------------
\* The script's last line reads the first page (the account list it reads as
\* well is not followed by anything).
PageInit ==
    /\ ledger = Seed /\ pending = {}
    /\ net = Send({}, {Ledger(FALSE, 0, 0)})
    /\ offset = 0 /\ rows = <<>> /\ more = FALSE
    /\ current = None /\ shown = [t \in Tables |-> None]
    /\ submits = 0 /\ others = 0 /\ clicks = 0
    /\ acked = 0 /\ crossed = FALSE /\ failed = FALSE

PageNext ==
    \/ OtherBegins \/ OtherCommits \/ handleTransfer \/ loadMoreLedger
    \/ \E a \in Account : loadHistory(a)
    \/ \E q \in net : Begins(q) \/ Serves(q) \/ Delivered(q) \/ Throws(q)

PageSpec == PageInit /\ [][PageNext]_pageVars

-----------------------------------------------------------------------------
(* Properties *)

Quiet(kinds) == \A q \in net : q.rq.what \notin kinds

\* However quickly Load more is clicked and in whatever order the pages arrive,
\* a list nobody adds to is shown without gaps and without repetitions, down
\* to the offset reached: loadMoreLedger moves the offset before it asks.
PagesOnceEach ==
    Quiet({"ledger"}) /\ submits = 0 /\ others = 0 /\ ~failed
        => /\ Range(rows) = {n \in 1 .. ledger : n > ledger - offset - Limit}
           /\ IsInjective(rows)

\* Once the page has settled after a submitted form, the ledger panel starts
\* with that transaction or one that began after it (the list is ordered by
\* created_at), even if the account list or the history could not be read;
\* unless a read of the ledger failed or two reads that replace the table were
\* on their way together.
FreshAfterPost ==
    net = {} /\ acked > 0 /\ ~crossed /\ ~failed => rows[1] >= acked

\* web/app.js: currentHistoryAccountID tracks "which account is currently
\* shown"; README: Load shows that account's transactions and audit log "side
\* by side".  An answer for the previous account may arrive last.
HistoryShowsCurrent ==
    Quiet(Tables) => \A t \in Tables : shown[t] = current

\* README: "A "Load more" button appends the next page".  A page that could
\* not be read is skipped: the offset has moved on and is not put back.
LoadMoreAppendsNext ==
    Quiet({"ledger"}) /\ rows # <<>>
        => Range(rows) = (ledger - Len(rows) + 1) .. ledger
=============================================================================
