------------------------------ MODULE HttpApi -------------------------------
(***************************************************************************)
(* The HTTP handlers (internal/httpapi) over the ledger service: what they *)
(* refuse before the service sees it, how its errors become status codes,  *)
(* and what a client may conclude from a status.  Every request is a       *)
(* request of Ledger; its handler runs the service's steps in between.     *)
(***************************************************************************)
EXTENDS Ledger

CONSTANT Wire   \* the HTTP requests the clients may send

\* None in a field: the header is missing, the UUID is missing or malformed,
\* the amount is no decimal.  An amount left out of the body is 0.
WireRequest == [route  : {"transfer", "deposit", "reverse"},
                key    : Key \cup {None},
                json   : BOOLEAN,            \* the body is a JSON object
                src    : AccountId \cup {None},
                dst    : AccountId \cup {None},
                orig   : TxId \cup {None},
                amount : Int \cup {None}]

VARIABLES
    wire,    \* the HTTP request of each handler
    http,    \* the status it was answered with
    listed   \* what GET /api/accounts showed last

httpVars == <<wire, http, listed>>
allVars == <<vars, httpVars>>

-----------------------------------------------------------------------------
(* Decoding *)

\* The code of the 400 response, in the order of the handlers' checks.
DecodeError(w) ==
    IF w.key = None THEN "missing_idempotency_key"
    ELSE IF \/ w.route # "reverse" /\ (~w.json \/ w.amount = None)
            \/ w.route = "transfer" /\ w.src = None
            \/ w.route # "reverse" /\ w.dst = None
            \/ w.route = "reverse" /\ w.orig = None
         THEN "bad_request" ELSE None

\* The call of the service that a decoded request becomes.
ToCall(w) ==
    CASE w.route = "transfer" ->
           [kind |-> "TRANSFER", from |-> w.src, to |-> w.dst,
            amount |-> w.amount, orig |-> None, key |-> w.key]
      [] w.route = "deposit" ->
           [kind |-> "DEPOSIT", from |-> External, to |-> w.dst,
            amount |-> w.amount, orig |-> None, key |-> w.key]
      [] w.route = "reverse" ->
           [kind |-> "REVERSAL", from |-> None, to |-> None,
            amount |-> 0, orig |-> w.orig, key |-> w.key]

ASSUME WireAssumption ==
    /\ Wire \subseteq WireRequest /\ None \notin WireRequest
    /\ {ToCall(w) : w \in {w \in Wire : DecodeError(w) = None}} \subseteq Calls

\* Mutant: whatever is not one of the other errors is the client's fault.
MutDefault422(e) ==
    IF e \in {"ErrAccountNotFound", "ErrTransactionNotFound"} THEN 404
    ELSE IF e \in {"ErrAlreadyReversed", "ErrIdempotencyConflict"} THEN 409
    ELSE 422

mapError(e) ==
    CASE e \in {"ErrAccountNotFound", "ErrTransactionNotFound"} -> 404
      [] e \in {"ErrAlreadyReversed", "ErrIdempotencyConflict"} -> 409
      [] e \in {"ErrInsufficientFunds", "ErrNotReversible", "ErrSelfTransfer",
                "ErrSystemAccount", "ErrInvalidAmount"} -> 422
      [] OTHER -> 500

-----------------------------------------------------------------------------
(* Handlers *)

Refuse(r, w) ==
    /\ DecodeError(w) # None
    /\ http' = [http EXCEPT ![r] = 400]
    /\ UNCHANGED vars

Serve(r, w) ==
    /\ DecodeError(w) = None
    /\ LET c == ToCall(w)
       IN  Enter(r, c, CASE c.kind = "TRANSFER" -> TransferError(c)
                         [] c.kind = "DEPOSIT" -> DepositError(c)
                         [] c.kind = "REVERSAL" -> None)
    /\ UNCHANGED http

Receive(r, route) ==
    /\ wire[r] = None
    /\ \E w \in Wire : /\ w.route = route
                       /\ wire' = [wire EXCEPT ![r] = w]
                       /\ Refuse(r, w) \/ Serve(r, w)
    /\ UNCHANGED listed

createTransfer(r) == Receive(r, "transfer")
createDeposit(r) == Receive(r, "deposit")
reverseTransfer(r) == Receive(r, "reverse")

\* The service returned: 201 for a new transaction and for a replayed one.
Respond(r) ==
    /\ pc[r] = "done" /\ http[r] = None
    /\ http' = [http EXCEPT ![r] = IF reply[r].status = "ok" THEN 201
                                   ELSE mapError(reply[r].status)]
    /\ UNCHANGED <<vars, wire, listed>>

\* POST /api/accounts: an empty name or a broken body is refused and changes
\* nothing; otherwise a row is inserted.
createAccount ==
    /\ \E a \in AccountId : CreateAccount(a)
    /\ UNCHANGED httpVars

UserAccounts == exists \ {External}

\* Mutant: one SELECT per account.
MutOneByOne ==
    /\ \E a \in UserAccounts :
          listed' = [rows |-> [b \in DOMAIN listed.rows \cup {a} |->
                                 IF b = a THEN balance[a] ELSE listed.rows[b]],
                     external |-> balance[External]]
    /\ UNCHANGED <<vars, wire, http>>

\* GET /api/accounts: one SELECT, one snapshot.
listAccounts ==
    /\ listed' = [rows |-> [a \in UserAccounts |-> balance[a]],
                  external |-> balance[External]]
    /\ UNCHANGED <<vars, wire, http>>

-----------------------------------------------------------------------------
(* Specification *)

HttpInit ==
    /\ Init
    /\ wire = [r \in Request |-> None]
    /\ http = [r \in Request |-> None]
    /\ listed = [rows |-> [a \in UserAccounts |-> balance[a]],
                 external |-> balance[External]]

\* The handler of r inside the service, and what may befall it there.
InService(r) == Step(r) /\ UNCHANGED httpVars
Befall(r) ==
    /\ StatementFails(r) \/ Crash(r) \/ ServerAborts(r) \/ LateCommit(r)
    /\ UNCHANGED httpVars

HttpNext ==
    \/ \E r \in Request : \/ createTransfer(r) \/ createDeposit(r)
                          \/ reverseTransfer(r) \/ InService(r)
                          \/ Respond(r) \/ Befall(r)
    \/ createAccount
    \/ listAccounts

HttpSpec == HttpInit /\ [][HttpNext]_allVars

-----------------------------------------------------------------------------
(* Properties *)

\* What a status tells the client, every failure included.  201: the key names
\* one transaction, in the ledger with both entries.  A 4xx: this request
\* posted nothing and no late COMMIT of it is on its way; only a 500 leaves
\* that open.  400: the service did not even see it, so nothing was audited.
StatusIsTruth ==
    \A r \in Request :
        /\ http[r] = 201 => \E t \in txns : /\ ByKey(wire[r].key) = {t}
                                            /\ Cardinality(EntriesOf(t.id)) = 2
        /\ http[r] \in {400, 404, 409, 422}
              => ~Committed(r) /\ sess[r] # "indoubt"
        /\ http[r] = 400 => \A w \in audit : w.req # r

\* A 409 is final: the key, or the reversal of that transaction, is in the
\* ledger, so sending the request again can never post it.
ConflictIsFinal ==
    \A r \in Request : http[r] = 409
        => ByKey(wire[r].key) # {} \/ AlreadyReversed(r)

\* The sum of listed balances, counted unit by unit.
Coins(rows) == UNION {{a} \X (1 .. rows[a]) : a \in DOMAIN rows}
Sum(rows) == Cardinality(Coins(rows))

\* GET /api/accounts is a snapshot: the balances it lists are not negative and
\* add up to what EXTERNAL paid in, never showing one side of a transfer
\* without the other.
ListAddsUp ==
    /\ \A a \in DOMAIN listed.rows : listed.rows[a] >= 0
    /\ Sum(listed.rows) + listed.external = 0
=============================================================================
