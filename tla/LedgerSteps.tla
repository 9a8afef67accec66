---------------------------- MODULE LedgerSteps -----------------------------
(****************************************************************************)
(* Every step of the ledger service before the end of its database         *)
(* transaction preserves IInv: one lemma per action, and lemmas for what a *)
(* step of one request leaves alone.                                       *)
(****************************************************************************)
EXTENDS LedgerInvariant, TLAPS

-----------------------------------------------------------------------------
(* What a step leaves alone *)

\* The step changes nothing that belongs to request q.
GoKept(q) ==
    /\ pc'[q] = pc[q] /\ call'[q] = call[q] /\ found'[q] = found[q]
    /\ seen'[q] = seen[q] /\ reply'[q] = reply[q]
SessKept(q) ==
    /\ sess'[q] = sess[q] /\ write'[q] = write[q] /\ header'[q] = header[q]
    /\ legs'[q] = legs[q]
    /\ \A a \in AccountId : lock'[a] = q <=> lock[a] = q
Kept(q) == GoKept(q) /\ SessKept(q)

\* What the committed tables owe to request q: nothing of q's appears, nothing
\* is lost, and the rows q has locked keep their balance.
TablesServe(q) ==
    /\ exists \subseteq exists' /\ txns \subseteq txns'
    /\ \A t \in txns' : t.id = q => t \in txns
    /\ \A e \in entries' : e.tx = q => e \in entries
    /\ Stage(q) \in Writing =>
          /\ balance'[call[q].from] = balance[call[q].from]
          /\ balance'[call[q].to] = balance[call[q].to]
    /\ Stage(q) \in InTx \cup {"begin"} /\ call[q].kind = "REVERSAL"
          => MirrorOf(call[q])'

\* A request whose variables do not change keeps its part of the invariant.
LEMMA Frame ==
  ASSUME NEW q \in Request, ReqInv(q), Kept(q), TablesServe(q)
  PROVE  ReqInv(q)'
<1>1. /\ Stage(q)' = Stage(q) /\ pc'[q] = pc[q] /\ call'[q] = call[q]
      /\ sess'[q] = sess[q]
  BY DEF Kept, GoKept, SessKept, Stage
<1>2. CallOK(q)' /\ MirrorOK(q)'
  BY <1>1, Zenon DEF ReqInv, CallOK, MirrorOK, TablesServe, Valid
<1>3. SessOK(q)' /\ FreshOK(q)'
  BY Zenon, <1>1
     DEF ReqInv, SessOK, FreshOK, TablesServe, Kept, SessKept, NoWrites
<1>4. LockOK(q)'
  <2>1. Stage(q) \in Writing => call[q].from \in AccountId /\ call[q].to \in AccountId
    BY DEF ReqInv, CallOK, Valid, Writing, InTx
  <2> QED
    BY Zenon, <1>1, <2>1 DEF ReqInv, LockOK, TablesServe, Kept, GoKept, SessKept
<1>5. RowOK(q)'
  <2>1. /\ seen'[q] = seen[q] /\ write'[q] = write[q]
        /\ header'[q] = header[q] /\ legs'[q] = legs[q]
    BY DEF Kept, GoKept, SessKept
  <2>2. \A a : Debited(q, a)' = Debited(q, a) /\ Credited(q, a)' = Credited(q, a)
    BY Zenon, <1>1 DEF Debited, Credited
  <2> QED
    BY <1>1, <2>1, <2>2, Zenon DEF ReqInv, RowOK, NoWrites
<1>6. ReplyOK(q)'
  BY Zenon, <1>1 DEF ReqInv, ReplyOK, TablesServe, Kept, GoKept, NoReply
<1> QED
  BY Zenon, <1>2, <1>3, <1>4, <1>5, <1>6 DEF ReqInv

\* Steps that leave the committed tables alone.
LEMMA BooksKept ==
  ASSUME Books, UNCHANGED tables
  PROVE  Books'
<1> USE DEF tables
<1>1. BookInv'
  <2>1. \A t : Balanced(t)' = Balanced(t)
    BY ZenonT(40) DEF Balanced, EntriesOf
  <2> QED BY Zenon, <2>1 DEF Books, BookInv
<1>2. BalanceMatchesEntries'
  BY DEF Books, BalanceMatchesEntries, Credits, Debits
<1>3. ReversalMirrors'
  <2>1. \A id : /\ Legs(id)' = Legs(id) /\ FlippedLegs(id)' = FlippedLegs(id)
    BY DEF Legs, FlippedLegs, EntriesOf
  <2> QED BY Zenon, <2>1 DEF Books, ReversalMirrors
<1> QED
  BY Zenon, <1>1, <1>2, <1>3 DEF Books

LEMMA FrameTables ==
  ASSUME NEW q \in Request, ReqInv(q), Kept(q), UNCHANGED tables
  PROVE  ReqInv(q)'
<1>1. /\ exists' = exists /\ balance' = balance /\ txns' = txns
      /\ entries' = entries /\ call'[q] = call[q]
  BY DEF tables, Kept, GoKept
<1>2. MirrorOf(call[q])' = MirrorOf(call[q])
  BY <1>1, Zenon DEF MirrorOf, ById, EntriesOf
<1>3. TablesServe(q)
  BY Zenon, <1>1, <1>2 DEF TablesServe, ReqInv, MirrorOK
<1> QED
  BY Zenon, <1>3, Frame

\* A step of r inside its database transaction.
LEMMA TxStep ==
  ASSUME IInv, NEW r \in Request, UNCHANGED tables, TypeOK', UniqueInv',
         \A q \in Request \ {r} : Kept(q), ReqInv(r)'
  PROVE  IInv'
<1>1. ASSUME NEW q \in Request PROVE ReqInv(q)'
  <2>1. CASE q = r
    BY Zenon, <2>1
  <2>2. CASE q # r
    BY Zenon, <2>2, FrameTables DEF IInv
  <2> QED
    BY Zenon, <2>1, <2>2
<1> QED
  BY Zenon, <1>1, BooksKept DEF IInv

LEMMA AuditKept ==
  ASSUME IInv, UNCHANGED dbVars
  PROVE  UNCHANGED tables /\ audit' \subseteq AuditRow
  BY DEF IInv, TypeOK, DbType, dbVars

\* A step of the Go code of r: no ledger table and no session changes.
LEMMA GoStep ==
  ASSUME IInv, NEW r \in Request, UNCHANGED <<tables, sessVars>>,
         audit' \subseteq AuditRow, GoType',
         \A q \in Request \ {r} : GoKept(q), ReqInv(r)'
  PROVE  IInv'
<1>1. TypeOK'
  BY DEF IInv, TypeOK, DbType, SessType, sessVars, tables
<1>2. UniqueInv'
  BY DEF IInv, UniqueInv, sessVars, tables
<1>3. \A q \in Request \ {r} : Kept(q)
  BY DEF Kept, SessKept, sessVars
<1> QED
  BY Zenon, <1>1, <1>2, <1>3, TxStep

-----------------------------------------------------------------------------
(* A request outside its database transaction *)

\* Labels at which a handler is past its transaction, or never had one.
After == {"refetch", "auditFailure", "done", "dead"}

\* A handler that goes on after its transaction: all it still owes is an
\* unanswered COMMIT, which its own steps do not disturb.
LEMMA Outside ==
  ASSUME NEW r \in Request, ReqInv(r), UNCHANGED <<tables, sessVars>>,
         pc'[r] \in After, call'[r] \in Call,
         call'[r].kind = "REVERSAL" <=> call'[r].orig # None,
         sess[r] # "none" => call'[r] = call[r] /\ seen'[r] = seen[r],
         ReplyOK(r)'
  PROVE  ReqInv(r)'
<1>1. /\ exists' = exists /\ balance' = balance /\ txns' = txns
      /\ entries' = entries /\ sess' = sess /\ lock' = lock
      /\ write' = write /\ header' = header /\ legs' = legs
  BY DEF tables, sessVars
<1>2. SessOK(r)' /\ FreshOK(r)'
  BY Zenon, <1>1 DEF After, ReqInv, SessOK, FreshOK, InTx, NoWrites
<1>3. CASE sess[r] = "indoubt"
  <2>1. /\ Stage(r)' = Stage(r) /\ Stage(r) = "commit" /\ call'[r] = call[r]
        /\ seen'[r] = seen[r]
    BY Zenon, <1>1, <1>3 DEF Stage
  <2>2. CallOK(r)'
    BY Zenon, <2>1 DEF ReqInv, CallOK, After, Valid
  <2>3. MirrorOK(r)'
    <3>1. MirrorOf(call[r])' = MirrorOf(call[r])
      BY <1>1, <2>1, Zenon DEF MirrorOf, ById, EntriesOf
    <3> QED
      BY Zenon, <2>1, <3>1 DEF ReqInv, MirrorOK
  <2>4. LockOK(r)'
    BY Zenon, <1>1, <2>1 DEF ReqInv, LockOK, After
  <2>5. RowOK(r)'
    <3>1. \A a : Debited(r, a)' = Debited(r, a) /\ Credited(r, a)' = Credited(r, a)
      BY Zenon, <2>1 DEF Debited, Credited
    <3> QED
      BY <1>1, <2>1, <3>1, Zenon DEF ReqInv, RowOK, NoWrites
  <2> QED
    BY Zenon, <1>2, <2>2, <2>3, <2>4, <2>5 DEF ReqInv
<1>4. CASE sess[r] # "indoubt"
  <2>1. Stage(r)' \in After /\ pc'[r] \in After
    BY Zenon, <1>1, <1>4 DEF Stage
  <2>2. CallOK(r)' /\ MirrorOK(r)' /\ LockOK(r)' /\ RowOK(r)'
    BY Zenon, <2>1 DEF CallOK, MirrorOK, LockOK, RowOK, After, InTx, Writing
  <2> QED
    BY Zenon, <1>2, <2>2 DEF ReqInv
<1> QED
  BY Zenon, <1>3, <1>4

\* A step of the Go code of r that ends past the transaction.
LEMMA OutsideStep ==
  ASSUME IInv, NEW r \in Request, UNCHANGED <<tables, sessVars>>,
         audit' \subseteq AuditRow, NEW l \in After, Goto(r, l), pc[r] # "idle",
         UNCHANGED <<call, found, seen>>,
         err' \in [Request -> Error \cup {None}], reply' \in [Request -> Reply],
         \A q \in Request \ {r} : reply'[q] = reply[q], ReplyOK(r)'
  PROVE  IInv'
<1>1. GoType /\ ReqInv(r)
  BY DEF IInv, TypeOK
<1>2. /\ pc' \in [Request -> Labels] /\ pc'[r] = l
      /\ \A q \in Request \ {r} : pc'[q] = pc[q]
  BY Zenon, <1>1 DEF GoType, Goto, After, Labels
<1>3. GoType'
  BY Zenon, <1>1, <1>2 DEF GoType
<1>4. \A q \in Request \ {r} : GoKept(q)
  BY Zenon, <1>2 DEF GoKept
<1>5. ReqInv(r)'
  <2>1. call[r] \in Call /\ (call[r].kind = "REVERSAL" <=> call[r].orig # None)
    BY Zenon, <1>1 DEF ReqInv, CallOK
  <2> QED
    BY Zenon, <1>1, <1>2, <2>1, Outside
<1> QED
  BY Zenon, <1>3, <1>4, <1>5, GoStep

\* A handler that has not begun its transaction yet.
LEMMA Before ==
  ASSUME NEW r \in Request, ReqInv(r), UNCHANGED <<tables, sessVars>>,
         sess[r] = "none", pc[r] # "done",
         pc'[r] \in {"lookup", "loadOriginal", "begin"},
         UNCHANGED reply, CallOK(r)', MirrorOK(r)'
  PROVE  ReqInv(r)'
<1>1. /\ exists' = exists /\ balance' = balance /\ txns' = txns
      /\ entries' = entries /\ sess' = sess /\ lock' = lock
      /\ write' = write /\ header' = header /\ legs' = legs
  BY DEF tables, sessVars
<1>2. Stage(r)' = pc'[r]
  BY Zenon, <1>1 DEF Stage
<1>3. SessOK(r)' /\ FreshOK(r)'
  BY Zenon, <1>1 DEF ReqInv, SessOK, FreshOK, InTx, NoWrites
<1>4. LockOK(r)'
  BY Zenon, <1>2 DEF LockOK, Writing
<1>5. RowOK(r)'
  BY Zenon, <1>1, <1>2 DEF RowOK, ReqInv, SessOK, Writing, NoWrites
<1>6. ReplyOK(r)'
  <2>1. reply'[r] = NoReply /\ sess'[r] = "none"
    BY Zenon, <1>1 DEF ReqInv, ReplyOK
  <2>2. reply'[r].status # "ok"
    BY <2>1, NoneAssumption DEF NoReply
  <2> QED
    BY Zenon, <2>1, <2>2 DEF ReplyOK
<1> QED
  BY Zenon, <1>3, <1>4, <1>5, <1>6 DEF ReqInv

\* A handler between two statements of its open transaction.
LEMMA Inside ==
  ASSUME NEW r \in Request, ReqInv(r), UNCHANGED <<tables, call, sess, reply>>,
         pc[r] \in InTx, pc'[r] \in InTx, LockOK(r)', RowOK(r)'
  PROVE  ReqInv(r)'
<1>1. /\ exists' = exists /\ balance' = balance /\ txns' = txns
      /\ entries' = entries /\ sess' = sess /\ call' = call /\ reply' = reply
  BY DEF tables
<1>2. sess[r] = "open" /\ Stage(r) = pc[r] /\ Stage(r)' = pc'[r]
  BY Zenon, <1>1 DEF Stage, ReqInv, SessOK
<1>3. CallOK(r)'
  BY Zenon, <1>1, <1>2 DEF ReqInv, CallOK, InTx, Valid
<1>4. MirrorOK(r)'
  <2>1. MirrorOf(call[r])' = MirrorOf(call[r])
    BY <1>1, Zenon DEF MirrorOf, ById, EntriesOf
  <2> QED
    BY Zenon, <1>1, <1>2, <2>1 DEF ReqInv, MirrorOK
<1>5. SessOK(r)' /\ FreshOK(r)'
  BY Zenon, <1>1, <1>2 DEF ReqInv, SessOK, FreshOK, InTx, NoWrites
<1>6. ReplyOK(r)'
  BY Zenon, <1>1, <1>2 DEF ReplyOK, ReqInv, NoReply, InTx
<1> QED
  BY Zenon, <1>3, <1>4, <1>5, <1>6 DEF ReqInv

-----------------------------------------------------------------------------
(* Before the database transaction *)

\* Entering an operation: the checks before any statement.
LEMMA EnterStep ==
  ASSUME IInv, NEW r \in Request, pc[r] = "idle", NEW c \in Calls,
         NEW e \in DomainError \cup {None},
         e = None /\ c.kind # "REVERSAL" => Valid(c),
         Enter(r, c, e)
  PROVE  IInv'
<1>1. c \in Call /\ (c.kind = "REVERSAL" <=> c.orig # None)
  BY Zenon, CallAssumption
<1>2. GoType /\ ReqInv(r)
  BY DEF IInv, TypeOK
<1>3. sess[r] = "none" /\ reply[r] = NoReply
  BY Zenon, <1>2 DEF ReqInv, SessOK, ReplyOK
<1>4. /\ UNCHANGED <<dbVars, sessVars, found, seen, reply>>
      /\ pc'[r] = IF e = None THEN "lookup" ELSE "auditFailure"
      /\ call'[r] = c
      /\ \A q \in Request \ {r} : pc'[q] = pc[q] /\ call'[q] = call[q]
  BY Zenon, <1>2 DEF Enter, Goto, GoType
<1>5. GoType'
  BY Zenon, <1>1, <1>2 DEF Enter, Goto, GoType, Error, Labels
<1>6. \A q \in Request \ {r} : GoKept(q)
  BY Zenon, <1>4 DEF GoKept
<1>7. UNCHANGED <<tables, sessVars>> /\ audit' \subseteq AuditRow
  BY Zenon, <1>4, AuditKept
<1>8. ReqInv(r)'
  <2>1. CASE e = None
    <3>1. pc'[r] = "lookup" /\ Stage(r)' = "lookup"
      BY Zenon, <1>3, <1>4, <2>1 DEF Stage, sessVars
    <3>2. CallOK(r)' /\ MirrorOK(r)'
      BY Zenon, <1>1, <1>4, <2>1, <3>1 DEF CallOK, MirrorOK, InTx, Valid
    <3> QED
      BY Zenon, <1>2, <1>3, <1>4, <1>7, <3>1, <3>2, Before
  <2>2. CASE e # None
    <3>1. ReplyOK(r)'
      BY <1>3, <1>4, NoneAssumption DEF ReplyOK, NoReply, sessVars
    <3> QED
      BY Zenon, <1>1, <1>2, <1>3, <1>4, <1>7, <2>2, <3>1, Outside DEF After
  <2> QED
    BY Zenon, <2>1, <2>2
<1> QED
  BY Zenon, <1>5, <1>6, <1>7, <1>8, GoStep

LEMMA TransferStep ==
  ASSUME IInv, NEW r \in Request, Transfer(r)
  PROVE  IInv'
<1> PICK c \in Calls : c.kind = "TRANSFER" /\ Enter(r, c, TransferError(c))
  BY DEF Transfer
<1>1. c \in Call /\ c.from \in AccountId /\ c.to \in AccountId /\ c.amount \in Int
  BY Zenon, CallAssumption DEF Call
<1>2. TransferError(c) \in DomainError \cup {None}
  BY DEF TransferError, DomainError
<1>3. TransferError(c) = None => Valid(c)
  BY <1>1, NoneAssumption DEF TransferError, Valid, Error, DomainError
<1> QED
  BY Zenon, <1>2, <1>3, EnterStep DEF Transfer

LEMMA DepositStep ==
  ASSUME IInv, NEW r \in Request, Deposit(r)
  PROVE  IInv'
<1> PICK c \in Calls : c.kind = "DEPOSIT" /\ Enter(r, c, DepositError(c))
  BY DEF Deposit
<1>1. c \in Call /\ c.from = External /\ c.to \in AccountId /\ c.amount \in Int
  BY Zenon, CallAssumption DEF Call
<1>2. DepositError(c) \in DomainError \cup {None}
  BY DEF DepositError, DomainError
<1>3. DepositError(c) = None => Valid(c)
  BY <1>1, AccountAssumption, NoneAssumption
     DEF DepositError, Valid, Error, DomainError
<1> QED
  BY Zenon, <1>2, <1>3, EnterStep DEF Deposit

LEMMA ReverseStep ==
  ASSUME IInv, NEW r \in Request, Reverse(r)
  PROVE  IInv'
  BY Zenon, EnterStep DEF Reverse

\* An answer ends the call.
LEMMA AnswerStep ==
  ASSUME IInv, NEW r \in Request, pc[r] \notin {"idle", "done"},
         NEW status \in Error \cup {"ok", None}, NEW tx \in TxId \cup {None},
         NEW rows \in SUBSET EntryRow, Return(r, status, tx, rows),
         status = "ok" => \E t \in txns : t.id = tx /\ t.key = call[r].key,
         UNCHANGED <<tables, sessVars, call, found, seen, err>>,
         audit' \subseteq AuditRow
  PROVE  IInv'
<1>1. GoType /\ ReqInv(r)
  BY DEF IInv, TypeOK
<1>2. [status |-> status, tx |-> tx, entries |-> rows] \in Reply
  BY DEF Reply
<1>3. /\ reply' \in [Request -> Reply]
      /\ reply'[r].status = status /\ reply'[r].tx = tx
      /\ \A q \in Request \ {r} : reply'[q] = reply[q]
      /\ pc'[r] = "done"
  BY Zenon, <1>1, <1>2 DEF GoType, Return, Goto
<1>4. ReplyOK(r)'
  BY Zenon, <1>1, <1>3 DEF ReqInv, ReplyOK, tables, sessVars
<1>5. err' \in [Request -> Error \cup {None}] /\ Goto(r, "done")
  BY Zenon, <1>1 DEF GoType, Return
<1> QED
  BY Zenon, <1>3, <1>4, <1>5, OutsideStep DEF After

\* A replay answers the call and changes nothing else.
LEMMA ReplayStep ==
  ASSUME IInv, NEW r \in Request, pc[r] \in {"lookup", "refetch"}, Replay(r)
  PROVE  IInv'
<1> PICK t \in ByKey(call[r].key) : Return(r, "ok", t.id, EntriesOf(t.id))
  BY DEF Replay
<1>1. t \in txns /\ t.key = call[r].key
  BY DEF ByKey
<1>2. t.id \in TxId /\ EntriesOf(t.id) \in SUBSET EntryRow
  BY Zenon, <1>1 DEF IInv, TypeOK, DbType, TxnRow, EntriesOf
<1>3. /\ UNCHANGED <<tables, sessVars, call, found, seen, err>>
      /\ audit' \subseteq AuditRow
  BY Zenon, AuditKept DEF Replay
<1> QED
  BY <1>1, <1>2, <1>3, AnswerStep, Zenon

\* Moves of the Go code past the transaction.
LEMMA MoveStep ==
  ASSUME IInv, NEW r \in Request, NEW l \in {"refetch", "auditFailure", "dead"},
         pc[r] \notin {"idle", "done"},
         Goto(r, l), err' \in [Request -> Error \cup {None}],
         UNCHANGED <<dbVars, sessVars, call, found, seen, reply>>
  PROVE  IInv'
<1>1. GoType /\ ReqInv(r)
  BY DEF IInv, TypeOK
<1>2. ReplyOK(r)'
  BY Zenon, <1>1 DEF ReqInv, ReplyOK, dbVars, tables, sessVars, NoReply
<1> QED
  BY Zenon, <1>1, <1>2, AuditKept, OutsideStep DEF After, GoType

LEMMA RejectStep ==
  ASSUME IInv, NEW r \in Request, pc[r] \in {"loadOriginal", "begin"},
         NEW e \in Error, Reject(r, e)
  PROVE  IInv'
<1>1. err' \in [Request -> Error \cup {None}]
  BY DEF IInv, TypeOK, GoType, Reject
<1> QED
  BY Zenon, <1>1, MoveStep DEF Reject

LEMMA LookupStep ==
  ASSUME IInv, NEW r \in Request, Lookup(r)
  PROVE  IInv'
<1>1. CASE Replay(r)
  BY Zenon, <1>1, ReplayStep DEF Lookup
<1>2. CASE ~Replay(r)
  <2> PICK l \in {"loadOriginal", "begin"} :
         l = IF call[r].kind = "REVERSAL" THEN "loadOriginal" ELSE "begin"
    OBVIOUS
  <2>1. /\ pc[r] = "lookup" /\ Goto(r, l)
        /\ UNCHANGED <<dbVars, sessVars, call, found, seen, err, reply>>
    BY Zenon, <1>2 DEF Lookup
  <2>2. GoType /\ ReqInv(r)
    BY DEF IInv, TypeOK
  <2>3. /\ sess[r] = "none" /\ sess'[r] = "none" /\ call' = call
        /\ UNCHANGED <<tables, sessVars>> /\ audit' \subseteq AuditRow
    BY Zenon, <2>1, <2>2, AuditKept DEF ReqInv, SessOK, sessVars
  <2>4. /\ pc'[r] = l /\ \A q \in Request \ {r} : pc'[q] = pc[q]
        /\ GoType'
    BY Zenon, <2>1, <2>2 DEF GoType, Goto, Labels
  <2>5. Stage(r)' = l /\ Stage(r) = "lookup"
    BY Zenon, <2>1, <2>3, <2>4 DEF Stage
  <2>6. CallOK(r)' /\ MirrorOK(r)'
    BY Zenon, <2>1, <2>2, <2>3, <2>4, <2>5
       DEF ReqInv, CallOK, MirrorOK, InTx, Valid
  <2>7. ReqInv(r)'
    BY Zenon, <2>1, <2>2, <2>3, <2>4, <2>6, Before
  <2>8. \A q \in Request \ {r} : GoKept(q)
    BY Zenon, <2>1, <2>4 DEF GoKept
  <2> QED
    BY Zenon, <2>3, <2>4, <2>7, <2>8, GoStep
<1> QED
  BY Zenon, <1>1, <1>2

LEMMA RefetchStep ==
  ASSUME IInv, NEW r \in Request, Refetch(r)
  PROVE  IInv'
<1>1. CASE Replay(r)
  BY Zenon, <1>1, ReplayStep DEF Refetch
<1>2. CASE ~Replay(r)
  <2>1. err' \in [Request -> Error \cup {None}]
    BY Zenon, <1>2 DEF Refetch, IInv, TypeOK, GoType
  <2> QED BY Zenon, <1>2, <2>1, MoveStep DEF Refetch
<1> QED
  BY Zenon, <1>1, <1>2

\* What Reverse makes of a transfer's two entries.
LEMMA MirrorIsValid ==
  ASSUME IInv, NEW c \in Call, c.kind = "REVERSAL",
         NEW t \in ById(c.orig), t.kind = "TRANSFER",
         NEW d \in Side(EntriesOf(t.id), "DEBIT"),
         NEW k \in Side(EntriesOf(t.id), "CREDIT")
  PROVE  LET m == Mirror(c, d, k) IN Valid(m) /\ MirrorOf(m)
<1> DEFINE m == Mirror(c, d, k)
<1>1. t \in txns /\ t.id = c.orig
  BY DEF ById
<1>2. /\ EntriesOf(t.id) = {d, k}
      /\ d.dir = "DEBIT" /\ k.dir = "CREDIT" /\ d.amount = k.amount
      /\ d.account # k.account /\ k.account # External
      /\ d.account # External
  <2>1. PICK x, y \in EntriesOf(t.id) :
           /\ EntriesOf(t.id) = {x, y}
           /\ x.dir = "DEBIT" /\ y.dir = "CREDIT" /\ x.amount = y.amount
           /\ x.account # y.account /\ y.account # External
           /\ x.account = External <=> t.kind = "DEPOSIT"
    BY Zenon, <1>1 DEF IInv, Books, BookInv, Balanced
  <2>2. d = x /\ k = y
    BY Zenon, <2>1 DEF Side
  <2> QED BY Zenon, <2>1, <2>2
<1>3. /\ d \in EntryRow /\ k \in EntryRow /\ d.tx = c.orig /\ k.tx = c.orig
  BY Zenon, <1>1 DEF Side, EntriesOf, IInv, TypeOK, DbType
<1>4. /\ m \in Call /\ m.kind = "REVERSAL" /\ m.orig = c.orig
      /\ m.from = k.account /\ m.to = d.account /\ m.amount = d.amount
  <2>1. PICK x \in AccountId, y \in AccountId, n \in Int :
           x = k.account /\ y = d.account /\ n = d.amount
    BY <1>3 DEF EntryRow
  <2>2. m = [c EXCEPT !.from = x, !.to = y, !.amount = n]
    BY Zenon, <2>1 DEF Mirror
  <2> HIDE DEF m
  <2> QED BY Zenon, <2>1, <2>2 DEF Call
<1>5. d = Entry(c.orig, d.account, "DEBIT", d.amount)
  BY Zenon, <1>2, <1>3 DEF Entry, EntryRow
<1>6. k = Entry(c.orig, k.account, "CREDIT", k.amount)
  BY Zenon, <1>2, <1>3 DEF Entry, EntryRow
<1> HIDE DEF m
<1>7. Valid(m)
  BY Zenon, <1>2, <1>3, <1>4 DEF Valid, EntryRow
<1>8. MirrorOf(m)
  BY Zenon, <1>1, <1>2, <1>4, <1>5, <1>6 DEF MirrorOf, ById
<1> QED
  BY Zenon, <1>7, <1>8 DEF m

LEMMA LoadOriginalStep ==
  ASSUME IInv, NEW r \in Request, LoadOriginal(r)
  PROVE  IInv'
<1>1. ASSUME NEW e \in Error, Reject(r, e) PROVE IInv'
  BY Zenon, <1>1, RejectStep DEF LoadOriginal
<1>2. ASSUME NEW t \in ById(call[r].orig), t.kind = "TRANSFER",
             NEW d \in Side(EntriesOf(t.id), "DEBIT"),
             NEW k \in Side(EntriesOf(t.id), "CREDIT"),
             call' = [call EXCEPT ![r] = Mirror(@, d, k)],
             Goto(r, "begin"),
             UNCHANGED <<dbVars, sessVars, found, seen, err, reply>>
      PROVE  IInv'
  <2> PICK m : m = Mirror(call[r], d, k)
    OBVIOUS
  <2>1. GoType /\ ReqInv(r)
    BY DEF IInv, TypeOK
  <2>2. /\ pc[r] = "loadOriginal" /\ sess[r] = "none"
        /\ call[r] \in Call /\ call[r].kind = "REVERSAL" /\ call[r].orig # None
    BY Zenon, <2>1 DEF LoadOriginal, ReqInv, CallOK, SessOK
  <2>3. Valid(m) /\ MirrorOf(m)
    BY Zenon, <1>2, <2>2, MirrorIsValid
  <2>4. m \in Call /\ m.kind = "REVERSAL" /\ m.orig # None
    BY Zenon, <2>2, <2>3 DEF Mirror, Call, Valid
  <2>5. /\ pc'[r] = "begin" /\ call'[r] = m /\ GoType'
        /\ \A q \in Request \ {r} : pc'[q] = pc[q] /\ call'[q] = call[q]
    BY Zenon, <1>2, <2>1, <2>4 DEF GoType, Goto, Labels
  <2>6. UNCHANGED <<tables, sessVars>> /\ audit' \subseteq AuditRow
    BY Zenon, <1>2, AuditKept
  <2>7. Stage(r)' = "begin"
    BY Zenon, <2>2, <2>5, <2>6 DEF Stage, sessVars
  <2>8. CallOK(r)'
    BY Zenon, <2>3, <2>4, <2>5, <2>7 DEF CallOK, InTx, Valid
  <2>9. MirrorOK(r)'
    <3>1. MirrorOf(call[r])'
      BY <2>3, <2>5, <2>6, Zenon DEF MirrorOf, ById, EntriesOf, tables
    <3> QED
      BY Zenon, <3>1 DEF MirrorOK
  <2>10. ReqInv(r)'
    BY Zenon, <1>2, <2>1, <2>2, <2>5, <2>6, <2>8, <2>9, Before
  <2>11. \A q \in Request \ {r} : GoKept(q)
    BY Zenon, <1>2, <2>5 DEF GoKept
  <2> QED
    BY Zenon, <2>5, <2>6, <2>10, <2>11, GoStep
<1> QED
  BY Zenon, <1>1, <1>2 DEF LoadOriginal, Error, DomainError

-----------------------------------------------------------------------------
(* After the database transaction *)

LEMMA AuditStep ==
  ASSUME IInv, NEW r \in Request, AuditSuccess(r) \/ AuditFailure(r)
  PROVE  IInv'
<1>1. audit \subseteq AuditRow /\ ReqInv(r) /\ err[r] \in Error \cup {None}
  BY DEF IInv, TypeOK, DbType, GoType
<1>2. CASE AuditSuccess(r)
  <2>1. [req |-> r, outcome |-> "SUCCESS", reason |-> None, tx |-> r] \in AuditRow
    BY DEF AuditRow
  <2>2. audit' \subseteq AuditRow
    BY Zenon, <1>1, <1>2, <2>1 DEF AuditSuccess, WriteAudit
  <2>3. pc[r] = "auditSuccess" /\ \E t \in txns : t.id = r /\ t.key = call[r].key
    BY Zenon, <1>1, <1>2 DEF AuditSuccess, ReqInv, SessOK, ReplyOK
  <2>4. "ok" \in Error \cup {"ok", None} /\ r \in TxId \cup {None}
        /\ {} \in SUBSET EntryRow
    BY DEF TxId
  <2>5. /\ Return(r, "ok", r, {})
        /\ UNCHANGED <<tables, sessVars, call, found, seen, err>>
    BY Zenon, <1>2 DEF AuditSuccess
  <2> QED BY Zenon, <2>2, <2>3, <2>4, <2>5, AnswerStep
<1>3. CASE AuditFailure(r)
  <2>1. err[r] # "ok"
    BY Zenon, <1>1, NoneAssumption DEF Error, DomainError
  <2>2. [req |-> r, outcome |-> "FAILURE", reason |-> err[r], tx |-> None]
          \in AuditRow
    BY Zenon, <1>1 DEF AuditRow
  <2>3. audit' \subseteq AuditRow
    BY Zenon, <1>1, <1>3, <2>2 DEF AuditFailure, WriteAudit
  <2>4. err[r] \in Error \cup {"ok", None} /\ {} \in SUBSET EntryRow
    BY Zenon, <1>1
  <2>5. /\ Return(r, err[r], None, {}) /\ pc[r] = "auditFailure"
        /\ UNCHANGED <<tables, sessVars, call, found, seen, err>>
    BY Zenon, <1>3 DEF AuditFailure
  <2> QED BY Zenon, <2>1, <2>3, <2>4, <2>5, AnswerStep
<1> QED
  BY Zenon, <1>2, <1>3

LEMMA CreateAccountStep ==
  ASSUME IInv, NEW a \in AccountId, CreateAccount(a)
  PROVE  IInv'
<1>1. balance[a] = 0 /\ balance \in [AccountId -> Int] /\ a \notin exists
  BY Zenon DEF CreateAccount, IInv, Books, BookInv, TypeOK, DbType
<1>2. balance' = balance
  BY Zenon, <1>1 DEF CreateAccount
<1>3. /\ exists' = exists \cup {a} /\ txns' = txns /\ entries' = entries
      /\ UNCHANGED <<audit, sessVars, goVars>>
  BY Zenon, <1>2 DEF CreateAccount
<1>4. TypeOK'
  BY Zenon, <1>2, <1>3
     DEF IInv, TypeOK, DbType, SessType, GoType, sessVars, goVars
<1>5. UniqueInv'
  BY Zenon, <1>3 DEF IInv, UniqueInv, sessVars
<1>6. BookInv'
  <2>1. \A t : Balanced(t)' = Balanced(t)
    BY ZenonT(30), <1>3 DEF Balanced, EntriesOf
  <2> QED BY Zenon, <1>2, <1>3, <2>1 DEF IInv, Books, BookInv
<1>7. BalanceMatchesEntries' /\ ReversalMirrors'
  BY Zenon, <1>2, <1>3 DEF IInv, Books, BalanceMatchesEntries, Credits, Debits,
                    ReversalMirrors, Legs, FlippedLegs, EntriesOf
<1>8. ASSUME NEW q \in Request PROVE ReqInv(q)'
  <2>1. Kept(q) /\ ReqInv(q)
    BY Zenon, <1>3 DEF Kept, GoKept, SessKept, sessVars, goVars, IInv
  <2>2. MirrorOf(call[q])' = MirrorOf(call[q])
    BY <1>3, Zenon DEF MirrorOf, ById, EntriesOf, goVars
  <2>3. TablesServe(q)
    BY Zenon, <1>2, <1>3, <2>1, <2>2 DEF TablesServe, ReqInv, MirrorOK
  <2> QED
    BY Zenon, <2>1, <2>3, Frame
<1> QED
  BY Zenon, <1>2, <1>4, <1>5, <1>6, <1>7, <1>8 DEF IInv, Books

-----------------------------------------------------------------------------
(* The statements of a business transaction, short of its COMMIT *)

\* A request's part of a step that only touches r.
LEMMA OthersKept ==
  ASSUME NEW r \in Request,
         \A q \in Request \ {r} :
            /\ pc'[q] = pc[q] /\ sess'[q] = sess[q] /\ write'[q] = write[q]
            /\ header'[q] = header[q] /\ legs'[q] = legs[q]
            /\ found'[q] = found[q] /\ seen'[q] = seen[q]
            /\ \A a \in AccountId : lock'[a] = q <=> lock[a] = q,
         UNCHANGED <<call, reply>>
  PROVE  \A q \in Request \ {r} : Kept(q)
  BY DEF Kept, GoKept, SessKept

LEMMA FailStep ==
  ASSUME IInv, NEW r \in Request, pc[r] \in InTx, NEW e \in Error, Fail(r, e)
  PROVE  IInv'
<1>1. GoType /\ ReqInv(r)
  BY DEF IInv, TypeOK
<1>2. /\ UNCHANGED <<dbVars, sessVars, call, found, seen, reply>>
      /\ pc'[r] = "rollback" /\ \A q \in Request \ {r} : pc'[q] = pc[q]
      /\ GoType'
  BY Zenon, <1>1 DEF Fail, Goto, GoType, Labels, InTx
<1>3. UNCHANGED <<tables, sessVars>> /\ audit' \subseteq AuditRow
  BY Zenon, <1>2, AuditKept
<1>4. Stage(r)' = "rollback"
  BY Zenon, <1>1, <1>2 DEF Stage, ReqInv, SessOK, sessVars
<1>5. LockOK(r)' /\ RowOK(r)'
  BY Zenon, <1>2, <1>4 DEF LockOK, RowOK, Writing
<1>6. ReqInv(r)'
  BY Zenon, <1>1, <1>2, <1>3, <1>5, Inside DEF sessVars, InTx
<1>7. \A q \in Request \ {r} : GoKept(q)
  BY Zenon, <1>2 DEF GoKept
<1> QED
  BY Zenon, <1>2, <1>3, <1>6, <1>7, GoStep

LEMMA StatementFailsStep ==
  ASSUME IInv, NEW r \in Request, StatementFails(r)
  PROVE  IInv'
  BY Zenon, FailStep DEF StatementFails, Error

LEMMA BeginTxStep ==
  ASSUME IInv, NEW r \in Request, BeginTx(r)
  PROVE  IInv'
<1>1. ReqInv(r) /\ DbType /\ SessType /\ GoType
  BY DEF IInv, TypeOK
<1>2. pc[r] = "begin" /\ sess[r] = "none" /\ Stage(r) = "begin"
  BY Zenon, <1>1 DEF BeginTx, ReqInv, SessOK, Stage
<1>3. ASSUME Reject(r, "DbError") PROVE IInv'
  BY Zenon, <1>2, <1>3, RejectStep DEF Error
<1>4. ASSUME Return(r, "DbError", None, {}),
             UNCHANGED <<dbVars, sessVars, call, found, seen, err>>
      PROVE  IInv'
  <2>1. "DbError" \in Error \cup {"ok", None} /\ {} \in SUBSET EntryRow
    BY DEF Error
  <2>2. /\ UNCHANGED <<tables, sessVars, call, found, seen, err>>
        /\ audit' \subseteq AuditRow
    BY Zenon, <1>4, AuditKept
  <2> QED
    BY Zenon, <1>2, <1>4, <2>1, <2>2, AnswerStep
<1>5. ASSUME sess' = [sess EXCEPT ![r] = "open"],
             found' = [found EXCEPT
                         ![r] = {call[r].from, call[r].to} \cap exists],
             Goto(r, "lock"),
             UNCHANGED <<dbVars, lock, write, header, legs,
                         call, seen, err, reply>>
      PROVE  IInv'
  <2>1. /\ pc'[r] = "lock" /\ sess'[r] = "open"
        /\ found'[r] = {call[r].from, call[r].to} \cap exists
        /\ \A q \in Request \ {r} :
              pc'[q] = pc[q] /\ sess'[q] = sess[q] /\ found'[q] = found[q]
    BY Zenon, <1>1, <1>5 DEF Goto, SessType, GoType
  <2>2. UNCHANGED tables /\ audit' \subseteq AuditRow /\ exists' = exists
        /\ txns' = txns /\ entries' = entries
    BY Zenon, <1>5, AuditKept DEF tables
  <2>3. GoType'
    BY Zenon, <1>1, <1>5 DEF GoType, DbType, Goto, Labels, InTx
  <2>4. SessType' /\ DbType'
    BY Zenon, <1>1, <1>5, <2>2 DEF SessType, DbType, tables
  <2>5. UniqueInv'
    BY Zenon, <1>5, <2>2 DEF IInv, UniqueInv
  <2>6. \A q \in Request \ {r} : Kept(q)
    BY Zenon, <1>5, <2>1, OthersKept
  <2>7. Stage(r)' = "lock"
    BY Zenon, <2>1 DEF Stage
  <2>8. CallOK(r)' /\ LockOK(r)'
    BY Zenon, <1>1, <1>2, <1>5, <2>1, <2>2, <2>7
       DEF ReqInv, CallOK, LockOK, InTx, Writing, Valid
  <2>9. MirrorOK(r)'
    <3>1. MirrorOf(call[r])' = MirrorOf(call[r])
      BY <1>5, <2>2, Zenon DEF MirrorOf, ById, EntriesOf
    <3> QED
      BY Zenon, <1>1, <1>2, <1>5, <3>1 DEF ReqInv, MirrorOK
  <2>10. SessOK(r)' /\ FreshOK(r)'
    BY Zenon, <1>1, <1>2, <2>1, <2>2 DEF ReqInv, SessOK, FreshOK, InTx
  <2>11. RowOK(r)'
    BY Zenon, <1>1, <1>2, <1>5, <2>7 DEF ReqInv, RowOK, Writing, NoWrites
  <2>12. ReplyOK(r)'
    BY Zenon, <1>1, <1>2, <1>5, <2>1, <2>2 DEF ReqInv, ReplyOK, NoReply
  <2>13. ReqInv(r)'
    BY Zenon, <2>8, <2>9, <2>10, <2>11, <2>12 DEF ReqInv
  <2> QED
    BY Zenon, <2>2, <2>3, <2>4, <2>5, <2>6, <2>13, TxStep DEF TypeOK
<1> QED
  BY Zenon, <1>3, <1>4, <1>5 DEF BeginTx

LEMMA LockRowStep ==
  ASSUME IInv, NEW r \in Request, LockRow(r)
  PROVE  IInv'
<1>1. ReqInv(r) /\ DbType /\ SessType /\ GoType
  BY DEF IInv, TypeOK
<1> PICK a \in NextToLock(r) : lock[a] = None /\ lock' = [lock EXCEPT ![a] = r]
  BY Zenon DEF LockRow
<1>2. /\ pc[r] = "lock" /\ sess[r] = "open" /\ a \in AccountId
      /\ UNCHANGED <<dbVars, sess, write, header, legs, goVars>>
  BY Zenon, <1>1 DEF LockRow, NextToLock, GoType, ReqInv, SessOK, InTx
<1>3. /\ UNCHANGED <<tables, pc, call, found, seen, err, reply>>
      /\ audit' \subseteq AuditRow /\ exists' = exists
  BY Zenon, <1>2, AuditKept DEF goVars, tables
<1>4. \A q \in Request \ {r} : \A b \in AccountId : lock'[b] = q <=> lock[b] = q
  BY Zenon, <1>1, <1>2, IdAssumption DEF SessType
<1>5. \A q \in Request \ {r} : Kept(q)
  BY Zenon, <1>2, <1>3, <1>4, OthersKept
<1>6. DbType' /\ GoType'
  BY Zenon, <1>1, <1>3 DEF DbType, GoType, tables
<1>7. SessType'
  BY Zenon, <1>1, <1>2 DEF SessType
<1>8. UniqueInv'
  BY Zenon, <1>2, <1>3 DEF IInv, UniqueInv, tables
<1>9. Stage(r)' = "lock"
  BY Zenon, <1>2, <1>3 DEF Stage
<1>10. LockOK(r)'
  BY Zenon, <1>1, <1>3, <1>9 DEF LockOK, ReqInv, Writing
<1>11. RowOK(r)'
  BY Zenon, <1>1, <1>2, <1>3, <1>9 DEF RowOK, ReqInv, Writing, NoWrites, Stage
<1>12. ReqInv(r)'
  BY Zenon, <1>1, <1>2, <1>3, <1>10, <1>11, Inside DEF InTx
<1> QED
  BY Zenon, <1>3, <1>5, <1>6, <1>7, <1>8, <1>12, TxStep DEF TypeOK

\* The two UPDATEs: from label l on account a, to n, on to label next.
LEMMA UpdateStep ==
  ASSUME IInv, NEW r \in Request, NEW a \in AccountId, NEW n \in Int,
         NEW next,
         \/ /\ pc[r] = "debit" /\ a = call[r].from /\ next = "credit"
            /\ n = seen[r].from - call[r].amount
         \/ /\ pc[r] = "credit" /\ a = call[r].to /\ next = "insertTx"
            /\ n = seen[r].to + call[r].amount,
         UpdateBalance(r, a, n, next)
  PROVE  IInv'
<1>1. ReqInv(r) /\ DbType /\ SessType /\ GoType
  BY Zenon DEF IInv, TypeOK
<1>2. /\ pc[r] \in {"debit", "credit"} /\ sess[r] = "open"
      /\ Stage(r) = pc[r] /\ Valid(call[r])
  BY Zenon, <1>1 DEF ReqInv, SessOK, CallOK, Stage, InTx
<1>3. CASE ~Storable(a, n)
  <2>1. Fail(r, "DbError")
    BY Zenon, <1>3 DEF UpdateBalance
  <2> QED BY Zenon, <1>2, <2>1, FailStep DEF InTx, Error
<1>4. CASE Storable(a, n)
  <2>1. /\ write' = [write EXCEPT ![r][a] = n] /\ Goto(r, next)
        /\ UNCHANGED <<dbVars, lock, sess, header, legs,
                       call, found, seen, err, reply>>
    BY Zenon, <1>4 DEF UpdateBalance
  <2>2. /\ UNCHANGED tables /\ audit' \subseteq AuditRow
        /\ balance' = balance /\ exists' = exists /\ txns' = txns
    BY Zenon, <2>1, AuditKept DEF tables
  <2>3. /\ pc'[r] = next /\ \A q \in Request \ {r} : pc'[q] = pc[q]
        /\ GoType'
    BY Zenon, <1>2, <1>1, <2>1 DEF Goto, GoType, Labels, InTx
  <2>4. /\ write'[r][a] = n
        /\ \A b \in AccountId \ {a} : write'[r][b] = write[r][b]
        /\ \A q \in Request \ {r} : write'[q] = write[q]
        /\ SessType'
    BY Zenon, <1>1, <2>1 DEF SessType
  <2>5. Stage(r)' = next /\ next \in {"credit", "insertTx"}
    BY Zenon, <1>2, <2>1, <2>3 DEF Stage
  <2>6. LockOK(r)'
    BY Zenon, <1>1, <1>2, <2>1, <2>2, <2>3, <2>5 DEF ReqInv, LockOK, Writing
  <2>7. RowOK(r)'
    <3>1. RowOK(r)
      BY Zenon, <1>1 DEF ReqInv
    <3>2. call[r].from # call[r].to /\ header'[r] = header[r]
          /\ legs'[r] = legs[r] /\ call'[r] = call[r] /\ seen'[r] = seen[r]
      BY Zenon, <1>2, <2>1 DEF Valid
    <3>3. header[r] = None /\ legs[r] = {}
      BY Zenon, <1>2, <3>1 DEF RowOK, Writing
    <3>4. CASE pc[r] = "debit"
      <4>1. a = call[r].from /\ next = "credit"
            /\ n = seen[r].from - call[r].amount
        BY Zenon, <3>4
      <4>2. \A b \in AccountId : write[r][b] = None
        BY Zenon, <1>2, <3>1, <3>4 DEF RowOK, Debited, Credited, Writing
      <4>3. \A b : (Debited(r, b)' <=> b = a) /\ ~Credited(r, b)'
        BY SMTT(30), <2>5, <3>2, <4>1 DEF Debited, Credited, Writing
      <4> QED
        BY Zenon, <1>4, <2>4, <2>5, <3>2, <3>3, <4>1, <4>2, <4>3
           DEF RowOK, Writing
    <3>5. CASE pc[r] = "credit"
      <4>1. a = call[r].to /\ next = "insertTx"
            /\ n = seen[r].to + call[r].amount
        BY Zenon, <3>5
      <4>2. \A b \in AccountId :
               /\ b = call[r].from =>
                     /\ write[r][b] = seen[r].from - call[r].amount
                     /\ Storable(b, write[r][b])
               /\ b # call[r].from => write[r][b] = None
        BY Zenon, <1>2, <3>1, <3>5 DEF RowOK, Debited, Credited, Writing
      <4>3. \A b : /\ Debited(r, b)' <=> b = call[r].from
                   /\ Credited(r, b)' <=> b = a
        BY SMTT(30), <2>5, <3>2, <4>1 DEF Debited, Credited, Writing
      <4> QED
        BY ZenonT(30), <1>4, <2>4, <2>5, <3>2, <3>3, <4>1, <4>2, <4>3
           DEF RowOK, Writing
    <3> QED
      BY Zenon, <1>2, <3>4, <3>5
  <2>8. ReqInv(r)'
    BY Zenon, <1>1, <1>2, <2>1, <2>2, <2>3, <2>5, <2>6, <2>7, Inside DEF InTx
  <2>9. \A q \in Request \ {r} : Kept(q)
    BY Zenon, <2>1, <2>3, <2>4, OthersKept
  <2>10. UniqueInv' /\ DbType'
    BY Zenon, <1>1, <2>1, <2>2 DEF IInv, UniqueInv, DbType, tables
  <2> QED
    BY Zenon, <2>2, <2>3, <2>4, <2>8, <2>9, <2>10, TxStep DEF TypeOK
<1> QED
  BY Zenon, <1>3, <1>4

LEMMA DebitStep ==
  ASSUME IInv, NEW r \in Request, Debit(r)
  PROVE  IInv'
<1>1. ReqInv(r) /\ GoType
  BY DEF IInv, TypeOK
<1>2. pc[r] = "debit" /\ Valid(call[r])
  BY Zenon, <1>1 DEF Debit, ReqInv, CallOK, SessOK, Stage, InTx
<1>3. call[r].from \in AccountId /\ seen[r].from - call[r].amount \in Int
  BY <1>1, <1>2 DEF Valid, GoType
<1> QED
  BY Zenon, <1>2, <1>3, UpdateStep DEF Debit

LEMMA CreditStep ==
  ASSUME IInv, NEW r \in Request, Credit(r)
  PROVE  IInv'
<1>1. ReqInv(r) /\ GoType
  BY DEF IInv, TypeOK
<1>2. pc[r] = "credit" /\ Valid(call[r])
  BY Zenon, <1>1 DEF Credit, ReqInv, CallOK, SessOK, Stage, InTx
<1>3. call[r].to \in AccountId /\ seen[r].to + call[r].amount \in Int
  BY <1>1, <1>2 DEF Valid, GoType
<1> QED
  BY Zenon, <1>2, <1>3, UpdateStep DEF Credit

LEMMA InsertTransactionStep ==
  ASSUME IInv, NEW r \in Request, InsertTransaction(r)
  PROVE  IInv'
<1>1. ReqInv(r) /\ DbType /\ SessType /\ GoType
  BY DEF IInv, TypeOK
<1>2. /\ pc[r] = "insertTx" /\ sess[r] = "open"
      /\ Stage(r) = "insertTx" /\ Valid(call[r])
  BY Zenon, <1>1 DEF InsertTransaction, ReqInv, SessOK, CallOK, Stage, InTx
<1>3. ASSUME NEW e \in Error, Fail(r, e) PROVE IInv'
  BY Zenon, <1>2, <1>3, FailStep DEF InTx
<1>4. ASSUME ByKey(call[r].key) = {}, ~KeyPending(r), ~AlreadyReversed(r),
             ~ReversalPending(r),
             header' = [header EXCEPT
                ![r] = Txn(r, call[r].kind, call[r].key, call[r].orig)],
             Goto(r, "insertEntries"),
             UNCHANGED <<dbVars, lock, sess, write, legs,
                         call, found, seen, err, reply>>
      PROVE  IInv'
  <2> PICK h : h = Txn(r, call[r].kind, call[r].key, call[r].orig)
    OBVIOUS
  <2>1. /\ h \in TxnRow /\ h # None
        /\ h.key = call[r].key /\ h.reverses = call[r].orig
    BY <1>2, NoneAssumption DEF Txn, TxnRow, Valid, Call, TxId
  <2>2. /\ UNCHANGED tables /\ audit' \subseteq AuditRow
        /\ balance' = balance /\ exists' = exists /\ txns' = txns
    BY Zenon, <1>4, AuditKept DEF tables
  <2>3. /\ pc'[r] = "insertEntries"
        /\ \A q \in Request \ {r} : pc'[q] = pc[q]
        /\ GoType'
    BY Zenon, <1>1, <1>4 DEF Goto, GoType, Labels, InTx
  <2>4. /\ header'[r] = h /\ \A q \in Request \ {r} : header'[q] = header[q]
        /\ SessType'
    BY Zenon, <1>1, <1>4, <2>1 DEF SessType
  <2>5. Stage(r)' = "insertEntries"
    BY Zenon, <1>2, <1>4, <2>3 DEF Stage
  <2>6. UniqueInv'
    <3>1. \A t \in txns : t.key # h.key
      BY Zenon, <1>4, <2>1 DEF ByKey
    <3>2. h.reverses # None => \A t \in txns : t.reverses # h.reverses
      BY Zenon, <1>4, <2>1 DEF AlreadyReversed
    <3>3. \A s \in Request \ {r} : header[s] # None =>
             /\ header[s].key # h.key
             /\ h.reverses # None => header[s].reverses # h.reverses
      BY Zenon, <1>4, <2>1 DEF KeyPending, ReversalPending, Pending
    <3>4. UniqueInv
      BY DEF IInv
    <3>5. ASSUME NEW q \in Request, header'[q] # None
          PROVE  /\ \A t \in txns : t.key # header'[q].key
                 /\ header'[q].reverses # None =>
                       \A t \in txns : t.reverses # header'[q].reverses
                 /\ \A s \in Request \ {q} : header'[s] # None =>
                       /\ header'[s].key # header'[q].key
                       /\ header'[q].reverses # None =>
                             header'[s].reverses # header'[q].reverses
      <4>1. CASE q = r
        BY Zenon, <2>4, <3>1, <3>2, <3>3, <4>1
      <4>2. CASE q # r
        BY <2>4, <3>3, <3>4, <3>5, <4>2 DEF UniqueInv
      <4> QED BY Zenon, <4>1, <4>2
    <3> QED BY Zenon, <2>2, <3>4, <3>5 DEF UniqueInv
  <2>7. LockOK(r)'
    BY Zenon, <1>1, <1>2, <1>4, <2>2, <2>3, <2>5 DEF ReqInv, LockOK, Writing
  <2>8. RowOK(r)'
    <3>1. RowOK(r)
      BY Zenon, <1>1 DEF ReqInv
    <3> QED
      BY Zenon, <1>2, <1>4, <2>4, <2>5, <3>1
         DEF RowOK, Debited, Credited, Writing
  <2>9. ReqInv(r)'
    BY Zenon, <1>1, <1>2, <1>4, <2>2, <2>3, <2>7, <2>8, Inside DEF InTx
  <2>10. \A q \in Request \ {r} : Kept(q)
    BY Zenon, <1>4, <2>3, <2>4, OthersKept
  <2>11. DbType'
    BY Zenon, <1>1, <2>2 DEF DbType, tables
  <2> QED
    BY Zenon, <2>2, <2>3, <2>4, <2>6, <2>9, <2>10, <2>11, TxStep DEF TypeOK
<1> QED
  BY Zenon, <1>3, <1>4 DEF InsertTransaction, Error, DomainError

LEMMA InsertEntriesStep ==
  ASSUME IInv, NEW r \in Request, InsertEntries(r)
  PROVE  IInv'
<1>1. ReqInv(r) /\ DbType /\ SessType /\ GoType
  BY DEF IInv, TypeOK
<1>2. /\ pc[r] = "insertEntries" /\ sess[r] = "open"
      /\ Stage(r) = "insertEntries" /\ Valid(call[r])
  BY Zenon, <1>1 DEF InsertEntries, ReqInv, SessOK, CallOK, Stage, InTx
<1> PICK L : L = {Entry(r, call[r].from, "DEBIT", call[r].amount),
                  Entry(r, call[r].to, "CREDIT", call[r].amount)}
  BY Zenon
<1>3. /\ legs' = [legs EXCEPT ![r] = L] /\ Goto(r, "commit")
      /\ UNCHANGED <<dbVars, lock, sess, write, header,
                     call, found, seen, err, reply>>
  <2>1. ~(call[r].amount <= 0)
    BY <1>2 DEF Valid
  <2> QED
    BY Zenon, <2>1 DEF InsertEntries
<1>4. L \in SUBSET EntryRow
  <2>1. /\ r \in TxId /\ call[r].from \in AccountId
        /\ call[r].to \in AccountId /\ call[r].amount \in Nat \ {0}
    BY Zenon, <1>2 DEF Valid, TxId
  <2>2. Entry(r, call[r].from, "DEBIT", call[r].amount) \in EntryRow
    BY Zenon, <2>1 DEF Entry, EntryRow
  <2>3. Entry(r, call[r].to, "CREDIT", call[r].amount) \in EntryRow
    BY Zenon, <2>1 DEF Entry, EntryRow
  <2> QED
    BY Zenon, <2>2, <2>3
<1>5. /\ UNCHANGED tables /\ audit' \subseteq AuditRow
      /\ balance' = balance /\ exists' = exists /\ txns' = txns
  BY Zenon, <1>3, AuditKept DEF tables
<1>6. /\ pc'[r] = "commit" /\ \A q \in Request \ {r} : pc'[q] = pc[q]
      /\ GoType'
  BY Zenon, <1>1, <1>3 DEF Goto, GoType, Labels, InTx
<1>7. /\ legs'[r] = L /\ \A q \in Request \ {r} : legs'[q] = legs[q]
      /\ SessType'
  BY Zenon, <1>1, <1>3, <1>4 DEF SessType
<1>8. Stage(r)' = "commit"
  BY Zenon, <1>2, <1>3, <1>6 DEF Stage
<1>9. LockOK(r)'
  BY Zenon, <1>1, <1>2, <1>3, <1>5, <1>6, <1>8 DEF ReqInv, LockOK, Writing
<1>10. RowOK(r)'
  <2>1. RowOK(r)
    BY Zenon, <1>1 DEF ReqInv
  <2> QED
    BY Zenon, <1>2, <1>3, <1>7, <1>8, <2>1
       DEF RowOK, Debited, Credited, Writing
<1>11. ReqInv(r)'
  BY Zenon, <1>1, <1>2, <1>3, <1>5, <1>6, <1>9, <1>10, Inside DEF InTx
<1>12. \A q \in Request \ {r} : Kept(q)
  BY Zenon, <1>3, <1>6, <1>7, OthersKept
<1>13. DbType' /\ UniqueInv'
  BY Zenon, <1>1, <1>3, <1>5 DEF IInv, UniqueInv, DbType, tables
<1> QED
  BY Zenon, <1>5, <1>6, <1>7, <1>11, <1>12, <1>13, TxStep DEF TypeOK
-----------------------------------------------------------------------------
(* A transaction ends short of a commit *)

\* The handler of r leaves with its COMMIT unanswered: the transaction goes on
\* holding its locks and its rows.
LEMMA InDoubtStep ==
  ASSUME IInv, NEW r \in Request, pc[r] = "commit",
         NEW l \in {"auditFailure", "dead"}, Goto(r, l),
         sess' = [sess EXCEPT ![r] = "indoubt"],
         err' \in [Request -> Error \cup {None}],
         UNCHANGED <<dbVars, lock, write, header, legs,
                     call, found, seen, reply>>
  PROVE  IInv'
<1>1. ReqInv(r) /\ DbType /\ SessType /\ GoType
  BY DEF IInv, TypeOK
<1>2. sess[r] = "open" /\ Stage(r) = "commit"
  BY Zenon, <1>1 DEF ReqInv, SessOK, InTx, Stage
<1>3. /\ UNCHANGED tables /\ audit' \subseteq AuditRow /\ exists' = exists
      /\ txns' = txns /\ entries' = entries /\ balance' = balance
  BY Zenon, AuditKept DEF tables
<1>4. /\ pc'[r] = l /\ \A q \in Request \ {r} : pc'[q] = pc[q]
      /\ GoType'
  BY Zenon, <1>1 DEF Goto, GoType, Labels
<1>5. /\ sess'[r] = "indoubt" /\ \A q \in Request \ {r} : sess'[q] = sess[q]
      /\ SessType'
  BY Zenon, <1>1 DEF SessType
<1>6. Stage(r)' = Stage(r)
  BY Zenon, <1>2, <1>5 DEF Stage
<1>7. CallOK(r)'
  BY Zenon, <1>1, <1>2, <1>4, <1>6 DEF ReqInv, CallOK, InTx, Valid
<1>8. MirrorOK(r)'
  <2>1. MirrorOf(call[r])' = MirrorOf(call[r])
    BY <1>3, Zenon DEF MirrorOf, ById, EntriesOf
  <2> QED
    BY Zenon, <1>1, <1>6, <2>1 DEF ReqInv, MirrorOK
<1>9. SessOK(r)' /\ FreshOK(r)'
  BY Zenon, <1>1, <1>2, <1>3, <1>4, <1>5 DEF ReqInv, SessOK, FreshOK, InTx
<1>10. LockOK(r)'
  BY Zenon, <1>1, <1>3, <1>4, <1>6 DEF ReqInv, LockOK
<1>11. RowOK(r)'
  <2>1. \A a : Debited(r, a)' = Debited(r, a) /\ Credited(r, a)' = Credited(r, a)
    BY Zenon, <1>6 DEF Debited, Credited
  <2> QED
    BY <1>1, <1>6, <2>1, Zenon DEF ReqInv, RowOK, NoWrites
<1>12. ReplyOK(r)'
  BY Zenon, <1>1, <1>3, <1>4, <1>5 DEF ReqInv, ReplyOK, NoReply
<1>13. ReqInv(r)'
  BY Zenon, <1>7, <1>8, <1>9, <1>10, <1>11, <1>12 DEF ReqInv
<1>14. \A q \in Request \ {r} : Kept(q)
  BY Zenon, <1>4, <1>5 DEF Kept, GoKept, SessKept
<1>15. DbType' /\ UniqueInv'
  BY Zenon, <1>1, <1>3 DEF IInv, UniqueInv, DbType
<1> QED
  BY Zenon, <1>3, <1>4, <1>5, <1>13, <1>14, <1>15, TxStep DEF TypeOK

\* A transaction that ends gives back its locks and its private rows.
LEMMA EndTxKeepsOthers ==
  ASSUME IInv, NEW r \in Request,
         NEW state \in {"committed", "aborted"}, EndTx(r, state)
  PROVE  /\ sess'[r] = state /\ write'[r] = NoWrites /\ header'[r] = None
         /\ legs'[r] = {} /\ \A a \in AccountId : lock'[a] # r
         /\ \A q \in Request \ {r} : SessKept(q)
         /\ SessType'
<1>1. SessType
  BY DEF IInv, TypeOK
<1> USE <1>1 DEF EndTx, SessType
<1>2. NoWrites \in [AccountId -> Int \cup {None}]
  BY DEF NoWrites
<1>3. /\ \A a \in AccountId : lock'[a] = IF lock[a] = r THEN None ELSE lock[a]
      /\ lock' \in [AccountId -> Request \cup {None}]
  BY DEF Released
<1>4. /\ \A q \in Request \ {r} : \A a \in AccountId :
            lock'[a] = q <=> lock[a] = q
      /\ \A a \in AccountId : lock'[a] # r
  BY Zenon, <1>3, IdAssumption
<1>5. /\ sess'[r] = state /\ \A q \in Request \ {r} : sess'[q] = sess[q]
      /\ write'[r] = NoWrites /\ \A q \in Request \ {r} : write'[q] = write[q]
      /\ header'[r] = None /\ \A q \in Request \ {r} : header'[q] = header[q]
      /\ legs'[r] = {} /\ \A q \in Request \ {r} : legs'[q] = legs[q]
  OBVIOUS
<1>6. SessType'
  BY Zenon, <1>2, <1>3
<1> HIDE <1>1 DEF EndTx, SessType
<1> QED
  BY Zenon, <1>4, <1>5, <1>6 DEF SessKept

\* The transaction of r is rolled back, by the handler or by the server.
LEMMA EndStep ==
  ASSUME IInv, NEW r \in Request, EndTx(r, "aborted"),
         sess[r] \in {"open", "indoubt"},
         NEW l \in Labels \ InTx, Goto(r, l),
         l = pc[r] \/ (pc[r] \in InTx /\ l \in {"refetch", "auditFailure"}),
         err' \in [Request -> Error \cup {None}],
         UNCHANGED <<dbVars, call, found, seen, reply>>
  PROVE  IInv'
<1>1. ReqInv(r) /\ DbType /\ GoType
  BY DEF IInv, TypeOK
<1>2. l \in After
  BY Zenon, <1>1 DEF ReqInv, SessOK, After, Labels
<1>3. /\ UNCHANGED tables /\ audit' \subseteq AuditRow /\ txns' = txns
      /\ entries' = entries
  BY Zenon, AuditKept DEF tables
<1>4. /\ pc'[r] = l /\ \A q \in Request \ {r} : pc'[q] = pc[q]
      /\ GoType'
  BY Zenon, <1>1 DEF Goto, GoType
<1>5. /\ sess'[r] = "aborted" /\ write'[r] = NoWrites /\ header'[r] = None
      /\ legs'[r] = {} /\ \A a \in AccountId : lock'[a] # r
      /\ SessType'
  BY Zenon, EndTxKeepsOthers
<1>6. \A q \in Request \ {r} : Kept(q)
  BY Zenon, <1>4, EndTxKeepsOthers DEF Kept, GoKept
<1>7. Stage(r)' = l
  BY Zenon, <1>4, <1>5 DEF Stage
<1>8. CallOK(r)' /\ MirrorOK(r)' /\ LockOK(r)' /\ RowOK(r)'
  <2>1. /\ call'[r] \in Call
        /\ call'[r].kind = "REVERSAL" <=> call'[r].orig # None
    BY Zenon, <1>1, <1>2 DEF ReqInv, CallOK, After, InTx
  <2> QED
    BY Zenon, <1>2, <1>4, <1>7, <2>1
       DEF CallOK, MirrorOK, LockOK, RowOK, After, InTx, Writing
<1>9. SessOK(r)' /\ FreshOK(r)'
  <2>1. NoWrites' = NoWrites
    BY DEF NoWrites
  <2> QED
    BY Zenon, <1>1, <1>2, <1>3, <1>4, <1>5, <2>1
       DEF ReqInv, SessOK, FreshOK, After, InTx
<1>10. ReplyOK(r)'
  BY Zenon, <1>1, <1>2, <1>3, <1>4, <1>5 DEF ReqInv, ReplyOK, NoReply, InTx
<1>11. ReqInv(r)'
  BY Zenon, <1>8, <1>9, <1>10 DEF ReqInv
<1>12. DbType'
  BY Zenon, <1>1, <1>3 DEF DbType, tables
<1>13. UniqueInv'
  <2>1. \A q \in Request \ {r} : header'[q] = header[q]
    BY Zenon, <1>6 DEF Kept, SessKept
  <2> QED
    BY SMTT(30), <1>3, <1>5, <2>1 DEF IInv, UniqueInv
<1> QED
  BY Zenon, <1>3, <1>4, <1>5, <1>6, <1>11, <1>12, <1>13, TxStep DEF TypeOK

LEMMA RollbackStep ==
  ASSUME IInv, NEW r \in Request, Rollback(r)
  PROVE  IInv'
<1>1. ReqInv(r) /\ GoType
  BY DEF IInv, TypeOK
<1> PICK l \in {"refetch", "auditFailure"} :
      /\ Goto(r, l)
      /\ UNCHANGED <<dbVars, call, found, seen, err, reply>>
  BY Zenon DEF Rollback
<1>2. /\ pc[r] = "rollback" /\ sess[r] = "open"
      /\ err' \in [Request -> Error \cup {None}]
      /\ UNCHANGED <<dbVars, call, found, seen, reply>>
      /\ l \in Labels \ InTx
  BY Zenon, <1>1 DEF Rollback, GoType, ReqInv, SessOK, InTx, Labels
<1>3. CASE EndTx(r, "aborted")
  BY Zenon, <1>2, <1>3, EndStep DEF InTx
<1>4. CASE UNCHANGED sessVars
  BY Zenon, <1>2, <1>4, MoveStep
<1> QED
  BY Zenon, <1>3, <1>4 DEF Rollback

LEMMA ServerAbortsStep ==
  ASSUME IInv, NEW r \in Request, ServerAborts(r)
  PROVE  IInv'
<1>1. ReqInv(r) /\ GoType
  BY DEF IInv, TypeOK
<1>2. /\ sess[r] \in {"open", "indoubt"} /\ pc[r] \in Labels \ InTx
      /\ EndTx(r, "aborted") /\ UNCHANGED <<dbVars, goVars>>
  BY Zenon, <1>1 DEF ServerAborts, GoType, ReqInv, SessOK
<1>3. /\ Goto(r, pc[r]) /\ err' \in [Request -> Error \cup {None}]
      /\ UNCHANGED <<dbVars, call, found, seen, reply>>
  BY Zenon, <1>1, <1>2 DEF Goto, goVars, GoType
<1> QED
  BY Zenon, <1>2, <1>3, EndStep

LEMMA CrashStep ==
  ASSUME IInv, NEW r \in Request, Crash(r)
  PROVE  IInv'
<1>1. /\ Goto(r, "dead") /\ pc[r] \notin {"idle", "done"}
      /\ err' \in [Request -> Error \cup {None}]
      /\ UNCHANGED <<dbVars, lock, write, header, legs,
                     call, found, seen, reply>>
  BY DEF Crash, Finished, IInv, TypeOK, GoType
<1>2. CASE pc[r] = "commit"
  <2>1. sess' = [sess EXCEPT ![r] = "indoubt"]
    BY Zenon, <1>2 DEF Crash
  <2> QED BY Zenon, <1>1, <1>2, <2>1, InDoubtStep
<1>3. CASE pc[r] # "commit"
  <2>1. UNCHANGED sessVars
    BY Zenon, <1>1, <1>3 DEF Crash, IInv, TypeOK, SessType, sessVars
  <2> QED BY Zenon, <1>1, <2>1, MoveStep
<1> QED
  BY Zenon, <1>2, <1>3

-----------------------------------------------------------------------------
(* The step in which a transaction becomes visible *)

\* What r publishes does not disturb the other requests.
LEMMA PublishServesOthers ==
  ASSUME IInv, NEW r \in Request, NEW h, NEW d, NEW k,
         Shown(r, call[r], h, d, k),
         \A a \in {call[r].from, call[r].to} : lock[a] = r,
         \A a \in AccountId \ {call[r].from, call[r].to} :
            balance'[a] = balance[a],
         UNCHANGED call, NEW q \in Request \ {r}
  PROVE  TablesServe(q)
<1>1. ReqInv(q)
  BY DEF IInv
<1>2. /\ h.id = r /\ exists' = exists /\ txns' = txns \cup {h}
      /\ \A t \in txns : t.id # r
  BY DEF Shown
<1>3. \A e \in entries' : e.tx = q => e \in entries
  BY DEF Shown
<1>4. ASSUME Stage(q) \in Writing
      PROVE  /\ balance'[call[q].from] = balance[call[q].from]
             /\ balance'[call[q].to] = balance[call[q].to]
  <2>1. call[q].from \in AccountId /\ call[q].to \in AccountId
    BY Zenon, <1>1, <1>4 DEF ReqInv, CallOK, Writing, InTx, Valid
  <2>2. lock[call[q].from] = q /\ lock[call[q].to] = q
    BY Zenon, <1>1, <1>4 DEF ReqInv, LockOK
  <2> QED
    BY Zenon, <2>1, <2>2
<1>5. ASSUME Stage(q) \in InTx \cup {"begin"}, call[q].kind = "REVERSAL"
      PROVE  MirrorOf(call[q])'
  <2>1. MirrorOf(call[q])
    BY Zenon, <1>1, <1>5 DEF ReqInv, MirrorOK
  <2>2. PICK o \in txns : o.id = call[q].orig /\ o.kind = "TRANSFER"
    BY Zenon, <2>1 DEF MirrorOf, ById
  <2>3. PICK z : z = call[q] /\ z = call'[q] /\ z.orig # r
    BY Zenon, <1>2, <2>2
  <2>4. EntriesOf(z.orig)' = EntriesOf(z.orig)
    BY Zenon, <2>3 DEF Shown
  <2>5. MirrorOf(z)'
    BY Zenon, <1>2, <2>1, <2>2, <2>3, <2>4 DEF MirrorOf, ById
  <2> QED BY Zenon, <2>3, <2>5 DEF MirrorOf
<1> QED
  BY Zenon, <1>2, <1>3, <1>4, <1>5 DEF TablesServe

LEMMA PublishStep ==
  ASSUME IInv, NEW r \in Request, Stage(r) = "commit", Publish(r), Commits(r),
         NEW l \in Labels \ InTx, Goto(r, l),
         \/ l = "auditSuccess" /\ pc[r] = "commit"
         \/ l = pc[r] /\ sess[r] = "indoubt",
         err' \in [Request -> Error \cup {None}],
         UNCHANGED <<call, found, seen, reply>>
  PROVE  IInv'
<1> PICK c : c = call[r]
  BY Zenon
<1>1. ReqInv(r) /\ GoType
  BY Zenon DEF IInv, TypeOK
<1>2. PICK h, d, k : Shown(r, c, h, d, k)
  BY Zenon DEF Commits
<1>3. /\ sess[r] \in {"open", "indoubt"} /\ Valid(c)
      /\ c.kind = "REVERSAL" <=> c.orig # None
  BY Zenon, <1>1 DEF ReqInv, CallOK, SessOK, Stage, InTx
<1>4. /\ h \in txns' /\ h.id = r /\ h # None /\ h.key = c.key
      /\ txns' = txns \cup {h} /\ exists' = exists
      /\ \A t \in txns : t.id # r /\ t.key # h.key
  BY Zenon, <1>2 DEF Shown
<1>5. /\ sess'[r] = "committed" /\ write'[r] = NoWrites /\ header'[r] = None
      /\ legs'[r] = {} /\ (\A a \in AccountId : lock'[a] # r)
      /\ \A q \in Request \ {r} : SessKept(q)
      /\ SessType'
  BY Zenon, EndTxKeepsOthers DEF Publish
<1>6. /\ pc'[r] = l /\ (\A q \in Request \ {r} : pc'[q] = pc[q])
      /\ GoType'
  BY Zenon, <1>1 DEF Goto, GoType
<1>7. l \in After \cup {"auditSuccess"}
  BY Zenon, <1>1, <1>3 DEF ReqInv, SessOK, After, Labels
<1>8. Stage(r)' = l
  BY Zenon, <1>5, <1>6 DEF Stage
<1>9. ReqInv(r)'
  <2>1. CallOK(r)' /\ MirrorOK(r)' /\ LockOK(r)' /\ RowOK(r)'
    BY Zenon, <1>3, <1>6, <1>7, <1>8
       DEF CallOK, MirrorOK, LockOK, RowOK, After, InTx, Writing, Valid
  <2>2. NoWrites' = NoWrites
    BY Zenon DEF NoWrites
  <2>3. SessOK(r)' /\ FreshOK(r)'
    BY Zenon, <1>5, <1>6, <1>7, <2>2 DEF SessOK, FreshOK, After, InTx
  <2>4. ReplyOK(r)'
    BY Zenon, <1>1, <1>4, <1>5, <1>6, NoneAssumption
       DEF ReqInv, ReplyOK, NoReply
  <2> QED
    BY Zenon, <2>1, <2>3, <2>4 DEF ReqInv
<1>10. ASSUME NEW q \in Request \ {r} PROVE ReqInv(q)'
  <2>1. TablesServe(q)
    BY Zenon, <1>2, PublishServesOthers DEF Commits
  <2>2. Kept(q)
    BY Zenon, <1>5, <1>6 DEF Kept, GoKept
  <2> QED
    BY Zenon, <2>1, <2>2, Frame DEF IInv
<1> QED
  BY Zenon, <1>5, <1>6, <1>9, <1>10 DEF IInv, TypeOK, Commits

\* The trigger finds every transaction of the service balanced; were it to
\* refuse one, that transaction would end like any other that fails.
LEMMA ServerCommitsStep ==
  ASSUME IInv, NEW r \in Request, Stage(r) = "commit", ServerCommits(r),
         Publish(r) => Commits(r),
         NEW l \in Labels \ InTx, Goto(r, l),
         \/ /\ pc[r] = "commit"
            /\ l = IF DoubleEntry(r) THEN "auditSuccess" ELSE "auditFailure"
         \/ l = pc[r] /\ sess[r] = "indoubt",
         err' \in [Request -> Error \cup {None}],
         UNCHANGED <<call, found, seen, reply>>
  PROVE  IInv'
<1>1. CASE DoubleEntry(r)
  BY Zenon, <1>1, PublishStep DEF ServerCommits
<1>2. CASE ~DoubleEntry(r)
  <2>1. EndTx(r, "aborted") /\ UNCHANGED dbVars
    BY Zenon, <1>2 DEF ServerCommits
  <2>2. sess[r] \in {"open", "indoubt"}
    BY Zenon DEF IInv, ReqInv, SessOK, InTx
  <2> QED
    BY Zenon, <1>2, <2>1, <2>2, EndStep DEF InTx
<1> QED
  BY Zenon, <1>1, <1>2

LEMMA CommitStep ==
  ASSUME IInv, NEW r \in Request, Commit(r),
         Stage(r) = "commit" /\ Publish(r) => Commits(r)
  PROVE  IInv'
<1>1. ReqInv(r) /\ err \in [Request -> Error \cup {None}]
  BY DEF IInv, TypeOK, GoType
<1>2. pc[r] = "commit" /\ Stage(r) = "commit"
  BY Zenon, <1>1 DEF Commit, ReqInv, SessOK, Stage, InTx
<1>3. CASE ServerCommits(r) /\ sess'[r] # "indoubt"
  <2> PICK l \in {"auditSuccess", "auditFailure"} :
        l = IF DoubleEntry(r) THEN "auditSuccess" ELSE "auditFailure"
    OBVIOUS
  <2>1. /\ Goto(r, l) /\ l \in Labels \ InTx
        /\ err' \in [Request -> Error \cup {None}]
        /\ UNCHANGED <<call, found, seen, reply>>
    BY Zenon, <1>1, <1>3 DEF Commit, Labels, InTx, Error, IInv, TypeOK, SessType
  <2> QED
    BY Zenon, <1>2, <1>3, <2>1, ServerCommitsStep
<1>4. CASE /\ sess' = [sess EXCEPT ![r] = "indoubt"]
           /\ err' = [err EXCEPT ![r] = "DbError"]
           /\ Goto(r, "auditFailure")
           /\ UNCHANGED <<dbVars, lock, write, header, legs,
                          call, found, seen, reply>>
  <2>1. err' \in [Request -> Error \cup {None}]
    BY Zenon, <1>1, <1>4 DEF Error
  <2> QED
    BY Zenon, <1>2, <1>4, <2>1, InDoubtStep
<1>5. ServerCommits(r) => sess'[r] # "indoubt"
  BY DEF ServerCommits, Publish, EndTx, IInv, TypeOK, SessType
<1> QED
  BY Zenon, <1>3, <1>4, <1>5 DEF Commit

LEMMA LateCommitStep ==
  ASSUME IInv, NEW r \in Request, LateCommit(r),
         Stage(r) = "commit" /\ Publish(r) => Commits(r)
  PROVE  IInv'
<1>1. ReqInv(r) /\ GoType
  BY DEF IInv, TypeOK
<1>2. /\ sess[r] = "indoubt" /\ Stage(r) = "commit" /\ pc[r] \in Labels \ InTx
      /\ ServerCommits(r) /\ UNCHANGED goVars
  BY Zenon, <1>1 DEF LateCommit, Stage, GoType, ReqInv, SessOK
<1>3. /\ Goto(r, pc[r]) /\ err' \in [Request -> Error \cup {None}]
      /\ UNCHANGED <<call, found, seen, reply>>
  BY Zenon, <1>1, <1>2 DEF Goto, goVars, GoType
<1> QED
  BY Zenon, <1>2, <1>3, ServerCommitsStep

-----------------------------------------------------------------------------
(* The steps *)

\* Both rows are locked: what was read stays true until this transaction ends.
LEMMA ReadBalancesStep ==
  ASSUME IInv, NEW r \in Request, ReadBalances(r), PairFound(r)
  PROVE  IInv'
<1>1. ReqInv(r) /\ DbType /\ GoType
  BY DEF IInv, TypeOK
<1>2. /\ pc[r] = "lock" /\ found[r] \subseteq Held(r) /\ sess[r] = "open"
      /\ Stage(r) = "lock" /\ Valid(call[r])
      /\ found[r] \subseteq {call[r].from, call[r].to} \cap exists
  BY Zenon, <1>1 DEF ReadBalances, ReqInv, SessOK, LockOK, CallOK, Stage, InTx
<1>3. ASSUME NEW e \in Error, Fail(r, e) PROVE IInv'
  BY Zenon, <1>2, <1>3, FailStep DEF InTx
<1>4. ASSUME Cardinality(found[r]) = 2, Funded(r),
             seen' = [seen EXCEPT ![r] = [from |-> balance[call[r].from],
                                          to |-> balance[call[r].to]]],
             Goto(r, "debit"),
             UNCHANGED <<dbVars, sessVars, call, found, err, reply>>
      PROVE  IInv'
  <2>1. found[r] = {call[r].from, call[r].to}
    BY Zenon, <1>2, <1>4 DEF PairFound
  <2>2. /\ call[r].from \in exists /\ call[r].to \in exists
        /\ lock[call[r].from] = r /\ lock[call[r].to] = r
    BY Zenon, <1>2, <2>1 DEF Held
  <2>3. PICK bf \in Int, bt \in Int :
           bf = balance[call[r].from] /\ bt = balance[call[r].to]
    BY Zenon, <1>1, <1>2 DEF Valid, DbType
  <2>4. /\ seen'[r].from = bf /\ seen'[r].to = bt
        /\ \A q \in Request \ {r} : seen'[q] = seen[q]
        /\ pc'[r] = "debit" /\ \A q \in Request \ {r} : pc'[q] = pc[q]
        /\ GoType'
    BY Zenon, <1>1, <1>4, <2>3 DEF GoType, Goto, Labels, InTx
  <2>5. call[r].from # External => bf >= call[r].amount
    <3>1. PICK n \in Nat : n = call[r].amount
      BY Zenon, <1>2 DEF Valid
    <3>2. call[r].from # External => call[r].kind # "DEPOSIT"
      BY Zenon, <1>2 DEF Valid
    <3>3. call[r].from # External => ~(bf < n)
      BY Zenon, <1>4, <2>3, <3>1, <3>2 DEF Funded
    <3> QED BY <2>3, <3>1, <3>3
  <2>6. /\ UNCHANGED <<tables, sessVars>> /\ audit' \subseteq AuditRow
        /\ exists' = exists /\ balance' = balance
    BY Zenon, <1>4, AuditKept DEF tables
  <2>7. Stage(r)' = "debit"
    BY Zenon, <1>2, <2>4, <2>6 DEF Stage, sessVars
  <2>8. LockOK(r)'
    BY Zenon, <1>4, <2>2, <2>3, <2>4, <2>5, <2>6, <2>7 DEF LockOK, sessVars
  <2>9. RowOK(r)'
    <3>1. write[r] = NoWrites /\ header[r] = None /\ legs[r] = {}
      BY Zenon, <1>1, <1>2 DEF ReqInv, RowOK
    <3> QED
      BY Zenon, <2>6, <2>7, <3>1
         DEF RowOK, Debited, Credited, Writing, NoWrites, sessVars
  <2>10. ReqInv(r)'
    BY Zenon, <1>1, <1>2, <1>4, <2>4, <2>6, <2>8, <2>9, Inside
       DEF InTx, sessVars
  <2>11. \A q \in Request \ {r} : GoKept(q)
    BY Zenon, <1>4, <2>4 DEF GoKept
  <2> QED
    BY Zenon, <2>4, <2>6, <2>10, <2>11, GoStep
<1> QED
  BY Zenon, <1>3, <1>4 DEF ReadBalances, Error, DomainError

LEMMA HandlerStep ==
  ASSUME IInv, NEW r \in Request, Step(r), PairFound(r),
         Stage(r) = "commit" /\ Publish(r) => Commits(r)
  PROVE  IInv'
<1>1. CASE Lookup(r)
  BY Zenon, <1>1, LookupStep
<1>2. CASE LoadOriginal(r)
  BY Zenon, <1>2, LoadOriginalStep
<1>3. CASE BeginTx(r) \/ LockRow(r) \/ ReadBalances(r)
  BY Zenon, <1>3, BeginTxStep, LockRowStep, ReadBalancesStep
<1>4. CASE Debit(r) \/ Credit(r) \/ InsertTransaction(r) \/ InsertEntries(r)
  BY Zenon, <1>4, DebitStep, CreditStep, InsertTransactionStep,
     InsertEntriesStep
<1>5. CASE Commit(r) \/ Rollback(r) \/ Refetch(r)
  BY Zenon, <1>5, CommitStep, RollbackStep, RefetchStep
<1>6. CASE AuditSuccess(r) \/ AuditFailure(r)
  BY Zenon, <1>6, AuditStep
<1> QED
  BY Zenon, <1>1, <1>2, <1>3, <1>4, <1>5, <1>6
     DEF Step, TransferBody, DepositBody, ReverseBody, TxBody

LEMMA Stutter ==
  ASSUME IInv, UNCHANGED vars
  PROVE  IInv'
<1>1. UNCHANGED <<dbVars, sessVars, goVars>>
  BY DEF vars
<1>2. UNCHANGED tables /\ TypeOK' /\ UniqueInv'
  BY Zenon, <1>1 DEF IInv, TypeOK, DbType, SessType, GoType, UniqueInv, dbVars,
              sessVars, goVars, tables
<1>3. \A q \in Request : Kept(q)
  BY Zenon, <1>1 DEF Kept, GoKept, SessKept, sessVars, goVars
<1> QED
  BY Zenon, <1>2, <1>3, BooksKept, FrameTables DEF IInv

\* Every step of the service, of the database and of the failures keeps IInv,
\* given what LedgerOutcomes shows of commits and of the rows found.
LEMMA NextStep ==
  ASSUME IInv, [Next]_vars,
         \A r \in Request : PairFound(r),
         \A r \in Request : Stage(r) = "commit" /\ Publish(r) => Commits(r)
  PROVE  IInv'
<1>1. ASSUME NEW r \in Request,
             \/ Transfer(r) \/ Deposit(r) \/ Reverse(r) \/ Step(r)
      PROVE  IInv'
  BY Zenon, <1>1, TransferStep, DepositStep, ReverseStep, HandlerStep
<1>2. ASSUME NEW r \in Request,
             \/ StatementFails(r) \/ Crash(r) \/ ServerAborts(r)
             \/ LateCommit(r)
      PROVE  IInv'
  BY Zenon, <1>2, StatementFailsStep, CrashStep, ServerAbortsStep,
     LateCommitStep
<1>3. ASSUME NEW a \in AccountId, CreateAccount(a) PROVE IInv'
  BY Zenon, <1>3, CreateAccountStep
<1>4. AtRest => UNCHANGED vars
  BY DEF AtRest
<1>5. UNCHANGED vars => IInv'
  BY Zenon, Stutter
<1> QED
  BY <1>1, <1>2, <1>3, <1>4, <1>5, Zenon DEF Next
=============================================================================
