------------------------------- MODULE Server -------------------------------
(***************************************************************************)
(* The server process (cmd/server/main.go) over the connection pool and    *)
(* the database's migration state: startup, serving, graceful shutdown,    *)
(* being killed at any point, and starting again.                          *)
(***************************************************************************)
EXTENDS Pool

CONSTANTS
    Latest,     \* number of migrations
    MaxKills    \* bound on the times the process is killed

ASSUME ServerAssumption == Latest \in Nat /\ MaxKills \in Nat

VARIABLES
    proc,      \* where main is
    version,   \* schema_migrations.version
    dirty,     \* schema_migrations.dirty
    schema,    \* migrations whose SQL has been committed
    kills,     \* kills left
    late,      \* this process gave up waiting for its handlers
    lost       \* this process dropped or failed a request by stopping

procVars == <<proc, version, dirty, schema, kills, late, lost>>
vars == <<poolVars, procVars>>

Phase == {"down", "migrating", "connecting", "serving", "draining", "closing"}
Running == {"serving", "draining", "closing"}

-----------------------------------------------------------------------------
(* Startup *)

Goto(phase) ==
    proc' = phase /\ UNCHANGED <<poolVars, version, dirty, schema, kills>>

\* Mutant: an interrupted migration is no reason to stop.
MutStartDirty ==
    /\ proc = "down"
    /\ Goto(IF dirty THEN "connecting" ELSE "migrating")
    /\ late' = FALSE /\ lost' = FALSE

\* migrate.New and the first lines of m.Up: a dirty version is an error, and
\* main exits with 1.
Start ==
    /\ proc = "down"
    /\ Goto(IF dirty THEN "down" ELSE "migrating")
    /\ late' = FALSE /\ lost' = FALSE

\* m.Up, one migration: the version is stored as dirty, the SQL file runs as
\* one implicit transaction, the version is stored as clean.
SetDirty ==
    /\ proc = "migrating" /\ ~dirty /\ version < Latest
    /\ version' = version + 1 /\ dirty' = TRUE
    /\ UNCHANGED <<poolVars, proc, schema, kills, late, lost>>

RunMigration ==
    /\ proc = "migrating" /\ dirty /\ schema < version
    /\ schema' = version
    /\ UNCHANGED <<poolVars, proc, version, dirty, kills, late, lost>>

SetClean ==
    /\ proc = "migrating" /\ dirty /\ schema = version
    /\ dirty' = FALSE
    /\ UNCHANGED <<poolVars, proc, version, schema, kills, late, lost>>

\* Mutant: whatever m.Up returns is taken for an error.
MutNoChangeFails ==
    /\ proc = "migrating" /\ ~dirty /\ version = Latest
    /\ Goto("down")
    /\ UNCHANGED <<late, lost>>

\* All migrations applied now, or ErrNoChange.
MigrationsApplied ==
    /\ proc = "migrating" /\ ~dirty /\ version = Latest
    /\ Goto("connecting")
    /\ UNCHANGED <<late, lost>>

\* store.New: the pool is made and pinged, and the listener starts.
Connect ==
    /\ proc = "connecting"
    /\ Goto("serving")
    /\ UNCHANGED <<late, lost>>

-----------------------------------------------------------------------------
(* Serving and stopping *)

Accept(r) == proc = "serving" /\ Arrive(r) /\ UNCHANGED procVars

\* The handlers run until the process ends.  A closed pool grants nothing.
Handle(r) ==
    /\ proc \in Running
    /\ IF proc = "closing"
       THEN Enqueue(r) \/ CloseRows(r) \/ LockRow(r) \/ EndTx(r)
       ELSE Step(r)
    /\ UNCHANGED procVars

Failure(r) == proc \in Running /\ (Abort(r) \/ GiveUp(r)) /\ UNCHANGED procVars

\* Mutant: the pool is closed on the signal, not after Shutdown.
MutCloseFirst ==
    /\ proc = "serving"
    /\ Goto("closing")
    /\ UNCHANGED <<late, lost>>

\* SIGINT or SIGTERM: srv.Shutdown stops accepting and waits for the handlers.
Signal ==
    /\ proc = "serving"
    /\ Goto("draining")
    /\ UNCHANGED <<late, lost>>

\* Shutdown returns: no handler is left, or its 10 s are over, which is only
\* logged.  Either way the deferred db.Close runs.
ShutdownReturns ==
    /\ proc = "draining"
    /\ late' = (\E r \in Slot : ~Idle(r))
    /\ Goto("closing")
    /\ UNCHANGED lost

\* Acquire looks at closed once it has its permit, and gives the permit back: a
\* waiter is turned away when it would have been served.
ClosedPool(r) ==
    /\ proc = "closing" /\ Waiting(r) /\ Head(queue) = r /\ FreeConns
    /\ queue' = Tail(queue)
    /\ todo' = [todo EXCEPT ![r] = AfterError(@)]
    /\ lost' = TRUE
    /\ UNCHANGED <<held, lock, proc, version, dirty, schema, kills, late>>

\* The process is gone, and with it every handler; PostgreSQL rolls back what
\* its connections had open.
ProcessEnds ==
    /\ proc' = "down"
    /\ todo' = [r \in Slot |-> <<>>]
    /\ queue' = <<>>
    /\ held' = [r \in Slot |-> 0]
    /\ lock' = [a \in Row |-> lock[a] \ Slot]
    /\ UNCHANGED <<version, dirty, schema, late>>

\* Pool.Close waits until every connection was given back; then main returns
\* and ends the handlers that are still between two statements.
Exit ==
    /\ proc = "closing" /\ \A r \in Slot : held[r] = 0
    /\ lost' = (lost \/ \E r \in Slot : ~Idle(r))
    /\ ProcessEnds
    /\ UNCHANGED kills

\* SIGKILL, a panic, a signal before NotifyContext, or os.Exit(1) after a failed
\* migration, ping or listener: at any point.
Kill ==
    /\ proc # "down" /\ kills > 0
    /\ kills' = kills - 1
    /\ ProcessEnds
    /\ UNCHANGED lost

Init ==
    /\ PoolInit
    /\ proc = "down" /\ version = 0 /\ dirty = FALSE /\ schema = 0
    /\ kills = MaxKills /\ late = FALSE /\ lost = FALSE

Next ==
    \/ Start \/ SetDirty \/ RunMigration \/ SetClean \/ MigrationsApplied
    \/ Connect \/ Signal \/ ShutdownReturns \/ Exit \/ Kill
    \/ \E r \in Slot : Accept(r) \/ Handle(r) \/ Failure(r) \/ ClosedPool(r)

Spec == Init /\ [][Next]_vars

\* main, one goroutine, and the handlers go on when they can, and a stopped
\* server is started again; signals, failures and kills are not obliged to
\* happen.  A waiter for a row lock is not passed over for ever (see Pool).
Fairness ==
    /\ WF_vars(\/ Start \/ SetDirty \/ RunMigration \/ SetClean
               \/ MigrationsApplied \/ Connect \/ ShutdownReturns \/ Exit)
    /\ \A r \in Slot : /\ WF_vars(Handle(r) \/ ClosedPool(r))
                       /\ SF_vars(Handle(r) /\ At(r, "lock"))
FairSpec == Spec /\ Fairness

-----------------------------------------------------------------------------
(* Properties *)

\* Requests only ever meet the complete schema, however often the process was
\* killed in the middle of its migrations before.
ServesCompleteSchema == proc \in Running => schema = Latest

\* A shutdown within its 10 s loses nothing: every accepted request was carried
\* through, its audit row included, before the pool was closed.
GracefulLosesNothing == lost => late

\* A shutdown ends: the handlers that have a connection release it, which is
\* what db.Close is waiting for, and those that wait for one are turned away.
ShutdownEnds == proc \in {"draining", "closing"} ~> proc = "down"

\* A stopped server comes up again unless a migration was interrupted.
RestartServes == proc = "down" /\ ~dirty ~> proc = "serving" \/ dirty

\* README.md: "Migrations run at startup via `migrate.Up()`. No separate
\* migration step is needed."  A process killed between the two SetVersion
\* calls leaves the version dirty, and every later start exits with 1.
NoSeparateMigrationStep == proc = "down" ~> proc = "serving"
=============================================================================
