---------------------------- MODULE MCMigrations ----------------------------
(***************************************************************************)
(* A small instance of Migrations: account 0 is EXTERNAL, 1 and 2 are demo *)
(* accounts, 3 is opened by a client.                                      *)
(***************************************************************************)
EXTENDS Migrations

MCAccountId == 0 .. 3
MCSeed == {"alice", "bob"}
MCSeedAccount == [s \in MCSeed |-> IF s = "alice" THEN 1 ELSE 2]
=============================================================================
