------------------------------ MODULE Migrator ------------------------------
(***************************************************************************)
(* What runMigrations promises, however many servers run it at once: the   *)
(* schema changes as if one migrator worked alone and was never stopped.   *)
(* It creates the tables of the next migration in their order, some at a   *)
(* time, and moves to the next version only when all of them are there.    *)
(***************************************************************************)
EXTENDS Naturals

CONSTANTS
  Count,      \* how many migrations there are
  Migrations  \* Migrations[v]: the tables that lead from version v - 1 to v

VARIABLES version, tables

MigratorInit == version = 0 /\ tables = {}

Create ==
  /\ version < Count
  /\ \E k \in DOMAIN Migrations[version + 1] :
       tables' = tables \cup {Migrations[version + 1][i] : i \in 1..k}
  /\ UNCHANGED version

Advance ==
  /\ version < Count
  /\ \A i \in DOMAIN Migrations[version + 1] : Migrations[version + 1][i] \in tables
  /\ version' = version + 1
  /\ UNCHANGED tables

MigratorNext == Create \/ Advance

MigratorSpec == MigratorInit /\ [][MigratorNext]_<<version, tables>>

=============================================================================
