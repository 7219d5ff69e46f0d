------------------------------ MODULE Startup ------------------------------
(***************************************************************************)
(* server.ts start(): how a server process gets from nothing to listening. *)
(*                                                                         *)
(* With Mongo it creates the indexes, the default merchant and the         *)
(* credentials found in its environment; with MySQL it creates the         *)
(* database and runs the migrations it finds no mark of.  Several servers  *)
(* start on the same databases, none of them holding a lock, and any of    *)
(* them may fail or die after each statement and be started again.         *)
(***************************************************************************)
EXTENDS Naturals, Sequences, FiniteSets

CONSTANTS
  Servers,
  Providers,
  Seeds,       \* Seeds[s]: buildSeedProviderInputs of the environment of s
  Migrations,  \* Migrations[m]: the tables the m-th .sql file creates, in order
  MaxFaults    \* bound on failing statements and crashes

VARIABLES
  uses,         \* which databases each server is configured to use
  indexed,      \* the unique indexes exist (merchants by identifier among them)
  merchants,    \* documents with the default identifier, by who inserted them
  credentials,  \* provider_credentials of the default merchant: who wrote them last
  database,     \* the MySQL database and schema_migrations exist
  tables,       \* tables that exist
  marks,        \* schema_migrations
  pc, next,     \* await at which start() is suspended; its loop counter
  faults

vars == <<uses, indexed, merchants, credentials, database, tables, marks, pc, next, faults>>

Range1(f) == {f[i] : i \in DOMAIN f}
Tables == UNION {Range1(Migrations[m]) : m \in DOMAIN Migrations}
NoServer == "none"

ASSUME StartupAssumption ==
  /\ MaxFaults \in Nat
  /\ Seeds \in [Servers -> Seq(Providers)]
  /\ DOMAIN Migrations = 1..Len(Migrations) /\ Len(Migrations) \in Nat
  /\ \A m \in DOMAIN Migrations :
       DOMAIN Migrations[m] = 1..Len(Migrations[m]) /\ Len(Migrations[m]) \in Nat
  /\ NoServer \notin Servers

\* PayU is always seeded, the others if the environment names their secrets.
buildSeedProviderInputs(explicit) ==
  SelectSeq(<<"PAYU", "PAYFAST", "PAYFLEX", "STITCH", "PEACH">>,
            LAMBDA p : p = "PAYU" \/ p \in explicit)

Goto(s, l) == pc' = [pc EXCEPT ![s] = l]

\* A rejected promise: start() rejects and the process exits.
Exit(s) == Goto(s, "exited") /\ UNCHANGED next

\* A statement fails, or the process dies before it hears of its effect.
Fault(s) == Exit(s) /\ faults < MaxFaults /\ faults' = faults + 1

\* Where start() goes on when the Mongo part, the MySQL part are over.
MySqlPart(s) == IF uses[s].mysql THEN "createDatabase" ELSE "listening"
NextSeed(s, n) ==
  /\ next' = [next EXCEPT ![s] = n]
  /\ Goto(s, IF n \in DOMAIN Seeds[s] THEN "registerProvider" ELSE MySqlPart(s))
NextMigration(s, n) ==
  /\ next' = [next EXCEPT ![s] = n]
  /\ Goto(s, IF n \in DOMAIN Migrations THEN "selectMigration" ELSE "listening")

-----------------------------------------------------------------------------

Start(s) ==
  /\ pc[s] = "down"
  /\ Goto(s, IF uses[s].mongo THEN "ensureIndexes" ELSE MySqlPart(s))
  /\ UNCHANGED <<uses, indexed, merchants, credentials, database, tables, marks, next, faults>>

\* Mutant: the indexes are created in the background.
EnsureIndexesUnawaited(s) ==
  /\ pc[s] = "ensureIndexes"
  /\ Goto(s, "findMerchant")
  /\ indexed' \in {indexed, TRUE}
  /\ UNCHANGED <<uses, merchants, credentials, database, tables, marks, next, faults>>

\* The connection, and every index in turn; creating one again is no error.
EnsureIndexes(s) ==
  /\ pc[s] = "ensureIndexes"
  /\ \/ indexed' = TRUE /\ Goto(s, "findMerchant") /\ UNCHANGED <<next, faults>>
     \/ indexed' \in {indexed, TRUE} /\ Fault(s)
  /\ UNCHANGED <<uses, merchants, credentials, database, tables, marks>>

\* Mutant: whether the merchant exists is not asked.
FindMerchantUnasked(s) ==
  /\ pc[s] = "findMerchant"
  /\ Goto(s, "createMerchant")
  /\ UNCHANGED <<uses, indexed, merchants, credentials, database, tables, marks, next, faults>>

FindMerchant(s) ==
  /\ pc[s] = "findMerchant"
  /\ \/ merchants = {} /\ Goto(s, "createMerchant") /\ UNCHANGED <<next, faults>>
     \/ merchants # {} /\ NextSeed(s, 1) /\ UNCHANGED faults
     \/ Fault(s)
  /\ UNCHANGED <<uses, indexed, merchants, credentials, database, tables, marks>>

\* The unique index rejects the second of two servers that both found none.
CreateMerchant(s) ==
  LET accepted == indexed => merchants = {} IN
  /\ pc[s] = "createMerchant"
  /\ \/ accepted /\ merchants' = merchants \cup {s} /\ NextSeed(s, 1) /\ UNCHANGED faults
     \/ ~accepted /\ Exit(s) /\ UNCHANGED <<merchants, faults>>
     \/ accepted /\ merchants' = merchants \cup {s} /\ Fault(s)
     \/ Fault(s) /\ UNCHANGED merchants
  /\ UNCHANGED <<uses, indexed, credentials, database, tables, marks>>

\* Mutant: the loop stops one credential short.
RegisterProviderButLast(s) ==
  /\ pc[s] = "registerProvider"
  /\ NextSeed(s, next[s] + 1)
  /\ credentials' = IF next[s] = Len(Seeds[s]) THEN credentials
                    ELSE [credentials EXCEPT ![Seeds[s][next[s]]] = s]
  /\ UNCHANGED <<uses, indexed, merchants, database, tables, marks, faults>>

\* upsertCredential
RegisterProvider(s) ==
  LET stored == [credentials EXCEPT ![Seeds[s][next[s]]] = s] IN
  /\ pc[s] = "registerProvider"
  /\ \/ credentials' = stored /\ NextSeed(s, next[s] + 1) /\ UNCHANGED faults
     \/ credentials' \in {credentials, stored} /\ Fault(s)
  /\ UNCHANGED <<uses, indexed, merchants, database, tables, marks>>

\* createDatabaseIfMissing and ensureMigrationTable
CreateDatabase(s) ==
  /\ pc[s] = "createDatabase"
  /\ \/ database' = TRUE /\ NextMigration(s, 1) /\ UNCHANGED faults
     \/ database' \in {database, TRUE} /\ Fault(s)
  /\ UNCHANGED <<uses, indexed, merchants, credentials, tables, marks>>

\* A migration with a mark is skipped, an empty file only marked.
SelectMigration(s) ==
  LET m == next[s] IN
  /\ pc[s] = "selectMigration"
  /\ \/ m \in marks /\ NextMigration(s, m + 1) /\ UNCHANGED faults
     \/ /\ m \notin marks
        /\ Goto(s, IF Migrations[m] = <<>> THEN "markMigration" ELSE "applyMigration")
        /\ UNCHANGED <<next, faults>>
     \/ Fault(s)
  /\ UNCHANGED <<uses, indexed, merchants, credentials, database, tables, marks>>

\* Mutant: an error of the file's statements does not stop the loop.
ApplyMigrationIgnoringErrors(s) ==
  LET m == next[s] IN
  /\ pc[s] = "applyMigration"
  /\ Goto(s, "markMigration")
  /\ \E k \in 0..Len(Migrations[m]) : tables' = tables \cup {Migrations[m][i] : i \in 1..k}
  /\ UNCHANGED <<uses, indexed, merchants, credentials, database, marks, next, faults>>

\* Mutant: the statements are sent one by one, none awaiting another.
ApplyMigrationUnordered(s) ==
  LET m == next[s] IN
  /\ pc[s] = "applyMigration"
  /\ \/ /\ tables' = tables \cup Range1(Migrations[m])
        /\ Goto(s, "markMigration") /\ UNCHANGED <<next, faults>>
     \/ /\ \E done \in SUBSET Range1(Migrations[m]) : tables' = tables \cup done
        /\ Fault(s)
  /\ UNCHANGED <<uses, indexed, merchants, credentials, database, marks>>

\* The file's statements (CREATE TABLE IF NOT EXISTS) are executed in order; a
\* failure leaves the first ones done.
ApplyMigration(s) ==
  LET m == next[s] IN
  /\ pc[s] = "applyMigration"
  /\ \/ /\ tables' = tables \cup Range1(Migrations[m])
        /\ Goto(s, "markMigration") /\ UNCHANGED <<next, faults>>
     \/ /\ \E k \in 0..Len(Migrations[m]) :
             tables' = tables \cup {Migrations[m][i] : i \in 1..k}
        /\ Fault(s)
  /\ UNCHANGED <<uses, indexed, merchants, credentials, database, marks>>

\* INSERT INTO schema_migrations; the primary key rejects a second mark.
MarkMigration(s) ==
  LET m == next[s] IN
  /\ pc[s] = "markMigration"
  /\ \/ /\ m \notin marks /\ marks' = marks \cup {m}
        /\ NextMigration(s, m + 1) /\ UNCHANGED faults
     \/ m \in marks /\ Exit(s) /\ UNCHANGED <<marks, faults>>
     \/ m \notin marks /\ marks' = marks \cup {m} /\ Fault(s)
     \/ Fault(s) /\ UNCHANGED marks
  /\ UNCHANGED <<uses, indexed, merchants, credentials, database, tables>>

Resume(s) ==
  \/ Start(s) \/ EnsureIndexes(s) \/ FindMerchant(s) \/ CreateMerchant(s)
  \/ RegisterProvider(s) \/ CreateDatabase(s) \/ SelectMigration(s)
  \/ ApplyMigration(s) \/ MarkMigration(s)

\* A listening server dies; while it starts, a Fault is the same.
Crash(s) ==
  /\ pc[s] = "listening" /\ Fault(s)
  /\ UNCHANGED <<uses, indexed, merchants, credentials, database, tables, marks>>

\* Whoever started it starts it again.
Restart(s) ==
  /\ pc[s] = "exited" /\ Goto(s, "down")
  /\ UNCHANGED <<uses, indexed, merchants, credentials, database, tables, marks, next, faults>>

-----------------------------------------------------------------------------

Init ==
  /\ uses \in [Servers -> [mongo : BOOLEAN, mysql : BOOLEAN]]
  /\ indexed = FALSE
  /\ merchants = {}
  /\ credentials = [p \in Providers |-> NoServer]
  /\ database = FALSE
  /\ tables = {}
  /\ marks = {}
  /\ pc = [s \in Servers |-> "down"]
  /\ next = [s \in Servers |-> 1]
  /\ faults = 0

Next == \E s \in Servers : Resume(s) \/ Crash(s) \/ Restart(s)

Spec == Init /\ [][Next]_vars

\* Every await ends, and a server that exited is started again.
FairSpec == Spec /\ \A s \in Servers : WF_vars(Resume(s)) /\ WF_vars(Restart(s))

-----------------------------------------------------------------------------
(* Properties                                                              *)

Labels == {"down", "ensureIndexes", "findMerchant", "createMerchant", "registerProvider",
           "createDatabase", "selectMigration", "applyMigration", "markMigration",
           "listening", "exited"}

\* Every variable has its type; marks and tables are those of known migrations.
TypeOK ==
  /\ uses \in [Servers -> [mongo : BOOLEAN, mysql : BOOLEAN]]
  /\ indexed \in BOOLEAN
  /\ merchants \subseteq Servers
  /\ credentials \in [Providers -> Servers \cup {NoServer}]
  /\ database \in BOOLEAN
  /\ tables \subseteq Tables
  /\ marks \subseteq DOMAIN Migrations
  /\ pc \in [Servers -> Labels]
  /\ next \in [Servers -> Nat]
  /\ faults \in 0..MaxFaults

\* A server that answers requests has what its repositories rely on: the unique
\* indexes, the default merchant and every credential of its environment, the
\* database and all tables of all migrations, whichever servers died on the way.
ListeningIsReady ==
  \A s \in Servers : pc[s] = "listening" =>
    /\ uses[s].mongo => /\ indexed /\ merchants # {}
                        /\ \A p \in Range1(Seeds[s]) : credentials[p] # NoServer
    /\ uses[s].mysql => /\ database /\ marks = DOMAIN Migrations /\ tables = Tables

\* However many servers start at once, one default merchant is created.
OneDefaultMerchant == \A s, t \in merchants : s = t

\* A migration is marked only when every table of it exists and every earlier
\* migration is marked: a start after a crash never skips a half-done file.
MarkedIsApplied ==
  \A m \in marks :
    /\ Range1(Migrations[m]) \subseteq tables
    /\ \A k \in 1..m : k \in marks

\* Servers that start, lose races, die and start again migrate one schema between
\* them exactly as one migrator that works alone (runMigrations, without a lock).
\* Its version is the number of marks.
Schema == INSTANCE Migrator WITH Count <- Len(Migrations), version <- Cardinality(marks)
ImplementsMigrator == Schema!MigratorSpec

\* Servers that lose a race for the merchant or for a mark exit, but once no
\* statement fails any more each of them gets to listen.
EventuallyAllListen == <>[](\A s \in Servers : pc[s] = "listening")

=============================================================================
