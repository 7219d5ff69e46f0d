--------------------------- MODULE StartupProofs ---------------------------
(* The safety properties of Startup, for any number of servers with any     *)
(* environments, any migrations and any number of faults.                  *)
EXTENDS Startup, FiniteSetTheorems, TLAPS

-----------------------------------------------------------------------------
(* The inductive invariant                                                 *)

Migrating == {"selectMigration", "applyMigration", "markMigration"}

\* What the Mongo part leaves behind.
Seeded(s) ==
  /\ indexed /\ merchants # {}
  /\ \A p \in Range1(Seeds[s]) : credentials[p] # NoServer

\* What a server that reached an await has seen done, by itself or by others:
\* nothing of it is ever undone.
Progress(s) ==
  /\ pc[s] \in {"ensureIndexes", "findMerchant", "createMerchant", "registerProvider"}
       => uses[s].mongo
  /\ pc[s] \in {"findMerchant", "createMerchant", "registerProvider"} => indexed
  /\ pc[s] = "registerProvider" =>
       /\ next[s] \in DOMAIN Seeds[s] /\ merchants # {}
       /\ \A k \in 1..(next[s] - 1) : credentials[Seeds[s][k]] # NoServer
  /\ pc[s] \in {"createDatabase", "listening"} \cup Migrating /\ uses[s].mongo => Seeded(s)
  /\ pc[s] \in {"createDatabase"} \cup Migrating => uses[s].mysql
  /\ pc[s] \in Migrating =>
       /\ database /\ next[s] \in DOMAIN Migrations
       /\ \A k \in 1..(next[s] - 1) : k \in marks
  /\ pc[s] = "markMigration" => Range1(Migrations[next[s]]) \subseteq tables
  /\ pc[s] = "listening" /\ uses[s].mysql => database /\ marks = DOMAIN Migrations

IInv ==
  /\ TypeOK /\ MarkedIsApplied /\ OneDefaultMerchant
  /\ merchants # {} => indexed
  /\ \A s \in Servers : Progress(s)

LEMMA InitEstablishes == Init => IInv
<1>. SUFFICES ASSUME Init
              PROVE  IInv
  OBVIOUS
<1>1. TypeOK
  <2>1. faults \in 0..MaxFaults
    BY StartupAssumption DEF Init
  <2>2. credentials \in [Providers -> Servers \cup {NoServer}]
    BY DEF Init
  <2>. QED  BY <2>1, <2>2 DEF Init, TypeOK, Labels
<1>2. ASSUME NEW s \in Servers
      PROVE  Progress(s)
  BY DEF Init, Progress, Migrating
<1>. QED  BY <1>1, <1>2 DEF Init, IInv, MarkedIsApplied, OneDefaultMerchant

LEMMA SeedsAreProviders ==
  ASSUME NEW s \in Servers
  PROVE  /\ DOMAIN Seeds[s] = 1..Len(Seeds[s]) /\ Len(Seeds[s]) \in Nat
         /\ \A k \in DOMAIN Seeds[s] : Seeds[s][k] \in Providers
         /\ Range1(Seeds[s]) \subseteq Providers
BY StartupAssumption DEF Range1

-----------------------------------------------------------------------------
(* Nothing is undone                                                       *)

\* What every step of every server preserves.
Grows ==
  /\ uses' = uses
  /\ indexed => indexed'
  /\ database => database'
  /\ merchants \subseteq merchants'
  /\ tables \subseteq tables'
  /\ marks \subseteq marks'
  /\ \A p \in Providers : credentials[p] # NoServer => credentials'[p] # NoServer

Acts(s) == Resume(s) \/ Crash(s) \/ Restart(s)

LEMMA StepsGrow ==
  ASSUME TypeOK, NEW s \in Servers, Acts(s)
  PROVE  /\ Grows
         /\ \A t \in Servers \ {s} : pc'[t] = pc[t] /\ next'[t] = next[t]
<1>1. CASE RegisterProvider(s)
  <2>1. \A p \in Providers : credentials[p] # NoServer => credentials'[p] # NoServer
    BY <1>1, StartupAssumption DEF RegisterProvider, TypeOK
  <2>. QED  BY <1>1, <2>1 DEF RegisterProvider, Grows, TypeOK, Fault, Exit, NextSeed, Goto
<1>2. CASE Start(s) \/ EnsureIndexes(s) \/ FindMerchant(s) \/ CreateMerchant(s)
  BY <1>2 DEF Start, EnsureIndexes, FindMerchant, CreateMerchant, Grows, TypeOK,
              Fault, Exit, NextSeed, Goto
<1>3. CASE CreateDatabase(s) \/ SelectMigration(s) \/ ApplyMigration(s) \/ MarkMigration(s)
  BY <1>3 DEF CreateDatabase, SelectMigration, ApplyMigration, MarkMigration, Grows, TypeOK,
              Fault, Exit, NextMigration, Goto
<1>4. CASE Crash(s) \/ Restart(s)
  BY <1>4 DEF Crash, Restart, Grows, TypeOK, Fault, Exit, Goto
<1>. QED  BY <1>1, <1>2, <1>3, <1>4 DEF Acts, Resume

\* So a server that does not move keeps what it relies on.
LEMMA ProgressStays ==
  ASSUME TypeOK, TypeOK', Grows, NEW t \in Servers, Progress(t),
         pc'[t] = pc[t], next'[t] = next[t]
  PROVE  Progress(t)'
<1>1. Seeded(t) => Seeded(t)'
  BY SeedsAreProviders DEF Seeded, Grows
<1>2. pc[t] = "registerProvider" =>
        \A k \in 1..(next[t] - 1) : credentials'[Seeds[t][k]] # NoServer
  <2>. SUFFICES ASSUME pc[t] = "registerProvider", NEW k \in 1..(next[t] - 1)
                PROVE  credentials'[Seeds[t][k]] # NoServer
    OBVIOUS
  <2>1. next[t] \in 1..Len(Seeds[t]) /\ credentials[Seeds[t][k]] # NoServer
    BY SeedsAreProviders DEF Progress
  <2>2. k \in DOMAIN Seeds[t]
    BY <2>1, SeedsAreProviders
  <2>. QED  BY <2>1, <2>2, SeedsAreProviders DEF Grows
<1>3. marks' \subseteq DOMAIN Migrations
  BY DEF TypeOK
<1>. QED  BY <1>1, <1>2, <1>3 DEF Progress, Grows, Migrating

\* A server enters the MySQL part, or listens, with the Mongo part done.
LEMMA MySqlPartProgress ==
  ASSUME NEW s \in Servers, TypeOK, pc' = [pc EXCEPT ![s] = MySqlPart(s)], uses' = uses,
         uses[s].mongo => Seeded(s)'
  PROVE  Progress(s)'
BY DEF MySqlPart, Progress, TypeOK, Migrating

LEMMA NextSeedProgress ==
  ASSUME NEW s \in Servers, NEW n \in Nat \ {0}, TypeOK, TypeOK', NextSeed(s, n), uses' = uses,
         uses[s].mongo, indexed', merchants' # {},
         n <= Len(Seeds[s]) + 1,
         \A k \in 1..(n - 1) : credentials'[Seeds[s][k]] # NoServer
  PROVE  Progress(s)'
<1>. USE DEF NextSeed, Goto, TypeOK
<1>1. CASE n \in DOMAIN Seeds[s]
  BY <1>1 DEF Progress, Migrating
<1>2. CASE n \notin DOMAIN Seeds[s]
  <2>1. n - 1 = Len(Seeds[s])
    BY <1>2, SeedsAreProviders
  <2>2. Seeded(s)'
    BY <2>1, SeedsAreProviders DEF Seeded, Range1
  <2>. QED  BY <1>2, <2>2, MySqlPartProgress DEF MySqlPart
<1>. QED  BY <1>1, <1>2

LEMMA NextMigrationProgress ==
  ASSUME NEW s \in Servers, NEW n \in Nat \ {0}, TypeOK, TypeOK', NextMigration(s, n),
         uses' = uses, uses[s].mysql, uses[s].mongo => Seeded(s)', database',
         n <= Len(Migrations) + 1,
         \A k \in 1..(n - 1) : k \in marks'
  PROVE  Progress(s)'
<1>. USE DEF NextMigration, Goto, TypeOK
<1>1. CASE n \in DOMAIN Migrations
  <2>1. pc'[s] = "selectMigration" /\ next'[s] = n
    BY <1>1
  <2>. QED  BY <1>1, <2>1 DEF Progress, Migrating, Seeded
<1>2. CASE n \notin DOMAIN Migrations
  <2>1. n - 1 = Len(Migrations)
    BY <1>2, StartupAssumption
  <2>2. marks' = DOMAIN Migrations
    BY <2>1, StartupAssumption
  <2>3. pc'[s] = "listening"
    BY <1>2
  <2>. QED  BY <2>2, <2>3 DEF Progress, Migrating, Seeded
<1>. QED  BY <1>1, <1>2

\* An exited server relies on nothing.
LEMMA IdleProgress ==
  ASSUME NEW s \in Servers, pc'[s] \in {"exited", "down"}
  PROVE  Progress(s)'
BY DEF Progress, Migrating

-----------------------------------------------------------------------------
(* The steps of one server                                                 *)

\* The Mongo part.
LEMMA StartStep ==
  ASSUME IInv, TypeOK', NEW s \in Servers, Start(s)
  PROVE  Progress(s)'
<1>. USE DEF Start, Goto, IInv, TypeOK
<1>1. CASE uses[s].mongo
  BY <1>1 DEF Progress, Migrating
<1>2. CASE ~uses[s].mongo
  BY <1>2, MySqlPartProgress
<1>. QED  BY <1>1, <1>2

LEMMA MerchantSteps ==
  ASSUME IInv, TypeOK', NEW s \in Servers,
         EnsureIndexes(s) \/ FindMerchant(s) \/ CreateMerchant(s)
  PROVE  /\ Progress(s)'
         /\ merchants' # {} => indexed'
         /\ OneDefaultMerchant'
<1>. USE DEF IInv, TypeOK
<1>1. CASE pc'[s] = "exited"
  BY <1>1, IdleProgress
     DEF EnsureIndexes, FindMerchant, CreateMerchant, Fault, Exit, OneDefaultMerchant,
         Progress
<1>2. CASE pc'[s] # "exited" /\ EnsureIndexes(s)
  BY <1>2 DEF EnsureIndexes, Fault, Exit, Goto, Progress, Migrating, OneDefaultMerchant
<1>3. CASE pc'[s] # "exited" /\ FindMerchant(s)
  <2>1. indexed /\ uses[s].mongo /\ uses' = uses
    BY <1>3 DEF FindMerchant, Progress
  <2>2. CASE pc' = [pc EXCEPT ![s] = "createMerchant"]
    BY <1>3, <2>1, <2>2 DEF FindMerchant, Progress, Migrating, OneDefaultMerchant
  <2>3. CASE merchants # {} /\ NextSeed(s, 1)
    <3>1. Progress(s)'
      <4>1. 1 \in Nat \ {0} /\ 1 <= Len(Seeds[s]) + 1 /\ 1..(1 - 1) = {}
        BY SeedsAreProviders
      <4>2. indexed' /\ merchants' # {}
        BY <1>3, <2>1, <2>3 DEF FindMerchant
      <4>. QED  BY <2>1, <2>3, <4>1, <4>2, NextSeedProgress
    <3>. QED  BY <1>3, <2>1, <3>1 DEF FindMerchant, OneDefaultMerchant
  <2>. QED  BY <1>3, <2>2, <2>3 DEF FindMerchant, Fault, Exit, Goto
<1>4. CASE pc'[s] # "exited" /\ CreateMerchant(s)
  <2>1. /\ indexed /\ uses[s].mongo /\ uses' = uses /\ indexed' = indexed
        /\ merchants = {} /\ merchants' = {s} /\ NextSeed(s, 1)
    BY <1>4 DEF CreateMerchant, Progress, Fault, Exit, Goto
  <2>2. 1 \in Nat \ {0} /\ 1 <= Len(Seeds[s]) + 1 /\ 1..(1 - 1) = {}
    BY SeedsAreProviders
  <2>3. Progress(s)'
    BY <2>1, <2>2, NextSeedProgress
  <2>. QED  BY <2>1, <2>3 DEF OneDefaultMerchant
<1>. QED  BY <1>1, <1>2, <1>3, <1>4

LEMMA RegisterStep ==
  ASSUME IInv, TypeOK', Grows, NEW s \in Servers, RegisterProvider(s)
  PROVE  Progress(s)'
<1>. USE DEF IInv, TypeOK
<1>1. CASE Fault(s)
  BY <1>1, IdleProgress DEF Fault, Exit, Goto
<1>2. CASE /\ credentials' = [credentials EXCEPT ![Seeds[s][next[s]]] = s]
           /\ NextSeed(s, next[s] + 1)
  <2>1. /\ pc[s] = "registerProvider" /\ uses[s].mongo /\ uses' = uses
        /\ indexed' /\ merchants' # {}
    BY <1>2 DEF RegisterProvider, Progress
  <2>2. next[s] \in 1..Len(Seeds[s]) /\ Seeds[s][next[s]] \in Providers
    BY <2>1, SeedsAreProviders DEF Progress
  <2>3. \A k \in 1..next[s] : credentials'[Seeds[s][k]] # NoServer
    <3>. SUFFICES ASSUME NEW k \in 1..next[s]
                  PROVE  credentials'[Seeds[s][k]] # NoServer
      OBVIOUS
    <3>1. Seeds[s][k] \in Providers
      BY <2>2, SeedsAreProviders
    <3>2. CASE k = next[s]
      BY <1>2, <2>2, <3>2, StartupAssumption
    <3>3. CASE k # next[s]
      <4>1. k \in 1..(next[s] - 1)
        BY <2>2, <3>3
      <4>2. credentials[Seeds[s][k]] # NoServer
        BY <2>1, <4>1 DEF Progress
      <4>. QED  BY <3>1, <4>2 DEF Grows
    <3>. QED  BY <3>2, <3>3
  <2>4. \A k \in 1..((next[s] + 1) - 1) : credentials'[Seeds[s][k]] # NoServer
    BY <2>2, <2>3
  <2>5. next[s] + 1 \in Nat \ {0} /\ next[s] + 1 <= Len(Seeds[s]) + 1
    BY <2>2, SeedsAreProviders
  <2>. QED  BY <1>2, <2>1, <2>4, <2>5, NextSeedProgress
<1>. QED  BY <1>1, <1>2 DEF RegisterProvider

\* The MySQL part.
LEMMA CreateDatabaseStep ==
  ASSUME IInv, TypeOK', NEW s \in Servers, CreateDatabase(s)
  PROVE  Progress(s)'
<1>. USE DEF IInv, TypeOK
<1>1. CASE Fault(s)
  BY <1>1, IdleProgress DEF Fault, Exit, Goto
<1>2. CASE database' = TRUE /\ NextMigration(s, 1)
  <2>1. uses[s].mysql /\ uses' = uses /\ (uses[s].mongo => Seeded(s)')
    BY <1>2 DEF CreateDatabase, Progress, Seeded
  <2>2. 1 \in Nat \ {0} /\ 1 <= Len(Migrations) + 1 /\ 1..(1 - 1) = {}
    BY StartupAssumption
  <2>. QED  BY <1>2, <2>1, <2>2, NextMigrationProgress
<1>. QED  BY <1>1, <1>2 DEF CreateDatabase

LEMMA SelectMigrationStep ==
  ASSUME IInv, TypeOK', NEW s \in Servers, SelectMigration(s)
  PROVE  Progress(s)'
<1>. USE DEF IInv, TypeOK
<1>1. CASE Fault(s)
  BY <1>1, IdleProgress DEF Fault, Exit, Goto
<1>2. /\ pc[s] = "selectMigration" /\ uses[s].mysql /\ uses' = uses /\ database'
      /\ uses[s].mongo => Seeded(s) /\ Seeded(s)'
      /\ next[s] \in 1..Len(Migrations)
      /\ \A k \in 1..(next[s] - 1) : k \in marks
      /\ UNCHANGED <<indexed, merchants, credentials, database, tables, marks>>
  BY StartupAssumption DEF SelectMigration, Progress, Migrating, Seeded
<1>3. CASE next[s] \in marks /\ NextMigration(s, next[s] + 1)
  <2>1. \A k \in 1..((next[s] + 1) - 1) : k \in marks'
    BY <1>2, <1>3
  <2>2. next[s] + 1 \in Nat \ {0} /\ next[s] + 1 <= Len(Migrations) + 1
    BY <1>2, StartupAssumption
  <2>. QED  BY <1>2, <1>3, <2>1, <2>2, NextMigrationProgress
<1>4. CASE /\ Goto(s, IF Migrations[next[s]] = <<>> THEN "markMigration" ELSE "applyMigration")
           /\ UNCHANGED next
  <2>1. Migrations[next[s]] = <<>> => Range1(Migrations[next[s]]) = {}
    BY DEF Range1
  <2>2. pc'[s] \in {"markMigration", "applyMigration"}
    BY <1>4 DEF Goto
  <2>3. pc'[s] = "markMigration" => Migrations[next[s]] = <<>>
    BY <1>4 DEF Goto
  <2>. QED  BY <1>2, <1>4, <2>1, <2>2, <2>3, StartupAssumption DEF Progress, Migrating
<1>. QED  BY <1>1, <1>3, <1>4 DEF SelectMigration

LEMMA ApplyMigrationStep ==
  ASSUME IInv, TypeOK', NEW s \in Servers, ApplyMigration(s)
  PROVE  Progress(s)'
<1>. USE DEF IInv, TypeOK
<1>1. CASE Fault(s)
  BY <1>1, IdleProgress DEF Fault, Exit, Goto
<1>2. CASE /\ tables' = tables \cup Range1(Migrations[next[s]])
           /\ Goto(s, "markMigration") /\ UNCHANGED next
  <2>1. /\ pc[s] = "applyMigration" /\ uses[s].mysql /\ uses' = uses /\ database'
        /\ uses[s].mongo => Seeded(s)'
        /\ UNCHANGED marks
    BY DEF ApplyMigration, Progress, Migrating, Seeded
  <2>2. pc'[s] = "markMigration" /\ next'[s] = next[s]
    BY <1>2 DEF Goto
  <2>. QED  BY <1>2, <2>1, <2>2 DEF Progress, Migrating
<1>. QED  BY <1>1, <1>2 DEF ApplyMigration

LEMMA MarkMigrationStep ==
  ASSUME IInv, TypeOK', NEW s \in Servers, MarkMigration(s)
  PROVE  Progress(s)' /\ MarkedIsApplied'
<1>. USE DEF IInv, TypeOK
<1>1. /\ pc[s] = "markMigration" /\ uses[s].mysql /\ uses' = uses /\ database'
      /\ uses[s].mongo => Seeded(s)'
      /\ next[s] \in 1..Len(Migrations)
      /\ \A k \in 1..(next[s] - 1) : k \in marks
      /\ Range1(Migrations[next[s]]) \subseteq tables
      /\ tables' = tables
      /\ marks' \in {marks, marks \cup {next[s]}}
  BY StartupAssumption DEF MarkMigration, Progress, Migrating, Seeded
<1>2. MarkedIsApplied'
  BY <1>1 DEF MarkedIsApplied
<1>3. CASE pc'[s] = "exited"
  BY <1>2, <1>3, IdleProgress
<1>4. CASE marks' = marks \cup {next[s]} /\ NextMigration(s, next[s] + 1)
  <2>1. \A k \in 1..((next[s] + 1) - 1) : k \in marks'
    BY <1>1, <1>4
  <2>2. next[s] + 1 \in Nat \ {0} /\ next[s] + 1 <= Len(Migrations) + 1
    BY <1>1, StartupAssumption
  <2>. QED  BY <1>1, <1>2, <1>4, <2>1, <2>2, NextMigrationProgress
<1>. QED  BY <1>3, <1>4 DEF MarkMigration, Fault, Exit, Goto

\* Dying, and being started again.
LEMMA CrashRestartSteps ==
  ASSUME IInv, NEW s \in Servers, Crash(s) \/ Restart(s)
  PROVE  Progress(s)'
BY IdleProgress DEF Crash, Restart, Fault, Exit, Goto, IInv, TypeOK

-----------------------------------------------------------------------------
(* The invariant is inductive                                              *)

LEMMA TypeStep ==
  ASSUME IInv, NEW s \in Servers, Acts(s)
  PROVE  TypeOK'
<1>. USE DEF IInv, TypeOK, Labels
<1>1. Fault(s) => faults' \in 0..MaxFaults
  BY StartupAssumption DEF Fault
<1>2. CASE Start(s) \/ Crash(s) \/ Restart(s)
  BY <1>1, <1>2 DEF Start, Crash, Restart, Fault, Exit, Goto, MySqlPart
<1>3. CASE EnsureIndexes(s)
  BY <1>1, <1>3 DEF EnsureIndexes, Fault, Exit, Goto
<1>4. CASE FindMerchant(s) \/ CreateMerchant(s)
  BY <1>1, <1>4 DEF FindMerchant, CreateMerchant, Fault, Exit, Goto, NextSeed, MySqlPart
<1>5. CASE RegisterProvider(s)
  <2>1. Seeds[s][next[s]] \in Providers
    BY <1>5, SeedsAreProviders DEF RegisterProvider, Progress
  <2>. QED  BY <1>1, <1>5, <2>1 DEF RegisterProvider, Fault, Exit, Goto, NextSeed, MySqlPart
<1>10. ASSUME NEW n \in Nat, NextMigration(s, n)
       PROVE  pc' \in [Servers -> Labels] /\ next' \in [Servers -> Nat]
  <2>1. (IF n \in DOMAIN Migrations THEN "selectMigration" ELSE "listening") \in Labels
    OBVIOUS
  <2>. QED  BY <1>10, <2>1 DEF NextMigration, Goto
<1>11. ASSUME Exit(s)
       PROVE  pc' \in [Servers -> Labels] /\ next' \in [Servers -> Nat]
  BY <1>11 DEF Exit, Goto
<1>6. CASE CreateDatabase(s)
  <2>1. (NextMigration(s, 1) /\ UNCHANGED faults) \/ Fault(s)
    BY <1>6 DEF CreateDatabase
  <2>2. /\ pc' \in [Servers -> Labels] /\ next' \in [Servers -> Nat]
        /\ faults' \in 0..MaxFaults
    BY <1>1, <1>10, <1>11, <2>1 DEF Fault
  <2>. QED  BY <1>6, <2>2 DEF CreateDatabase
<1>7. CASE SelectMigration(s)
  <2>1. next[s] + 1 \in Nat
    OBVIOUS
  <2>2. \/ NextMigration(s, next[s] + 1) /\ UNCHANGED faults
        \/ /\ pc' = [pc EXCEPT ![s] = IF Migrations[next[s]] = <<>> THEN "markMigration"
                                       ELSE "applyMigration"]
           /\ UNCHANGED <<next, faults>>
        \/ Fault(s)
    BY <1>7 DEF SelectMigration, Goto
  <2>3. (IF Migrations[next[s]] = <<>> THEN "markMigration" ELSE "applyMigration") \in Labels
    OBVIOUS
  <2>4. /\ pc' \in [Servers -> Labels] /\ next' \in [Servers -> Nat]
        /\ faults' \in 0..MaxFaults
    BY <1>1, <1>10, <1>11, <2>1, <2>2, <2>3 DEF Fault
  <2>. QED  BY <1>7, <2>4 DEF SelectMigration
<1>8. CASE ApplyMigration(s)
  <2>1. next[s] \in DOMAIN Migrations
    BY <1>8 DEF ApplyMigration, Progress, Migrating
  <2>2. \A k \in 0..Len(Migrations[next[s]]) :
          {Migrations[next[s]][i] : i \in 1..k} \subseteq Range1(Migrations[next[s]])
    BY <2>1, StartupAssumption DEF Range1
  <2>3. Range1(Migrations[next[s]]) \subseteq Tables
    BY <2>1 DEF Tables
  <2>4. tables' \subseteq Tables
    BY <1>8, <2>2, <2>3 DEF ApplyMigration
  <2>. QED  BY <1>1, <1>8, <2>4 DEF ApplyMigration, Fault, Exit, Goto
<1>9. CASE MarkMigration(s)
  <2>1. next[s] \in DOMAIN Migrations
    BY <1>9 DEF MarkMigration, Progress, Migrating
  <2>. QED  BY <1>1, <1>9, <2>1 DEF MarkMigration, Fault, Exit, Goto, NextMigration
<1>. QED  BY <1>2, <1>3, <1>4, <1>5, <1>6, <1>7, <1>8, <1>9 DEF Acts, Resume

LEMMA ServerStep ==
  ASSUME IInv, NEW s \in Servers, Acts(s)
  PROVE  IInv'
<1>1. TypeOK'
  BY TypeStep
<1>2. Grows /\ \A t \in Servers \ {s} : pc'[t] = pc[t] /\ next'[t] = next[t]
  BY StepsGrow DEF IInv
<1>3. ASSUME NEW t \in Servers \ {s}
      PROVE  Progress(t)'
  BY <1>1, <1>2, ProgressStays DEF IInv
<1>4. Progress(s)'
  BY <1>1, <1>2, StartStep, MerchantSteps, RegisterStep, CreateDatabaseStep,
     SelectMigrationStep, ApplyMigrationStep, MarkMigrationStep, CrashRestartSteps
     DEF Acts, Resume
<1>5. (merchants' # {} => indexed') /\ OneDefaultMerchant'
  <2>1. CASE EnsureIndexes(s) \/ FindMerchant(s) \/ CreateMerchant(s)
    BY <1>1, <2>1, MerchantSteps
  <2>2. CASE merchants' = merchants
    BY <1>2, <2>2 DEF IInv, OneDefaultMerchant, Grows
  <2>. QED  BY <2>1, <2>2
            DEF Acts, Resume, Start, RegisterProvider, CreateDatabase, SelectMigration,
                ApplyMigration, MarkMigration, Crash, Restart
<1>6. MarkedIsApplied'
  <2>1. CASE MarkMigration(s)
    BY <1>1, <2>1, MarkMigrationStep
  <2>2. CASE marks' = marks
    BY <1>2, <2>2 DEF IInv, MarkedIsApplied, Grows
  <2>. QED  BY <2>1, <2>2
            DEF Acts, Resume, Start, EnsureIndexes, FindMerchant, CreateMerchant,
                RegisterProvider, CreateDatabase, SelectMigration, ApplyMigration, Crash,
                Restart
<1>. QED  BY <1>1, <1>3, <1>4, <1>5, <1>6 DEF IInv

\* What servers rely on at each await holds throughout.
THEOREM Invariance == Spec => []IInv
<1>1. IInv /\ [Next]_vars => IInv'
  <2>. SUFFICES ASSUME IInv, [Next]_vars
                PROVE  IInv'
    OBVIOUS
  <2>1. CASE UNCHANGED vars
    BY <2>1 DEF vars, IInv, TypeOK, MarkedIsApplied, OneDefaultMerchant, Progress, Seeded
  <2>2. CASE Next
    BY <2>2, ServerStep DEF Next, Acts
  <2>. QED  BY <2>1, <2>2
<1>. QED  BY InitEstablishes, <1>1, PTL DEF Spec

-----------------------------------------------------------------------------
(* The properties                                                          *)

\* Tables and local state have their types; marks are those of known migrations.
THEOREM TypeCorrect == Spec => []TypeOK
<1>1. IInv => TypeOK
  BY DEF IInv
<1>. QED  BY Invariance, <1>1, PTL

\* Whatever servers die where, a marked migration has all its tables and its
\* predecessors are marked (runMigrations marks after it has applied).
THEOREM MarkedMigrationsAreApplied == Spec => []MarkedIsApplied
<1>1. IInv => MarkedIsApplied
  BY DEF IInv
<1>. QED  BY Invariance, <1>1, PTL

\* Any number of servers create one default merchant between them: the unique
\* index exists before the first of them inserts.
THEOREM DefaultMerchantIsUnique == Spec => []OneDefaultMerchant
<1>1. IInv => OneDefaultMerchant
  BY DEF IInv
<1>. QED  BY Invariance, <1>1, PTL

\* A server listens only when what its repositories rely on is there.
THEOREM ListeningServersAreReady == Spec => []ListeningIsReady
<1>1. IInv => ListeningIsReady
  <2>. SUFFICES ASSUME IInv, NEW s \in Servers, pc[s] = "listening"
                PROVE  /\ uses[s].mongo => Seeded(s)
                       /\ uses[s].mysql =>
                            database /\ marks = DOMAIN Migrations /\ tables = Tables
    BY DEF ListeningIsReady, Seeded
  <2>1. Progress(s)
    BY DEF IInv
  <2>2. marks = DOMAIN Migrations => Tables \subseteq tables
    BY DEF IInv, MarkedIsApplied, Tables
  <2>. QED  BY <2>1, <2>2 DEF Progress, IInv, TypeOK
<1>. QED  BY Invariance, <1>1, PTL

-----------------------------------------------------------------------------
(* Refinement: the servers migrate as one migrator                         *)

version == Cardinality(marks)

\* Marks have no gaps, so their number is the last one.
LEMMA MarksArePrefix ==
  ASSUME TypeOK, MarkedIsApplied
  PROVE  /\ version \in Nat /\ version <= Len(Migrations) /\ marks = 1..version
         /\ IsFiniteSet(marks)
<1>1. /\ Len(Migrations) \in Nat /\ marks \subseteq 1..Len(Migrations)
      /\ IsFiniteSet(1..Len(Migrations)) /\ Cardinality(1..Len(Migrations)) = Len(Migrations)
  BY StartupAssumption, FS_Interval DEF TypeOK
<1>2. IsFiniteSet(marks) /\ version \in Nat /\ version <= Len(Migrations)
  BY <1>1, FS_Subset, FS_CardinalityType DEF version
<1>3. ASSUME NEW m \in marks
      PROVE  m \in 1..version
  <2>1. m \in Nat \ {0} /\ 1..m \subseteq marks
    BY <1>1 DEF MarkedIsApplied
  <2>2. IsFiniteSet(1..m) /\ Cardinality(1..m) = m
    BY <2>1, FS_Interval
  <2>3. m <= version
    BY <1>2, <2>1, <2>2, FS_Subset DEF version
  <2>. QED  BY <1>2, <2>1, <2>3
<1>4. IsFiniteSet(1..version) /\ Cardinality(1..version) = version
  BY <1>2, FS_Interval
<1>5. marks \subseteq 1..version
  BY <1>3
<1>6. marks = 1..version
  BY <1>4, <1>5, FS_Subset DEF version
<1>. QED  BY <1>2, <1>6

\* A migration that a server has no mark of, and all earlier ones of, is next.
LEMMA UnmarkedIsNext ==
  ASSUME IInv, NEW s \in Servers, pc[s] \in Migrating, next[s] \notin marks
  PROVE  /\ next[s] = version + 1 /\ version < Len(Migrations)
         /\ next[s] \in DOMAIN Migrations
<1>1. /\ next[s] \in 1..Len(Migrations) /\ Len(Migrations) \in Nat
      /\ next[s] \in DOMAIN Migrations
      /\ \A k \in 1..(next[s] - 1) : k \in marks
  BY StartupAssumption DEF IInv, Progress
<1>2. version \in Nat /\ marks = 1..version
  BY MarksArePrefix DEF IInv
<1>3. version < next[s]
  BY <1>1, <1>2
<1>4. next[s] <= version + 1
  <2>. SUFFICES ASSUME next[s] > version + 1 PROVE FALSE
    BY <1>1, <1>2
  <2>1. version + 1 \in 1..(next[s] - 1)
    BY <1>1, <1>2
  <2>. QED  BY <1>1, <1>2, <2>1
<1>. QED  BY <1>1, <1>2, <1>3, <1>4

\* A file applied to the end or up to a failure: nothing new if another server
\* has marked it, the migrator's next tables otherwise.
LEMMA ApplyCreates ==
  ASSUME IInv, NEW s \in Servers, ApplyMigration(s)
  PROVE  Schema!Create \/ UNCHANGED <<version, tables>>
<1>. DEFINE m == next[s]
            first(k) == {Migrations[m][i] : i \in 1..k}
<1>1. pc[s] \in Migrating /\ m \in DOMAIN Migrations /\ marks' = marks
  BY DEF ApplyMigration, IInv, Progress, Migrating
<1>2. DOMAIN Migrations[m] = 1..Len(Migrations[m]) /\ Len(Migrations[m]) \in Nat
  BY <1>1, StartupAssumption
<1>3. PICK k \in 0..Len(Migrations[m]) : tables' = tables \cup first(k)
  <2>1. CASE tables' = tables \cup Range1(Migrations[m])
    <3>1. Range1(Migrations[m]) = first(Len(Migrations[m]))
      BY <1>2 DEF Range1
    <3>2. Len(Migrations[m]) \in 0..Len(Migrations[m])
      BY <1>2
    <3>. HIDE DEF first, m
    <3>. QED  BY <2>1, <3>1, <3>2
  <2>2. CASE \E k \in 0..Len(Migrations[m]) : tables' = tables \cup first(k)
    BY <2>2
  <2>. QED  BY <2>1, <2>2 DEF ApplyMigration
<1>4. version' = version
  BY <1>1 DEF version
<1>5. CASE m \in marks
  <2>1. first(k) \subseteq tables
    BY <1>2, <1>5 DEF IInv, MarkedIsApplied, Range1
  <2>. QED  BY <1>3, <1>4, <2>1
<1>6. CASE m \notin marks
  <2>1. m = version + 1 /\ version < Len(Migrations)
    BY <1>1, <1>6, UnmarkedIsNext
  <2>2. CASE k = 0
    <3>1. first(k) = {}
      BY <2>2
    <3>. QED  BY <1>3, <1>4, <3>1
  <2>3. CASE k # 0
    <3>1. k \in DOMAIN Migrations[m]
      BY <1>2, <2>3
    <3>. QED  BY <1>3, <1>4, <2>1, <3>1 DEF Schema!Create, version
  <2>. QED  BY <2>2, <2>3
<1>. QED  BY <1>5, <1>6

\* The first mark of a migration is the migrator's step to its version.
LEMMA MarkAdvances ==
  ASSUME IInv, NEW s \in Servers, MarkMigration(s)
  PROVE  Schema!Advance \/ UNCHANGED <<version, tables>>
<1>1. /\ pc[s] = "markMigration" /\ tables' = tables
      /\ marks' = marks \/ (next[s] \notin marks /\ marks' = marks \cup {next[s]})
  BY DEF MarkMigration
<1>2. CASE marks' = marks
  BY <1>1, <1>2 DEF version
<1>3. CASE next[s] \notin marks /\ marks' = marks \cup {next[s]}
  <2>1. next[s] = version + 1 /\ version < Len(Migrations) /\ next[s] \in DOMAIN Migrations
    BY <1>1, <1>3, UnmarkedIsNext DEF Migrating
  <2>2. version' = version + 1
    BY <1>3, MarksArePrefix, FS_AddElement DEF version, IInv
  <2>3. \A i \in DOMAIN Migrations[next[s]] : Migrations[next[s]][i] \in tables
    BY <1>1 DEF IInv, Progress, Range1
  <2>. QED  BY <1>1, <2>1, <2>2, <2>3 DEF Schema!Advance, version
<1>. QED  BY <1>1, <1>2, <1>3

LEMMA NextMigrates ==
  ASSUME IInv, [Next]_vars
  PROVE  [Schema!MigratorNext]_<<version, tables>>
<1>1. ASSUME NEW s \in Servers, ApplyMigration(s) \/ MarkMigration(s)
      PROVE  [Schema!MigratorNext]_<<version, tables>>
  BY <1>1, ApplyCreates, MarkAdvances DEF Schema!MigratorNext
<1>2. CASE UNCHANGED <<marks, tables>>
  BY <1>2 DEF version
<1>3. ASSUME NEW s \in Servers, Acts(s), ~ApplyMigration(s), ~MarkMigration(s)
      PROVE  UNCHANGED <<marks, tables>>
  BY <1>3 DEF Acts, Resume, Start, EnsureIndexes, FindMerchant, CreateMerchant,
              RegisterProvider, CreateDatabase, SelectMigration, Crash, Restart
<1>. QED  BY <1>1, <1>2, <1>3 DEF Next, Acts, vars

\* For any number of servers, migrations and faults: runMigrations without a lock
\* changes the schema as one uninterrupted migrator does.
THEOREM Refinement == Spec => ImplementsMigrator
<1>1. Init => Schema!MigratorInit
  BY FS_EmptySet DEF Init, Schema!MigratorInit
<1>2. IInv /\ [Next]_vars => [Schema!MigratorNext]_<<Cardinality(marks), tables>>
  BY NextMigrates DEF version
<1>. QED  BY <1>1, <1>2, Invariance, PTL DEF Spec, ImplementsMigrator, Schema!MigratorSpec

=============================================================================
