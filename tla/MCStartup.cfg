SPECIFICATION FairSpec
CONSTANTS
  s1 = s1
  s2 = s2
  Servers = {s1, s2}
  Providers = {"PAYU", "PEACH"}
  Seeds <- MCSeeds
  Migrations <- MCMigrations
  MaxFaults = 2
INVARIANTS
  ListeningIsReady
  OneDefaultMerchant
  MarkedIsApplied
PROPERTIES
  ImplementsMigrator
  EventuallyAllListen
CHECK_DEADLOCK FALSE
