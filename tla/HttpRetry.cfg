SPECIFICATION FairSpec
CONSTANT MaxLimit = 4
INVARIANTS
  WithinLimit
  RetriedAfterTransientOnly
  SettledByLastAttempt
PROPERTY CallSettles
CHECK_DEADLOCK FALSE
