SPECIFICATION TokenSpec
CONSTANTS
  Calls = {c1, c2}
  Lifetimes = {4, 9}
  Margin = 6
  Timeout = 1
  Backoff = 1
  MaxAttempts = 3
  MaxTime = 11
INVARIANTS
  TokenOutlivesItsCall
PROPERTY OvertakenByTimeoutAtMost
SYMMETRY CallSymmetry
CHECK_DEADLOCK FALSE
