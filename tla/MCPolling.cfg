SPECIFICATION Spec
CONSTANTS
  PaymentIds = {p1}
  thePayment = p1
  Providers = {"PAYU", "PEACH", "PAYFLEX"}
  References = {r1}
  NoReference = NoReference
  NoPayment = NoPayment
  Config <- MCConfig
  Latencies = {0, 10}
  MaxNotices = 2
INVARIANTS
  AttemptLimitIsSlack
  FinalIsOutcome
  SettlementIsSeen
CHECK_DEADLOCK FALSE
