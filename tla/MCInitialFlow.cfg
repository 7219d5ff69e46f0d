SPECIFICATION FairSpec
CONSTANTS
  payu = payu
  peach = peach
  Providers <- MCProviders
  Routes <- MCRoutes
  MaxCandidates = 2
  PaymentIds = {r1, r2}
  References = {ref1}
  NoReference = NoReference
  NoPayment = NoPayment
  Keys = {k1}
  Bodies = {b1, b2}
  NoInput = NoInput
  NoCopy = NoCopy
  NoAnswer = NoAnswer
  ForeignStatuses = {"AUTHORIZED"}
INVARIANTS
  OneRequestReachesProviders
  ReplayIsOfSameRequest
  FailoverIsAudited
  SuccessIsStored
PROPERTIES
  ImplementsKeyedPayment
  FlowMovesForward
  EveryRequestEnds
CHECK_DEADLOCK FALSE
