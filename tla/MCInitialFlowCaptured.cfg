SPECIFICATION Spec
CONSTANTS
  payu = payu
  peach = peach
  Providers <- MCProviders
  Routes <- MCRoutes
  MaxCandidates = 2
  PaymentIds = {r1}
  References = {ref1}
  NoReference = NoReference
  NoPayment = NoPayment
  Keys = {k1}
  Bodies = {b1}
  NoInput = NoInput
  NoCopy = NoCopy
  NoAnswer = NoAnswer
  ForeignStatuses = {}
PROPERTY CapturedPaymentIsStored
CHECK_DEADLOCK FALSE
