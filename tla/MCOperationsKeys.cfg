SPECIFICATION Spec
CONSTANTS
  PaymentIds = {p1}
  Providers = {payu}
  References = {ref1}
  NoReference = NoReference
  NoPayment = NoPayment
  Requests = {r1, r2}
  RequestedTypes = {"CAPTURE", "REFUND"}
  Bodies = {b1, b2}
  HeaderKeys = {k1}
  NoHeader = NoHeader
  NoBody = NoBody
  NoOperation = NoOperation
  NoInput = NoInput
  NoCopy = NoCopy
  NoAnswer = NoAnswer
  ForeignStatuses = {"AUTHORIZED"}
SYMMETRY RequestSymmetry
INVARIANTS
  AtMostOneInvocation
  SucceededWasExecuted
  SettledIsAudited
  ReportedOutcomeIsStored
  ReplayIsOfSameRequest
PROPERTIES
  FailedIsFinal
CHECK_DEADLOCK FALSE
