SPECIFICATION FairSpec
CONSTANTS
  PaymentIds = {p1}
  Providers = {payu}
  References = {ref1}
  NoReference = NoReference
  NoPayment = NoPayment
  Requests = {r1, r2, r3}
  RequestedTypes = {"CAPTURE"}
  Bodies = {b1, b2}
  HeaderKeys = {}
  NoHeader = NoHeader
  NoBody = NoBody
  NoOperation = NoOperation
  NoInput = NoInput
  NoCopy = NoCopy
  NoAnswer = NoAnswer
  ForeignStatuses = {"AUTHORIZED"}
PROPERTIES
  ImplementsLedger
  EveryRequestEnds
CHECK_DEADLOCK FALSE
