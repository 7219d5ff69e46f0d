SPECIFICATION FairSpec
CONSTANTS
  p1 = p1
  ref1 = ref1
  h1 = h1
  PaymentIds = {p1}
  Providers = {peach}
  References = {ref1}
  Hashes = {h1}
  NoReference = NoReference
  NoPayment = NoPayment
  NoHash = NoHash
  NoStatus = NoStatus
  NoEvent = NoEvent
  NoRecord = NoRecord
  NoInput = NoInput
  NoCopy = NoCopy
  Deliveries = {d1, d2}
  Notifications <- AllShapes
  ForeignStatuses = {"PENDING", "CAPTURED"}
INVARIANTS
  OneFirstProcessing
  SucceededIsAudited
  ProcessedIsStored
PROPERTY EveryDeliveryEnds
CHECK_DEADLOCK FALSE
