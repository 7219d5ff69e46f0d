SPECIFICATION Spec
CONSTANTS
  p1 = p1
  ref1 = ref1
  h1 = h1
  PaymentIds = {p1}
  Providers = {peach}
  References = {ref1}
  Hashes = {h1}
  NoReference = NoReference
  NoPayment = NoPayment
  NoHash = NoHash
  NoStatus = NoStatus
  NoEvent = NoEvent
  NoRecord = NoRecord
  NoInput = NoInput
  NoCopy = NoCopy
  Deliveries = {d1, d2, d3}
  Notifications <- Single
  ForeignStatuses = {"PENDING"}
SYMMETRY DeliverySymmetry
PROPERTY ProcessedOnce
CHECK_DEADLOCK FALSE
