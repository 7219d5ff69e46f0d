SPECIFICATION Spec
CONSTANTS
  p1 = p1
  x1 = x1
  thePayment = p1
  PaymentIds = {p1}
  Providers = {payu, peach}
  References = {ref1}
  NoReference = NoReference
  NoPayment = NoPayment
  Lookups = {l1}
  Deliveries = {d1}
  Operations = {x1}
  OperationOf <- OneOperation
  Stores = {"database", "memory"}
  NoAnswer = NoAnswer
  NoCopy = NoCopy
  NoLocals = NoLocals
VIEW RelevantState
SYMMETRY Interchangeable
PROPERTIES
  TableLeftByCallbackOrStaleCopy
  UndisturbedLookupReconciles
  ReferenceLostToStaleCopyOnly
  LeftBehindRevivedByCallback
CHECK_DEADLOCK FALSE
