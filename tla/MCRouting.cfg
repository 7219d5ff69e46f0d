SPECIFICATION Spec
CONSTANTS
  pay = "pay"
  q1 = "q1"
  q2 = "q2"
  k1 = "k1"
  k2 = "k2"
  Requests = {"pay", "q1", "q2"}
  RuleIds = {"pay", "q1", "q2", "k1", "k2"}
  Merchants = {"acme", "beta"}
  Providers = {"PAYU", "PAYFLEX"}
  PublicBaseUrl = "none"
  Cases <- MCCases
  MaxFaults = 1
INVARIANTS
  OneMerchant
  RoutedByStandingRules
  SchemaGuardsAdapters
CHECK_DEADLOCK FALSE
