SPECIFICATION Spec
CONSTANTS
  c1 = c1
  c2 = c2
  c3 = c3
  Null = Null
  Calls <- TwoCalls
  Node <- TwoNodes
  Asks <- TwoAsks
  DefaultAsk <- Cheap
  maxStreamOpenAttempts = 2
  MaxDeals = 2
  MaxStops = 1
  Faults = {"stream", "datastore", "multistore"}
INVARIANTS TypeOK AcceptedTermsStood DealsDoNotCollide
PROPERTIES QueryEnds
CHECK_DEADLOCK FALSE
