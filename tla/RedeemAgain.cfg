\* No call fails by itself.
SPECIFICATION Spec
CONSTANTS
  MaxLane = 1
  Amounts = {1, 2}
  Null = Null
  FirstBalance = 2
  LastBalance = 3
  MaxVouchers = 2
  MaxRedeems = 2
  Faults = {}
INVARIANT SettleMayFail
CHECK_DEADLOCK FALSE
