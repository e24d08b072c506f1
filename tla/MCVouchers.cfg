\* Two deals complete.  The balance covers some of the vouchers only.
SPECIFICATION Spec
CONSTANTS
  MaxLane = 1
  Amounts = {1, 2}
  Null = Null
  FirstBalance = 2
  LastBalance = 3
  MaxVouchers = 2
  MaxRedeems = 2
  Faults = {"push", "wait"}
INVARIANTS TypeOK CreditedIsHeld RedeemedWithinBalance AmountsRise NewerIsValid SubmittedInOrder RedeemAllWaits
PROPERTIES RedeemAllEnds
CHECK_DEADLOCK FALSE
