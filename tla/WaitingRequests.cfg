SPECIFICATION Spec
CONSTANTS
  r1 = r1
  r2 = r2
  r3 = r3
  Null = Null
  Requests <- Two
  Amount <- TwoAmounts
  MaxSettles = 1
PROPERTIES WaitingAreAttempted
CHECK_DEADLOCK FALSE
