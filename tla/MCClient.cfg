\* Every call may fail.  The payload takes two payments at this interval, and
\* the posts let a response, a cancel or a user's call come twice, or one each.
SPECIFICATION Spec
CONSTANTS
  PricePerByte = 2
  PaymentInterval = 1
  PaymentIntervalIncrease = 1
  Word = 1024
  Faults = {"node", "transfer", "shortfall"}
  FileSize = 2
  MaxPosts = 3
  MaxQueue = 3
INVARIANTS TypeOK NoNilDereference PaidBytesAreHere VouchersAccountedFor 
PROPERTIES PaymentMovesOn WindsUp
\* A deal waits for good for a provider that says nothing more.
CHECK_DEADLOCK FALSE
