\* Every call may fail at both sides and the user may cancel.  A price of 2
\* tells bytes from money; blocks of one and two bytes meet the growing interval
\* exactly and overshoot it.
SPECIFICATION Spec
CONSTANTS
  PricePerByte = 2
  PaymentInterval = 1
  PaymentIntervalIncrease = 1
  FileSize = 3
  BlockSizes = {1, 2}
  Word = 1024
  Faults = {"node", "transfer", "shortfall"}
  ProviderFaults = {"node", "store", "transfer"}
  MaxCancels = 1
INVARIANTS TypeOK PaidForWasSent IntervalsAgree
PROPERTIES FairExchange NeverAsksTwice ResumesPaid
\* A deal waits for good where one side waits for the other.
CHECK_DEADLOCK FALSE
