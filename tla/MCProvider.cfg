\* Every call may fail.  The interval does not grow, so that the payload takes a
\* payment per block and an old voucher can come again between them.
SPECIFICATION Spec
CONSTANTS
  PricePerByte = 1
  PaymentInterval = 1
  PaymentIntervalIncrease = 0
  FileSize = 3
  BlockSizes = {1, 2}
  Word = 1024
  ProviderFaults = {"node", "store", "transfer"}
  MaxVouchers = 3
  MaxAmount = 3
INVARIANTS TypeOK CreditedWasVouched CountedWasSent CalledIsTracked CompletedIsSettled
PROPERTIES SeenIsPaid WindsUp
\* A paused channel waits for good for a client that does not pay.
CHECK_DEADLOCK FALSE
