\* No call fails: the events of OnComplete come in the wrong order.
SPECIFICATION Spec
CONSTANTS
  PricePerByte = 1
  PaymentInterval = 1
  PaymentIntervalIncrease = 1
  FileSize = 3
  BlockSizes = {1}
  Word = 1024
  Faults = {}
  ProviderFaults = {}
  MaxCancels = 0
INVARIANT LastPaymentIsNeeded
CHECK_DEADLOCK FALSE
