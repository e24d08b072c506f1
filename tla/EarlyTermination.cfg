\* No call fails: the answer alone overtakes the end of the transfer.
SPECIFICATION Spec
CONSTANTS
  PricePerByte = 1
  PaymentInterval = 1
  PaymentIntervalIncrease = 1
  FileSize = 3
  BlockSizes = {1}
  Word = 1024
  Faults = {}
  ProviderFaults = {}
  MaxCancels = 0
INVARIANT EarlyMeansUnsent
CHECK_DEADLOCK FALSE
