\* No call fails: counts of received bytes are dropped.
SPECIFICATION Spec
CONSTANTS
  PricePerByte = 1
  PaymentInterval = 1
  PaymentIntervalIncrease = 1
  FileSize = 3
  BlockSizes = {1}
  Word = 1024
  Faults = {}
  ProviderFaults = {}
  MaxCancels = 0
INVARIANT BadMeansTooMuch
CHECK_DEADLOCK FALSE
