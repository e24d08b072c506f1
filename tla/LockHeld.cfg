\* No call fails: the reader and the writer of the table wait for each other.
SPECIFICATION Spec
CONSTANTS
  PricePerByte = 1
  PaymentInterval = 1
  PaymentIntervalIncrease = 1
  FileSize = 3
  BlockSizes = {1}
  Word = 1024
  Faults = {}
  ProviderFaults = {}
  MaxCancels = 0
PROPERTY ReportsReturn
CHECK_DEADLOCK FALSE
