CONSTANTS
  MaxFault = 3
  None = None
SPECIFICATION FairSpec
INVARIANTS Recoverable NeverExposed
PROPERTY RecordsCleared
