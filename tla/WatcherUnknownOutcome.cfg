CONSTANTS
  Selecting = {}
  Setting = {}
  Consuming = {}
  EndTurn = endTurn
  MaxTurn = 0
  Command = {c1}
  Slot = {t1, t2}
  MaxEpoch = 1
  MaxRequest = 1
  Journaling = FALSE
  None = None
SPECIFICATION Spec
INVARIANT FailureAfterSubmissionIsUnknown
