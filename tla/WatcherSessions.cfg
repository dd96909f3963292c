CONSTANTS
  Selecting = {}
  Setting = {}
  Consuming = {move}
  EndTurn = endTurn
  MaxTurn = 0
  Command = {c1}
  Slot = {t1, t2}
  MaxEpoch = 2
  MaxRequest = 2
  Journaling = TRUE
  None = None
SPECIFICATION Spec
SYMMETRY Symmetric
INVARIANTS OneVerdict AnswersOwnAction SuccessIsBacked
