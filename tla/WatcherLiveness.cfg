CONSTANTS
  Selecting = {}
  Setting = {production}
  Consuming = {}
  EndTurn = endTurn
  MaxTurn = 0
  Command = {c1}
  Slot = {t1, t2}
  MaxEpoch = 1
  MaxRequest = 2
  Journaling = FALSE
  None = None
SPECIFICATION FairSpec
INVARIANTS IInv AtMostOnce
PROPERTIES ImplementsLedger EveryRequestAnswered WrittenIsSettled
