CONSTANTS
  research = research
  Selecting = {research}
  Setting = {}
  Consuming = {}
  EndTurn = endTurn
  MaxTurn = 1
  Plan <- TwoActions
  Command <- Positions
  Slot = {t1, t2}
  MaxEpoch = 2
  MaxRequest = 5
  MaxAfterRestart = 3
  MaxRuns = 2
  Journaling = FALSE
  None = None
SYMMETRY Symmetric
SPECIFICATION ExecutionSpec
INVARIANTS ExecutorTypeOK SentInOrder OrdersInPlanTurn ReportIsValid CompletedIsTrue
CONSTRAINT RestartsUnderThePlan
