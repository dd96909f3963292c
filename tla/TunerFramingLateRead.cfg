CONSTANTS
  Parts = 1
  Kind = {order}
  Single = {}
  MaxFrames = 2
  MaxProgram = 4
  MaxTurn = 1
  None = None
SPECIFICATION Spec
INVARIANT StatesAreOwn
