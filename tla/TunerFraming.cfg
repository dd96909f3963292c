CONSTANTS
  Parts = 1
  Kind = {order, build}
  Single = {build}
  MaxFrames = 2
  MaxProgram = 5
  MaxTurn = 1
  None = None
SPECIFICATION Spec
INVARIANTS TypeOK SnapshotIsOneRead PromptAnswersAreOwn
