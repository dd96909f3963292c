CONSTANTS
  Session = {s1, s2}
  None = None
  Overlap = TRUE
  MaxTurn = 1
  MaxCommand = 0
  MaxCorrection = 1
  MaxFault = 1
SPECIFICATION Spec
SYMMETRY Symmetry
INVARIANTS Intact IInv
CHECK_DEADLOCK FALSE
