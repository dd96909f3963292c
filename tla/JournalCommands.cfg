CONSTANTS
  Session = {s1}
  None = None
  Overlap = FALSE
  MaxTurn = 2
  MaxCommand = 2
  MaxCorrection = 0
  MaxFault = 1
SPECIFICATION Spec
SYMMETRY Symmetry
INVARIANTS TypeOK ClaimsJournaled CommandRecordsAccepted TransitionsJoinSnapshots
CHECK_DEADLOCK FALSE
