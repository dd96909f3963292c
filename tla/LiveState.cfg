CONSTANTS
  here = here
  there = there
  farm = farm
  early = early
  late = late
  unit = unit
  Unit = {unit}
  Plot = {here, there}
  Build = {farm}
  Tech = {early, late}
  Adjacent <- Line
  Terrain <- Grass
  Requires <- Tree
  MaxMoves = 3
  MaxTurn = 1
  MaxChange = 2
  MaxOrder = 1
  None = None
SYMMETRY Turned
SPECIFICATION Spec
INVARIANTS TypeOK QuietReadIsAccepted ResearchOfOneMoment SuccessPassesExecutor BuildIsTrue
