\* Two assets competing for one rack, one request at a time, no reservations.
CONSTANTS
  Null = Null
  a1 = a1
  a2 = a2
  r1 = r1
  r2 = r2
  c1 = c1
  Assets = {a1, a2}
  Reservations = {}
  Cabinets = {c1}
  Sessions = {1}
  Spots <- MCSpots
  Shapes <- MCShapes
  Targets <- MCTargets
  States <- MCStates
  Ranges <- MCRanges
  Terms <- MCTerms
  FrameSizes = {3}
  MaxNow = 0
SPECIFICATION Spec
SYMMETRY AssetSymmetry
INVARIANTS TypeOK LiveDisjoint
PROPERTIES RackedOverlapOnlyByMoveOrImport
\* A quiescent system (no row stored) is not a deadlock but TLC runs out of ids.
CHECK_DEADLOCK FALSE
