\* Two requests at once: the check and the write of one straddle those of the other.
CONSTANTS
  Null = Null
  a1 = a1
  a2 = a2
  r1 = r1
  r2 = r2
  c1 = c1
  Assets = {a1, a2}
  Reservations = {}
  Cabinets = {c1}
  Sessions = {1, 2}
  Spots <- MCSpots
  Shapes <- MCShapes
  Targets <- MCTargets
  States <- MCStates
  Ranges <- MCRanges
  Terms <- MCTerms
  FrameSizes = {3}
  MaxNow = 0
SPECIFICATION Spec
SYMMETRY AssetSymmetry
INVARIANTS LiveDisjoint
\* A quiescent system (no row stored) is not a deadlock but TLC runs out of ids.
CHECK_DEADLOCK FALSE
