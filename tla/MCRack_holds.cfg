\* One asset, two reservations that expire, a rack that is resized.
CONSTANTS
  Null = Null
  a1 = a1
  a2 = a2
  r1 = r1
  r2 = r2
  c1 = c1
  Assets = {a1}
  Reservations = {r1, r2}
  Cabinets = {c1}
  Sessions = {1}
  Spots <- MCRear
  Shapes <- MCShapesWithZeroU
  Targets <- MCTargets
  States <- MCStates
  Ranges <- MCRanges
  Terms <- MCTerms
  FrameSizes = {2, 3}
  MaxNow = 1
SPECIFICATION Spec
SYMMETRY ReservationSymmetry
INVARIANTS SuggestionsMatchCheck
PROPERTIES OverlapOnlyByRevival HoldsHonoured
\* A quiescent system (no row stored) is not a deadlock but TLC runs out of ids.
CHECK_DEADLOCK FALSE
