\* A change reaches a terminal status by approval.
CONSTANTS
  Null = Null
  a1 = a1
  a2 = a2
  w1 = w1
  w2 = w2
  p1 = p1
  Assets = {a1}
  Internal = {}
  Orders = {w1}
  Slots = {p1}
  Sessions = {1}
  Lifecycles = {"PLANNED", "ACTIVE", "RETIRED"}
  TaskAsks = {"DONE"}
  ChangeAsks = {"COMPLETED", "CANCELLED"}
SPECIFICATION Spec
INVARIANTS TerminalChangeHasClosedAt
\* When every asset is deleted and no order was ever raised nothing is left to do.
CHECK_DEADLOCK FALSE
