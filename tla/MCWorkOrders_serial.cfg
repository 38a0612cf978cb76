\* One request at a time; any of them may die.
CONSTANTS
  Null = Null
  a1 = a1
  a2 = a2
  w1 = w1
  w2 = w2
  p1 = p1
  Assets = {a1, a2}
  Internal = {a2}
  Orders = {w1, w2}
  Slots = {p1}
  Sessions = {1}
  Lifecycles = {"PLANNED", "RETIRED"}
  TaskAsks = {"OPEN", "DONE"}
  ChangeAsks = {"COMPLETED", "CANCELLED"}
SPECIFICATION Spec
SYMMETRY OrderSymmetry
INVARIANTS TypeOK FinishedOrderLetsGo AppliedAtMostOnce TaskDatesMatchStatus
PROPERTIES EffectOnlyWhenValid StagedOpNotReplaced
\* When every asset is deleted and no order was ever raised nothing is left to do.
CHECK_DEADLOCK FALSE
