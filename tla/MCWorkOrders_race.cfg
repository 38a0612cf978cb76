\* Two requests at once.
CONSTANTS
  Null = Null
  a1 = a1
  a2 = a2
  w1 = w1
  w2 = w2
  p1 = p1
  Assets = {a1}
  Internal = {}
  Orders = {w1}
  Slots = {p1}
  Sessions = {1, 2}
  Lifecycles = {"PLANNED", "ACTIVE", "RETIRED"}
  TaskAsks = {"DONE"}
  ChangeAsks = {"COMPLETED"}
SPECIFICATION Spec
PROPERTIES EffectOnlyWhenValid
\* When every asset is deleted and no order was ever raised nothing is left to do.
CHECK_DEADLOCK FALSE
