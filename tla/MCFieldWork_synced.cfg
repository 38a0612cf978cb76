\* Nothing is lost, no two calls overlap and the tab stays open.
CONSTANTS
  Null = Null
  i1 = i1
  i2 = i2
  d1 = d1
  p1 = p1
  p2 = p2
  c1 = c1
  c2 = c2
  Items = {i1, i2}
  TemplateItems = {i1}
  Answers = {"PASS", "FAIL"}
  Replies = {"PASS", "FAIL"}
  Desk = {d1}
  Posts = {p1, p2}
  Calls = {c1, c2}
  MaxSeq = 2
  MaxTroubles = 0
  Foci = {"requests"}
SPECIFICATION MCSpec
INVARIANTS SyncedMeansOnServer
CHECK_DEADLOCK FALSE
