\* One device with two calls and two requests under way at once, an item of the
\* template and one added ad hoc, one office session.
CONSTANTS
  Null = Null
  i1 = i1
  i2 = i2
  d1 = d1
  p1 = p1
  p2 = p2
  c1 = c1
  c2 = c2
  Items = {i1, i2}
  TemplateItems = {i1}
  Answers = {"PASS", "FAIL"}
  Replies = {"PASS", "FAIL"}
  Desk = {d1}
  Posts = {p1, p2}
  Calls = {c1, c2}
  MaxSeq = 2
  MaxTroubles = 1
  Foci = {"saves", "items", "requests", "photos", "clear", "late", "review"}
SPECIFICATION MCSpec
INVARIANTS FieldTypeOK SyncedUnlessRaced CopiesHaveACause
PROPERTIES KeepsReviewPromise FlagsKeptDuringRework EntriesLeave
CHECK_DEADLOCK FALSE
