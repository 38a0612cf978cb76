CONSTANTS
  Null = Null
  Keep = Keep
  r1 = r1
  r2 = r2
  u1 = u1
  s1 = s1
  s2 = s2
  w1 = w1
  w2 = w2
  x1 = x1
  x2 = x2
  Records = {r1, r2}
  Kinds = {"ServiceRequest", "Incident", "Task", "Risk", "Issue"}
  People = {u1}
  SlaHours <- MCSlaHours
  DueDates = {0}
  Sessions = {s1, s2}
  MaxTime = 1
  Sources = {x1, x2}
  Sweepers = {w1, w2}
  Window = 1
  MaxTroubles = 1
SPECIFICATION MCSpec
INVARIANTS DeskTypeOK LiveHasNoClosedAt ConvertedOnce LinkIsOwn SimilarOpenHaveACause AlertedAtMostOnce ClaimsAreTold
PROPERTIES DatesFollowStatus ResolvedMomentKept PinHolds LapsedAreAlerted
CHECK_DEADLOCK FALSE
