CONSTANTS
  Null = Null
  Keep = Keep
  o1 = o1
  q1 = q1
  q2 = q2
  q3 = q3
  k1 = k1
  k2 = k2
  g1 = g1
  g2 = g2
  s1 = s1
  s2 = s2
  a1 = a1
  a2 = a2
  p1 = p1
  p2 = p2
  p3 = p3
  p4 = p4
  p5 = p5
  c1 = c1
  c2 = c2
  m1 = m1
  m2 = m2
  l1 = l1
  l2 = l2
  Sessions = {s1, s2}
  Opportunities = {o1}
  Quotes = {q1, q2, q3}
  References = {k1, k2}
  Packages = {g1, g2}
  Batches = {1, 2}
  MaxVersion = 3
  Assets = {a1, a2}
  Ports = {p1, p2, p3, p4, p5}
  Home <- MCHome
  Cables = {c1, c2}
  HopCap = 4
  Machines = {m1, m2}
  Logs = {l1, l2}
  Dates = {1, 2}
SPECIFICATION MCSpec
SYMMETRY Symmetries
INVARIANTS OfficeTypeOK OneLiveVersion PrimaryIsNewest ValueIsSum OneEngagementPerDeal EndsMatch TracesAgree LastIsLatest
PROPERTIES SentQuotesAreFrozen PairsStayMutual
CHECK_DEADLOCK FALSE
