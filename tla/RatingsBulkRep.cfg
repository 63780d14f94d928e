SPECIFICATION Spec
CONSTANTS
  r1 = r1
  r2 = r2
  t1 = t1
  t2 = t2
  s1 = s1
  s2 = s2
  c1 = c1
  c2 = c2
  None = None
  Raters = {r1, r2}
  Targets = {t1, t2}
  Sessions = {s1}
  RaterOf <- OneRater
  Requests <- OneBulkRep
  Initial <- Rated
  InitialCredit = 2
  Credits <- OneLoses
  Allowance = 1
  BatchSize = 2
  Connections = {c1, c2}
  MaxFaults = 0
CHECK_DEADLOCK FALSE
PROPERTIES BulkRepSetsRatings
