CONSTANTS
  Requests = {q1, q2}
  Orchestrators = {o1, o2}
  Processors = {p1, p2}
  ScanResults <- AllResults
  MaxPolls = 1
  MaxReceives = 2
  RepeatsSucceed = TRUE
  MaxFaults = 1
  MaxDuplicates = 1
SPECIFICATION Spec
SYMMETRY ExecutionSymmetry
INVARIANT OnlyCleanIsPublished
