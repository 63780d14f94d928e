CONSTANTS
  Requests = {q1}
  Orchestrators = {o1}
  Processors = {p1, p2}
  ScanResults <- TwoResults
  MaxPolls = 1
  MaxReceives = 2
  RepeatsSucceed = FALSE
  MaxFaults = 2
  MaxDuplicates = 1
SPECIFICATION FairSpec
INVARIANTS SingleClaim NothingStranded
PROPERTIES FinalStatesStay EventuallySettled
