SPECIFICATION Spec
CONSTANTS
  v1 = v1
  v2 = v2
  s1 = s1
  s2 = s2
  None = None
  Voters = {v1}
  Drops = {d1, d2}
  Sessions = {s1, s2}
  VoterOf <- OneVoterTwice
  VoteValues <- OneOrNone
  PerDrop = FALSE
  InitialCredit = 2
  Credits = {1}
  Decisions = 0
  Paused = {}
  TopN = 1
  SameMillisecond = TRUE
  RankBound = 2
  MaxFaults = 0
SYMMETRY DropSymmetry
INVARIANTS RankIsTally HistoryIsCurrent CreditKept
