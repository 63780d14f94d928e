SPECIFICATION Spec
CONSTANTS
  v1 = v1
  v2 = v2
  s1 = s1
  s2 = s2
  None = None
  Voters = {v1, v2}
  Drops = {d1}
  Sessions = {s1, s2}
  VoterOf <- TwoVoters
  VoteValues <- OneOrNone
  PerDrop = FALSE
  InitialCredit = 1
  Credits = {}
  Decisions = 1
  Paused = {}
  TopN = 1
  SameMillisecond = FALSE
  RankBound = 2
  MaxFaults = 0
CHECK_DEADLOCK FALSE
PROPERTIES WinnersTakeNoVotes
