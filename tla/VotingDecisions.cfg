SPECIFICATION FairSpec
CONSTANTS
  v1 = v1
  v2 = v2
  s1 = s1
  s2 = s2
  None = None
  Voters = {v1}
  Drops = {d1}
  Sessions = {s1}
  VoterOf <- OneVoterTwice
  VoteValues <- GainsAndLosses
  PerDrop = TRUE
  InitialCredit = 1
  Credits = {0}
  Decisions = 3
  Paused = {2}
  TopN = 2
  SameMillisecond = TRUE
  RankBound = 1
  MaxFaults = 1
INVARIANTS NoDecisionLost FinalVoteIsArchived CreditKept
PROPERTIES WinnersAreFinal EveryDecisionIsMade
