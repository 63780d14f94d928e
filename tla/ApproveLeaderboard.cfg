CONSTANTS
  None = None
  Drops = {1}
  VoteValues = {0, 3}
  TimeLock = 2
  MinDuration = 1
  Thresholds = {1, 2}
  InitialThreshold = 1
  MaxWinners = 1
  Pauses = {4}
  Latency = 1
  MaxTime = 5
  MaxVotes = 4
  MaxUpdates = 1
  MaxFaults = 1
SPECIFICATION Spec
INVARIANTS SinceIsExact SettledEntriesAreRight WinnersAreOver
PROPERTIES CandidatesHeld
