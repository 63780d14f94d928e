SPECIFICATION FairLinkSpec
CONSTANTS
  Media = {a, b}
  NoSource = NoSource
  Unsupported = {b}
  Resolvers = {r1, r2}
  Workers = {w1, w2}
  LockTTL = 0
  MinInterval = 0
  MaxChanges = 1
  MaxFailures = 1
  None = None
INVARIANT OneHolder
PROPERTIES NoPreviewStranded EventuallyShown
