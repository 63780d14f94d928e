SPECIFICATION FairSpec
CONSTANTS
  Waves = {w1, w2}
  Writers = {a1}
  MetricTables = {wm}
  BatchSize = 1
  MaxBatches = 1
  MaxAttempts = 2
  Times <- ClockOne
  MaxDeletes = 2
  MaxFaults = 1
INVARIANT NoLostRepair
PROPERTIES EventuallyRepaired WakeupsSuffice KeepsPromise
