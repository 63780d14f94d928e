SPECIFICATION Spec
CONSTANTS
  End = 3
  Day = 2
  Ends = {2, 3}
  Rates = {4}
  Capacities = {8, 6}
  MaxCreated = 2
  MaxUpdated = 1
  MaxFaults = 1
  None = None
INVARIANTS TypeOK RatesWithinCapacity HeirsWithinGrant CutsAreFair
PROPERTIES GrantsSettle
