\* Trees of order 4 with one to four levels, three threads at once.
SPECIFICATION Spec
CONSTANTS
  Threads <- MCThreads
  Keys = {1, 2, 3, 4, 5, 6, 7, 8, 9, 10, 11, 12, 13, 14, 15}
  Order = 4
  MaxRetries = 2
  Scenarios <- MCScenarios
INVARIANT TypeOK
INVARIANT WellFormed
PROPERTY IsOrderedSet
PROPERTY CallsReturn
CHECK_DEADLOCK FALSE
