\* A delete that retries while another thread scans.
SPECIFICATION Spec
CONSTANTS
  Threads <- MCThreads
  Keys = {1, 2, 3, 4, 5, 6, 7, 8, 9, 10, 11, 12, 13, 14, 15}
  Order = 4
  MaxRetries = 2
  Scenarios <- LeakScenarios
INVARIANT AllLocksReleased
CHECK_DEADLOCK FALSE
