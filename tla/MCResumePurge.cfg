CONSTANTS
  MaxLevel = 3
  Movers <- MCMovers
  MaxStops = 3
  CrashAt <- Points
  InterruptAt <- NotMerging
SPECIFICATION Spec
INVARIANT SolvesFromWholeArchive
