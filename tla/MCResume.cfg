CONSTANTS
  MaxLevel = 4
  Movers <- MCMovers
  MaxStops = 4
  CrashAt <- NotPurging
  InterruptAt <- NotMerging
SPECIFICATION Spec
INVARIANT TypeOK
INVARIANT SolvesFromWholeArchive
INVARIANT CompleteMeansWhole
INVARIANT OutputNameFree
PROPERTY FinishedLevelKept
PROPERTY AllLevelsSolved
