CONSTANTS
  b1 = b1
  b2 = b2
  Boards = {b1, b2}
  Batches <- MCTwoBatches
  MaxBatches = 3
  Writers = {w1, w2}
  MergeDirs = {m1}
  WorstCase = 2
  AccumCapacity = 2
  BufCapacity = 3
  MaxSegs = 2
  MaxFanin = 1
  InterruptPhases = {"solve", "drain", "flush"}
  NoOne = NoOne
SPECIFICATION Spec
INVARIANT TypeOK
INVARIANT NothingLost
INVARIANT AfterCloseGuarantee
INVARIANT BufferBounds
INVARIANT BacklogBounded
PROPERTY LevelEnds
PROPERTY SolvesLevel
PROPERTY ClosedFilesImmutable
