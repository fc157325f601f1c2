CONSTANTS
  b1 = b1
  b2 = b2
  Boards = {b1, b2}
  Batches <- MCTwoBatches
  MaxBatches = 2
  Writers = {w1, w2}
  MergeDirs = {m1}
  WorstCase = 2
  AccumCapacity = 3
  BufCapacity = 5
  MaxSegs = 2
  MaxFanin = 2
  InterruptPhases = {"solve", "drain", "flush", "eol"}
  NoOne = NoOne
SPECIFICATION Spec
INVARIANT CompleteIsWhole
