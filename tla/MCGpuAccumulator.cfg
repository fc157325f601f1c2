CONSTANTS
  Parents <- MCParents
  Expansion <- MCExpansion
  BatchSize = 2
  MaxMoves = 2
  Capacity = 7
SPECIFICATION Spec
INVARIANT TypeOK
INVARIANT StacksApart
INVARIANT StatsExact
PROPERTY DeliversSortedSets
CHECK_DEADLOCK FALSE
