\* The whole 4x4 game and the end of an 8x8 game.
SPECIFICATION Spec
CONSTANTS
  NumRotations = 16
  Games <- MCGames
INVARIANT TypeOK
INVARIANT RulesMatchCells
INVARIANT CanonicalFormsAgree
INVARIANT RepresentativeSuffices
INVARIANT MovesWithinMax
CHECK_DEADLOCK FALSE
