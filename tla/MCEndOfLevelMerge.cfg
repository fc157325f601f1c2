SPECIFICATION Spec
CONSTANTS
  Levels <- MCLevels
  Rooms <- MCRooms
  TempDrives <- Drives3
  StoreDrive = "Y"
  MaxFanin = 2
  MaxHandles = 6
  Trailer = 1
  Packed = {1, 4}
INVARIANT TypeOK
INVARIANT OvershootBounded
INVARIANT LedgerSettles
PROPERTY NoBoardLost
