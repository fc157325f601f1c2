\* Two player merges against one limit on open files.
SPECIFICATION Spec
CONSTANTS
  Levels <- PlainLevels
  Rooms <- PlainRooms
  TempDrives <- Drives3
  StoreDrive = "Y"
  MaxFanin = 2
  MaxHandles = 4
  Trailer = 1
  Packed = {1}
PROPERTY NoBoardLost
