SPECIFICATION Spec
CONSTANTS
  Keys <- MCKeys
  MaxRecords = 3
  Half = 32
  Base = 4
  RecordBytes = 4
  Magics <- MCMagics
  VarBufSize = 8
  ReadBufSize = 3
  MaxCount = 2
INVARIANT TypeOK
INVARIANT OpensOnlyWhole
INVARIANT ReadsBack
