SPECIFICATION Spec
CONSTANTS
  Slot = {root, tty, f}
  Data <- MCData
  Byte = {x, y}
  MaxFd = 6
  Word = 4
  Counts = {1}
  Offs <- MCOffs
  FileCap <- MCFileCap
  Root = root
  Tty = tty
  Nil = nil
SYMMETRY ByteSymmetry
INVARIANTS
  TypeOK UsedIffOpen NoFdLeak SavedStaysOpen OffsetInFile
PROPERTIES
  ProgramsOnlyAppend
