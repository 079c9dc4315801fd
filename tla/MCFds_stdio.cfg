SPECIFICATION Spec
CONSTANTS
  Slot = {root, tty, f}
  Data <- MCData
  Byte = {"x"}
  MaxFd = 6
  Word = 4
  Counts = {1}
  Offs <- MCOffs
  FileCap <- MCFileCap
  Root = root
  Tty = tty
  Nil = nil
INVARIANTS
  StdioBound
