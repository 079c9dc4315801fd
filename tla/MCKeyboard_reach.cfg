SPECIFICATION FairSpec
CONSTANTS
  RingSize = 2
  TtySize = 2
  LineSize = 2
  PortCap = 1
  BurstCap = 1
  Typed = {"a"}
  Plain <- MCPlain
  Shifted <- MCShifted
  HoldKeys = {}
  Serial = {"nl"}
PROPERTY
  KeysReachReader
