SPECIFICATION Spec
CONSTANTS
  RingSize = 3
  TtySize = 3
  LineSize = 2
  PortCap = 2
  BurstCap = 2
  Typed = {"a"}
  Plain <- MCPlain
  Shifted <- MCShifted
  HoldKeys = {"lshift"}
  Serial = {"bs", "nl"}
INVARIANTS
  TypeOK NoStuckModifier BurstReachesTty
