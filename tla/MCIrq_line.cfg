SPECIFICATION FairIrq
CONSTANTS
  RingSize = 2
  TtySize = 2
  LineSize = 2
  PortCap = 1
  BurstCap = 1
  Typed = {"backspace"}
  Plain <- MCKeys
  Shifted <- MCKeys
  HoldKeys = {}
  Serial = {}
  TickWord = 2
INVARIANTS
  IrqTypeOK AllAcknowledged RegistersKept OnlySpuriousUnhandled ConfigLostOnlyToKey
PROPERTIES
  HandlerEnds KeyServed
