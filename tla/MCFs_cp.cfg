SPECIFICATION Spec
CONSTANTS
  Disk = FALSE
  NumNodes = 7
  ArenaSize = 3
  BufSize = 2
  Names <- MCNames
  UserNames = {"a", "long1"}
  Stored <- MCStored
  Byte = {"x", "y"}
  Payloads <- MCPayloads
  Message <- MCMessage
  Image <- MCBigImage
  Paths <- MCHomeOnly
PROPERTIES
  CopyHoldsSource
