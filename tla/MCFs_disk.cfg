SPECIFICATION Spec
CONSTANTS
  Disk = TRUE
  NumNodes = 6
  ArenaSize = 3
  BufSize = 2
  Names <- MCNames
  UserNames = {"a", "long1"}
  Stored <- MCStored
  Byte = {"x", "y"}
  Payloads <- MCPayloads
  Message <- MCMessage
  Image <- MCImage
  Paths <- MCPaths
INVARIANTS
  TypeOK TreeOK NoOrphans ExtentsDisjoint NamesUnique
PROPERTIES
  ImplementsStore
