SPECIFICATION Spec
CONSTANTS
  EnvMax = 3
  KvMax = 6
  NameMax = 3
  SectorSize = 17
  Char <- MCChar
  Kvs <- MCKvs
  Names <- MCNames
  PathKv <- MCPathKv
INVARIANTS
  TypeOK NamesOnce RebootRestores
PROPERTIES
  ImplementsMap
