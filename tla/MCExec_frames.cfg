SPECIFICATION Spec
CONSTANTS
  PageSize = 2
  Fan = 7
  Large = 4
  KernelEnd = 5
  KStack = 4
  Pml4 = 1
  Pdpt = 2
  Pd = 3
  Code <- MCCode
  StackPage = 684
  Guard = 2
  DefaultHi = 4
  MaxPages = 9
  Breaks <- MCBreaks
  Images <- MCImages
INVARIANTS
  TypeOK FramesApart KernelStays HeapMissesImage BreakBacked ImageMapped ExitGivesBack
CHECK_DEADLOCK FALSE
