CONSTANTS
  Entries = 8
  Tables = 2
  HigherHalf = 4
  PdFrame = 16
  FirstTable = 17
  PageSize = 2
  Start = 25
  Size = 10
  Half = 64
  Layouts <- SomeLayouts
SPECIFICATION BootSpec
INVARIANTS
  TypeOK
  BlocksInPlace
  BlocksApart
  NothingWraps
  OomMeansFull
  WindowsAgree
  NothingElseMapped
  TablesShow
  BlocksMapped
  HeapBeforeUse
  OkMeansReady
PROPERTIES
  BootEnds
CHECK_DEADLOCK FALSE
