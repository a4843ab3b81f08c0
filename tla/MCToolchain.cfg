SPECIFICATION ToolchainSpec
CONSTANTS
  Firmware = 2
  Workers = 2
  B = 8
  Chunk = 2
  Images <- SmallImages
  Texts <- SmallTexts
  RamEnd = 6
  VectorWords = 1
  HeapAlign = 2
  StackAlign = 2
  MinStack = 2
  MaxSections = 3
  MaxSegments = 2
  Words = 8
  Memories <- ThreeMemories
  StackWords = 20
  BssWords = 2
  Places = 2
  TypedBytes = 3
  Attempts = 2
INVARIANTS TextsTrusted LayoutSafe RoutinesExact SendDelivers
PROPERTIES ReportSound Ends InterruptLeavesNoTrace
CHECK_DEADLOCK FALSE
