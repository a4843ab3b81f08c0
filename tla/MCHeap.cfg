SPECIFICATION Spec
CONSTANTS
  Start = 3
  Bytes = 16
  Granule = 2
  MaxUnits = 6
  Sizes = {0, 1, 3, 5, 13}
  Aligns = {1, 4}
  SizeMax = 15
  Values = {0}
INVARIANTS TypeOK LiveDisjoint Accounting ScanSound
PROPERTIES FirstFit LargestServed
