SPECIFICATION Spec
CONSTANTS
  Start = 3
  Bytes = 8
  Granule = 2
  MaxUnits = 3
  Sizes = {1, 3, 6}
  Aligns = {1, 4}
  SizeMax = 9
  Values = {0, 1}
PROPERTIES ImplementsAbstract
