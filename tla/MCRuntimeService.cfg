SPECIFICATION FairSpec
CONSTANTS
  Pins = {p1}
  MaxBytes = 1
  MaxEdges = 2
  Handlers = {"gpio"}
  FgOps = {"heap", "enable", "mask"}
PROPERTIES RequestsServed
