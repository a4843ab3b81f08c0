SPECIFICATION EchoSpec
CONSTANTS
  Pins = {}
  MaxBytes = 1
  MaxEdges = 0
  Handlers = {"echo"}
  FgOps = {"heap", "enable"}
INVARIANTS ReadAtMostOnce
