SPECIFICATION Spec
CONSTANTS
  Pins = {p1}
  MaxBytes = 2
  MaxEdges = 2
  Handlers = {"echo", "gpio", "default", "heap"}
  FgOps = {"heap", "enable", "mask", "clear", "poll"}
INVARIANTS TypeOK Exclusion MasksRestored CleanExactlyOnce
PROPERTIES DefaultSilences
