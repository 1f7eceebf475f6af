CONSTANTS
  p1 = p1
  p2 = p2
  Processes = {p1, p2}
  Discoveries = {"aws"}
  Engines = {"sqlite", "postgres"}
  InitMaxRetries = 1
  MaxClock = 1
  MaxRows <- Rows
  MaxIssued = 2
SYMMETRY Swaps
SPECIFICATION Spec
INVARIANT IdsNeverRepeat
PROPERTIES CurrentNeverGoesBack
