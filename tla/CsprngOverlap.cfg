\* A full buffer and a late direct fill, in both clones.
CONSTANTS
  Procs = {p1, p2}
  First = p1
  Size = 4
  Block = 2
  Reseed = 8
  Requests = {2, 3, 5}
  SeedLens = {}
  StartLens = {}
  StepLens = {}
  Detected = {TRUE}
  Registered = {TRUE}
  Snapshots = TRUE
  MaxCalls = 7
SPECIFICATION Spec
INVARIANT OverlapWithinReseed
CHECK_DEADLOCK FALSE
