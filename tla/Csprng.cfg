\* A chunk of two blocks, a reseed every two chunks; requests that fit the
\* buffer, pass it by from below (3) and from above (10: three chunks, with a
\* reseed between them).  The one byte of a step fits where a caller's three do
\* not: it is served after a refill that failed.  The second process is a forked child, with or without
\* the handler, or a clone.  Processes may stop asking, so no deadlock check.
CONSTANTS
  Procs = {p1, p2}
  First = p1
  Size = 4
  Block = 2
  Reseed = 8
  Requests = {3, 10}
  SeedLens = {2}
  StartLens = {2}
  StepLens = {1}
  Detected = {TRUE, FALSE}
  Registered = {TRUE, FALSE}
  Snapshots = TRUE
  MaxCalls = 5
SPECIFICATION Spec
INVARIANTS
  ServedOnce
  ForkSeparates
  KeyErased
  CloneOverlap
CHECK_DEADLOCK FALSE
