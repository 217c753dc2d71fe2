\* The code's sizes; the lane only has to be longer than a call, which
\* wraps it from one of the two vectors. The self-test returns, so no deadlock check.
CONSTANTS
  Block = 16
  Wide = 8
  Lane = 512
  Lens = {}
  Counters = {}
  OutSize = 272
  Vectors = {3, 200}
SPECIFICATION SelftestSpec
INVARIANT CoversEveryLane
PROPERTY AcceptsRight
CHECK_DEADLOCK FALSE
