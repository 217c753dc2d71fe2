\* Two sub-millisecond slots in a 3 ns millisecond, four values of rand_b:
\* ties, carries and exhaustion all happen within five stamps.
CONSTANTS
  NsPerMs = 3
  SubSlots = 2
  KeyMax = 4
  RandMax = 3
  MaxStep = 2
  MaxNs = 5
  MaxBatch = 3
  MaxIssued = 5
SPECIFICATION Spec
INVARIANTS
  StrictlyIncreasing
  DriftBound
  LateExhaustion
PROPERTY ImplementsSource
