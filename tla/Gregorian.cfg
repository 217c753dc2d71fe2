\* Seven ticks, of which readings reach four: the mark of v1 and v6 outruns the
\* clock and exhausts.  Two clock sequences, of which v2 shows the high part, and
\* four visible timestamps, one below all readings.
CONSTANTS
  Epoch = 2
  MaxNow = 4
  TickMax = 6
  LowSpan = 2
  Nodes = {n1}
  RandomNode = rnd
  CsMax = 1
  CsLowSpan = 2
  Owners = {o1}
  MaxGreg = 4
  MaxV2 = 3
SPECIFICATION Spec
INVARIANTS
  GregStrictlyIncreasing
  MarksWithinTies
  V2SuppliedIncreasing
PROPERTIES
  ExhaustionIsFinal
  ImplementsSource
