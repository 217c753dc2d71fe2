\* One supplied node, one bit of the drawn clock sequence visible in a v2.
CONSTANTS
  Epoch = 2
  MaxNow = 5
  TickMax = 7
  LowSpan = 2
  Nodes = {n1}
  RandomNode = rnd
  CsMax = 3
  CsLowSpan = 2
  Owners = {o1}
  MaxGreg = 0
  MaxV2 = 3
SPECIFICATION Spec
INVARIANT DefaultedNeverRepeats
