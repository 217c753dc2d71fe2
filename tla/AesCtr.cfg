\* Blocks of two bytes, three to a wide pass, and a lane of 24 counters which
\* some calls wrap: every length from none to three wide passes and a byte. The
\* call returns and nothing follows, so no deadlock check.
CONSTANTS
  Block = 2
  Wide = 3
  Lane = 24
  Lens = {0, 1, 2, 3, 4, 5, 6, 7, 8, 9, 10, 11, 12, 13, 14, 15, 16, 17, 18, 19}
  Counters = {0, 3, 18, 23}
  OutSize = 21
SPECIFICATION FairSpec
INVARIANT CountersApart
PROPERTIES
  ImplementsContract
  Returns
CHECK_DEADLOCK FALSE
