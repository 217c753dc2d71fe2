\* Two variables, which may share a string or be the same argument twice.
CONSTANTS
  Digits = 4
  HyphenPlaces = {3}
  Base = 3
  Ten = 2
  MaxDecimals = 7
  NodeBytes = 1
  LocalMax = 5
  LocalDigits = 3
  SeqMax = 3
  Vars = {x, y}
  Strings = {s1, s2, s3, s4}
  NoString = null
  Inputs <- Spelled
  MaxName = 6
  UuidValue <- AUuid
  Required = "Uuid"
  NoClass = "no class"
  Supers <- Classes
  Lookup <- Loaded
  Objects <- Foreign
SPECIFICATION Spec
SYMMETRY Renamings
INVARIANTS
  TypeOK
  AnswersGiven
  RefsExact
  ParsesExactly
  NumbersExact
  CoreIsIdentity
