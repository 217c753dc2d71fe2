\* Two wrappers, one payload and one text or byte string kept, one restore inside
\* another.
CONSTANTS
  Objects = {o1, o2}
  Cores <- SomeCores
  RawBytes <- Raw
  Codecs = {"string", "guid", "ordered", "first"}
  Versions = {2, 4, 6}
  MaxKept = 1
  MaxDepth = 2
SPECIFICATION Spec
SYMMETRY Renamings
INVARIANTS
  TypeOK
  ClassMatchesCore
  IdentityKept
  RoutedBySetters
  NeverMisfit
