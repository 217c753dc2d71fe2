\* Two objects and two variables share three strings; user code writes one text
\* that is not canonical; a comparison may be under way inside a callback of
\* another one. Objects, variables and strings are alike in kind.
CONSTANTS
  Objects = {o1, o2}
  Handles = {h1, h2}
  Strings = {s1, s2, s3}
  NoString = null
  Values = {0, 1}
  Written <- WrittenTexts
  MaxDepth = 2
SPECIFICATION Spec
SYMMETRY Renamings
INVARIANTS
  RefsExact
  CacheIsText
PROPERTY ImplementsPlain
