\* Three places to be mapped at, so that what is loaded later often sits where
\* something else was; room in the table for three or four loads.
CONSTANTS
  Addresses = {a1, a2, a3}
  Versions = {v1, v2}
  Sizes <- HandlerCounts
  Configs <- IniFiles
  NoVersion = none
  MaxTable = 7
  MaxCached = 2
SPECIFICATION FlfSpec
SYMMETRY Renamings
INVARIANTS
  FlfTypeOK
  DispatchesRight
  NoStaleBinding
