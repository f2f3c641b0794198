CONSTANTS
  MAX_NODES = 3
  DATA_POOL = 2
  MAX_CHAIN = 2
  PATH_BUF = 4
  NAME_LEN <- MCNameLen
  Name = {a, b}
  Byte = {0, 1}
  Text <- MCText
  Path <- MCPath
  PROCS = 1
  MAX_FDS = 3
SPECIFICATION FSpec
INVARIANTS FdTypeOK DescriptorsNameFiles DeadHoldNoFile
SYMMETRY NameSymmetry
