CONSTANTS
  MAX_NODES = 4
  DATA_POOL = 3
  MAX_CHAIN = 2
  PATH_BUF = 4
  NAME_LEN <- MCNameLen
  Name = {"a", "b"}
  Byte = {0, 1}
  Text <- MCText
  Path <- MCPath
SPECIFICATION Spec
INVARIANTS TypeOK Tree PathsResolve FilesKeepContents
