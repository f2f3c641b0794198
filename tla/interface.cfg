SPECIFICATION Spec
CONSTANTS
  COLS = 2
  ROWS = 2
  CMD_BUF_SIZE = 6
  Char = {"a", "b"}
  DISK_N = 2
  STEPS = 6
  MAX_WINDOWS = 2
  FbW = 4
  FbH = 3
  TITLE_H = 1
  CONTENT_PAD = 0
  GAP = 0
  HANDLE = 1
  MIN_W = 3
  MIN_H = 2
  TERM_BUF_ROWS = 2
  TERM_BUF_COLS = 1
  App = {"Terminal", "Desktop"}
  InstallLine <- MCInstallLine
  DesktopLine <- MCDesktopLine
  Size <- MCSize
  StartItems <- MCStartItems
  CtxItems = {"Terminal", "Cancel"}
  Icons = {"Desktop", "Reboot", "none"}
  DefW = 3
  DefH = 2
  EscIds = 3
  MaxId = 3
  MaxZ = 4
  WORD = 4
  MAX_TOKENS = 64
  MAX_VARS = 16
  MaxTurns = 2
  Cond <- MCCond
  Script <- MCScript
  Outcome <- MCOutcome
  BarrelLine <- MCBarrelLine
CONSTRAINTS OneDisk FirstScripts
INVARIANTS LineShown InstallsShownDisk WindowsSound MenusAndGrabs PrintsAsWritten
