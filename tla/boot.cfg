SPECIFICATION Spec
CONSTANTS
  Blank = "blank"
  KEYBUF_SIZE = 3
  RETRY_INTERVAL = 2
  QUEUE = 3
  Port = {0, 1}
  MAX_DEVICES = 2
  ADDRESSES = 3
  KEY_BUF_SIZE = 3
  REPEAT_DELAY = 2
  REPEAT_RATE = 1
  Report <- MCReport
  Mute = {2}
  MaxEvents = 4
INVARIANTS MountedDiskComplete InputKept DevicesSound
PROPERTY ComesUp
