CONSTANTS
  bsp = bsp
  ap1 = ap1
  ap2 = ap2
  AP <- ProcessorsAp
  BSP = bsp
  ApicId <- ApicIds
  Firmware <- FirmwareTables
  MAX_CPUS = 3
  WORK_QUEUE_SIZE = 3
  AP_WAIT_ATTEMPTS = 2
  MaxWork = 4
SPECIFICATION Spec
INVARIANTS SlotsOwned CountsSound WorkInOrder
PROPERTIES BootCompletes
CHECK_DEADLOCK FALSE
