CONSTANTS
  MAX_PROCESSES = 3
  LAYER = 1
  QUANTUM = 2
  APIC_READY = FALSE
  Msg = {m0}
  ZeroMsg = m0
SPECIFICATION HSpec
PROPERTY AnsweredByReceiver
