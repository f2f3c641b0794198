CONSTANTS
  MAX_PROCESSES = 2
  LAYER = 1
  QUANTUM = 5
  APIC_READY = FALSE
  Msg = {m0}
  ZeroMsg = m0
SPECIFICATION TimerSpec
PROPERTY TimerPreempts
