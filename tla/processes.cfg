CONSTANTS
  MAX_PROCESSES = 4
  LAYER = 1
  QUANTUM = 2
  APIC_READY = TRUE
  Msg = {m0, m1}
  ZeroMsg = m0
SPECIFICATION Spec
CONSTRAINT ThirdProgramPlain
INVARIANTS TypeOK SchedulerSafe BlockedBufferInLayer
PROPERTIES ImplementsRendezvous WokenWithMessage CallerWaitsForReceiver RoundRobin
