CONSTANTS
  Ip = {1, 2, 3}
  Mac = {7, 8}
  NoIp = 0
  DNS_SERVER = 1
  APIC_READY = TRUE
  MAX_ARP = 2
  MAX_UDP_HANDLERS = 2
  DNS_CACHE_SIZE = 2
  RXBUF = 1
  OUT = 2
  RX_RING = 1
  MaxArrivals = 5
SPECIFICATION Spec
INVARIANTS ArpLatest PiecesKept
CHECK_DEADLOCK FALSE
