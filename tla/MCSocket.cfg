SPECIFICATION SocketSpec
CONSTANTS
  Daemon = {d1, d2, d3, d4}
  NoSocket = NoSocket
SYMMETRY MCSymmetry
CHECK_DEADLOCK FALSE
INVARIANTS
  Heals
  OrderlyExclusive
