SPECIFICATION SocketSpec
CONSTANTS
  Daemon = {d1, d2}
  NoSocket = NoSocket
SYMMETRY MCSymmetry
CHECK_DEADLOCK FALSE
PROPERTIES
  OwnCleanup
