\* One connection: stop() overlaps attach_server and the first copied bytes.
CONSTANTS
  Conns = {k1}
  Backends = {b1}
  MaxClosed = 0
CHECK_DEADLOCK FALSE
SPECIFICATION Spec
INVARIANT NoThreadEscapes
