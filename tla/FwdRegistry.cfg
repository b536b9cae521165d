\* Two connections over two backends, stopped at any point; a peer of one of them
\* may close at any point too.
CONSTANTS
  Conns = {k1, k2}
  Backends = {b1, b2}
  MaxClosed = 1
SYMMETRY Symmetry
CHECK_DEADLOCK FALSE
SPECIFICATION Spec
INVARIANTS TypeOK RegistryExact QuotaPaired NoTaskEscapes
