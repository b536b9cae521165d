CONSTANTS
  Backends = {b1, b2, b3}
  AddrOf <- OwnAddress
  Handlers = {h1}
  MaxSlots = 2
  BaseInterval = 1
  Increment = 2
  Ttl = 2
  ExpandInterval = 2
  MaxGap = 1
SYMMETRY Symmetry
CHECK_DEADLOCK FALSE
SPECIFICATION Spec
INVARIANTS TypeOK SlotsDistinct StraysRevived StrandedBriefly
