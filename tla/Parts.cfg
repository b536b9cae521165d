CONSTANTS
  \* 4-bit addresses and arithmetic as wide as they are (IPv6).
  AddrBits = 4
  WordBits = 4
  CountBits = 5
  Threshold = 2
  PerSubnet = 2
  SourceLists <- Sources
  \* Delays of one to three ticks; a streak ends after four quiet ticks and is
  \* given up after six.
  RetryBase = 1
  BackoffBase = 2
  BackoffMax = 3
  MaxShift = 2
  EscalateAfter = 6
  Window = 4
  \* Three threads, each running any operation again and again.
  Threads = {t1, t2, t3}
  \* A stream longer than a chunk, a chunk longer than what the socket takes.
  StreamLength = 4
  BufSize = 3
  SendRoom = 2
  \* Two panels, three actions, one failure.
  Panels = {p1, p2}
  MaxActions = 3
  MaxFaults = 1
  \* Counts up to 3, ports of two bits; numbers below, within and beyond them,
  \* and command lines of two flags with their values.
  Requests = {r1, r2}
  MaxCount = 3
  PortBits = 2
  SizeBits = 5
  IntBits = 4
  DefaultCount = 2
  DefaultPort = 1
  Numbers <- SomeNumbers
  MaxTokens = 4
CHECK_DEADLOCK FALSE
SPECIFICATION Spec
INVARIANTS
  PartsTypeOK
  SamplesSound ActiveExact SweepCoversAll
  StreakExact EntriesAgree
  NoCircularWait
  EndIsComplete
  OneConnection StopShown
PROPERTIES PopReturns KickEnds ClientCatchesUp
