\* Two slots and three addresses, room for two, two pings at once; removals by
\* one task at a time; two callers of cancel().
CONSTANTS
  a1 = a1
  b1 = b1
  b2 = b2
  Ips = {a1, b1, b2}
  Size = 2
  Draws <- Pool
  PrimaryTarget = 1
  BackupTarget = 1
  Concurrency = 2
  Tasks = {t1}
  Cancellers = {c1, c2}
CHECK_DEADLOCK FALSE
SPECIFICATION FairSpec
INVARIANTS TypeOK  ResultsFindRoom NoSleeper
PROPERTIES ProberEnds 
