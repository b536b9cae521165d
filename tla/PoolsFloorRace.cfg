\* Two connections deactivate concurrently.
CONSTANTS
  i1 = i1  i2 = i2  i3 = i3  i4 = i4
  b1 = b1  b2 = b2  b3 = b3  b4 = b4
  c1 = c1  c2 = c2  r1 = r1
  Ips = {i1, i2, i3, i4}
  Backends = {b1, b2, b3, b4}
  IpOf <- Distinct4
  Conns = {c1, c2}
  Rounds = {}
  PrimaryTarget = 3
  MaxBackupTarget = 1
  MinBackupTarget = 1
  SampleWindow = 1
  EvictThreshold = 1
  Concurrency = 2
  Jumps = {FALSE}
SPECIFICATION Spec
PROPERTY FloorKept
