\* The smallest target the settings allow.
CONSTANTS
  i1 = i1  i2 = i2  i3 = i3  i4 = i4
  b1 = b1  b2 = b2  b3 = b3  b4 = b4
  c1 = c1  c2 = c2  r1 = r1
  Ips = {i1, i2, i3}
  Backends = {b1, b2, b3}
  IpOf <- Distinct3
  Conns = {c1}
  Rounds = {}
  PrimaryTarget = 1
  MaxBackupTarget = 10
  MinBackupTarget = 2
  SampleWindow = 1
  EvictThreshold = 1
  Concurrency = 2
  Jumps = {FALSE}
SPECIFICATION Spec
INVARIANTS PrimaryWithinTarget
