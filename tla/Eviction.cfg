\* Delays in units of 15 ms, a difference of two of them exceeds 20 ms.
CONSTANTS
  Backends = {b1, b2, b3}
  Delays = {0, 1, 2}
  DelayThreshold = 1
  Losses = {0, 1}
  LossThreshold = 0
  Loads = {0, 1}
CHECK_DEADLOCK FALSE
SPECIFICATION Spec
INVARIANT DelayDecides
