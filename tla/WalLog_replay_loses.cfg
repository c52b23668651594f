SPECIFICATION Spec
CONSTANTS
  c1 = c1
  c2 = c2
  c3 = c3
  b1 = b1
  b2 = b2
  Calls = {c1, c2}
  Framed = {c2}
  Flusher = Flusher
  Free = Free
  Batches = {b1, b2}
  BatchOf <- TwoBatchOf
  Interval = 2
  NumSinks = 1
  RequiredAcks = 1
  MaxCrashes = 1
  MaxPowerLosses = 1
INVARIANT
  AcknowledgedIsServed
\* The calls are finite in number: when all have returned the system rests.
CHECK_DEADLOCK FALSE
