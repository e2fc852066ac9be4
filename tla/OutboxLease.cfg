SPECIFICATION Spec
CONSTANTS
  Purchase = {p1}
  Bad = {}
  Worker = {w1, w2}
  NoEvent = NoEvent
  Lease = 1
  BatchSize = 1
  MaxCrashes = 0
INVARIANTS LeaseIsExclusive
