SPECIFICATION Spec
CONSTANTS
  Reader = {r1, r2}
  Writer = {w1}
  TTL = 1
  Timeout = 1
  MaxWrites = 1
INVARIANTS ReadsOwnWrites
