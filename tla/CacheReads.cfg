SPECIFICATION FairSpec
CONSTANTS
  Reader = {r1, r2}
  Writer = {w1, w2}
  TTL = 1
  Timeout = 1
  MaxWrites = 2
INVARIANTS TypeOK ReadsAreMonotonic StalenessBounded
PROPERTIES ReadersAnswered
