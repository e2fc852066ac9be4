SPECIFICATION Spec
CONSTANTS
  Req = {r1, r2}
  Limiter = {x1, x2}
  None = None
  Rate = 1
  Burst = 2
  IdleTTL = 4
  SweepInterval = 2
  MaxStall = 1
  Writer = {g1, g2}
  AcceptEncoding <- Headers
  IfNoneMatch <- Validators
  Version = {v1, v2}
SYMMETRY Symmetry
INVARIANTS TypeOK EvictionIsInvisible EntriesForgotten Decodable OnlyIfWanted WritersAreClean
CHECK_DEADLOCK FALSE
