SPECIFICATION RaceSpec
CONSTANTS
  Req = {r1, r2}
  s1 = s1
  s2 = s2
  b1 = b1
  b2 = b2
  Seat = {s1, s2}
  m1 = m1
  Match = {m1}
  MatchOf <- OneMatch
  Buyer = {b1, b2}
  Key = {}
  NoKey = NoKey
  Ops = {"hold"}
  TTL = 2
  StartTime <- StartsLast
  Retention = 1
  SweepBatch = 1
  MaxRetries = 1
  MaxTime = 3
  MaxBookings = 4
INVARIANTS OneHeldPerBuyer BuyerIndexIsBackstop
PROPERTIES HoldsEndByTheirOwner LosersHaveAWinner EveryRequestAnswered DeadHoldsAreSwept
CHECK_DEADLOCK FALSE
